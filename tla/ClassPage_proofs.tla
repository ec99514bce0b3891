-------------------------- MODULE ClassPage_proofs --------------------------
(***************************************************************************)
(* Proofs of what a page shows: about ClassPage, for classes of every      *)
(* size, about FunctionPage, for any parameters and whatever is said of    *)
(* them, and about CppScopes, for any directives in any order.             *)
(***************************************************************************)
EXTENDS ClassPage, FunctionPage, CppScopes, Recursion_proofs

States == {"loaded", "properties", "transformed", "done"}

ShownAtEnd == {e \in Entries : Stands(e.section, e.fun)}

\* A property has the last accessors of its name and the doc of its getter.
PropertyInv ==
  /\ \A p \in properties :
       /\ IsAccessor(p.getter, "get", p.name) /\ IsAccessor(p.setter, "set", p.name)
       /\ p.doc = TRUE /\ p.name \notin todo
  /\ \A p, q \in properties : p.name = q.name => p = q

\* The lists hold what no property has taken.
ListInv ==
  /\ \A f \in Fun : f \in functions <=>
       f \notin static /\ ~\E p \in properties : f \in {p.getter, p.setter}
  /\ \A f \in Fun : f \in doc <=> ~\E p \in properties : p.getter = f

\* No pair of accessors is forgotten.
PairInv ==
  /\ pc = "loaded" => properties = {} /\ todo = {}
  /\ pc # "loaded" => \A x \in Paired : x \in todo \/ \E p \in properties : p.name = x
  /\ pc \in {"transformed", "done"} => todo = {}

ResultInv ==
  /\ pc = "transformed" => \A f \in Fun : visits[f] = VisitsOf(f)
  /\ pc = "done" => page = ShownAtEnd

ClassInv == TypeOK /\ PropertyInv /\ ListInv /\ PairInv /\ ResultInv

IsTaken(f) == \E p \in properties : f \in {p.getter, p.setter}

LEMMA ClassInvInit == Init => ClassInv
<1> SUFFICES ASSUME Init PROVE ClassInv
  OBVIOUS
<1>1. TypeOK
  BY DEF Init, TypeOK
<1>2. PropertyInv /\ ListInv /\ PairInv /\ ResultInv
  BY DEF Init, PropertyInv, ListInv, PairInv, ResultInv
<1> QED
  BY <1>1, <1>2 DEF ClassInv

\* An overload is an accessor of one direction and one name.
LEMMA AccessorDistinct ==
  ASSUME TypeOK, NEW f \in Fun, NEW g \in Fun, NEW d, NEW e, NEW x, NEW y,
         IsAccessor(f, d, x), IsAccessor(g, e, y)
  PROVE  /\ dir[f] = d /\ prop[f] = x /\ f \in Fun \ static
         /\ f = g => d = e /\ x = y
         /\ d = e /\ x = y => f = g
<1>1. dir[f] = d /\ prop[f] = x /\ f \in Fun \ static /\ dir[g] = e /\ prop[g] = y
  BY DEF IsAccessor, Overloads
<1>2. ASSUME d = e, x = y PROVE f = g
  BY <1>2, ClassAssumption DEF IsAccessor, Fun
<1> QED
  BY <1>1, <1>2

LEMMA ClassInvNext == ClassInv /\ [Next]_vars => ClassInv'
<1> SUFFICES ASSUME ClassInv, [Next]_vars PROVE ClassInv'
  OBVIOUS
<1> USE DEF ClassInv
<1>1. CASE CollectProperties
  <2> USE <1>1 DEF CollectProperties, class
  <2>1. TypeOK'
    BY DEF TypeOK, Paired
  <2>2. PropertyInv' /\ ListInv'
    BY DEF PropertyInv, ListInv, PairInv, IsAccessor, Overloads
  <2>3. PairInv' /\ ResultInv'
    BY DEF PairInv, ResultInv, Paired, Overloads
  <2> QED
    BY <2>1, <2>2, <2>3
<1>2. ASSUME NEW x \in Names, NEW g \in Fun, NEW s \in Fun, MakeProperty(x, g, s)
      PROVE  ClassInv'
  <2> DEFINE new == Property(x, g, s, g \in doc)
  <2>1. /\ IsAccessor(g, "get", x) /\ IsAccessor(s, "set", x) /\ x \in todo
        /\ UNCHANGED <<dir, prop, static, visits, page, pc>> /\ pc = "properties"
        /\ properties' = properties \cup {new}
        /\ doc' = doc \ {g} /\ functions' = functions \ {g, s} /\ todo' = todo \ {x}
    BY <1>2 DEF MakeProperty, class
  <2>2. /\ new \in [name : Names, getter : Fun, setter : Fun, doc : BOOLEAN]
        /\ new.name = x /\ new.getter = g /\ new.setter = s /\ new.doc = (g \in doc)
    BY DEF Property
  <2> HIDE DEF new
  <2>3. TypeOK'
    BY <2>1, <2>2 DEF TypeOK
  <2>4. \A f, d, y : IsAccessor(f, d, y)' = IsAccessor(f, d, y)
    BY <2>1 DEF IsAccessor, Overloads
  <2>5. g \in doc
    <3>1. ASSUME NEW p \in properties, p.getter = g PROVE FALSE
      <4>1. p.name = x
        BY <2>1, <3>1, AccessorDistinct DEF PropertyInv, TypeOK
      <4> QED
        BY <2>1, <4>1 DEF PropertyInv
    <3> QED
      BY <3>1 DEF ListInv
  <2>6. PropertyInv'
    BY <2>1, <2>2, <2>4, <2>5 DEF PropertyInv
  <2>7. ListInv'
    BY <2>1, <2>2 DEF ListInv
  <2>8. PairInv' /\ ResultInv'
    BY <2>1, <2>2 DEF PairInv, ResultInv, Paired, Overloads
  <2> QED
    BY <2>3, <2>6, <2>7, <2>8
<1>3. CASE Describe
  <2> USE <1>3 DEF Describe, class
  <2>1. \A f : VisitsOf(f) \in Nat
    BY DEF VisitsOf, One
  <2>2. TypeOK'
    BY <2>1 DEF TypeOK
  <2>3. PropertyInv' /\ ListInv'
    BY DEF PropertyInv, ListInv, IsAccessor, Overloads
  <2>4. PairInv'
    BY DEF PairInv, Paired, Overloads
  <2>5. ResultInv'
    BY DEF ResultInv, VisitsOf
  <2> QED
    BY <2>2, <2>3, <2>4, <2>5
<1>4. CASE Render
  <2> USE <1>4 DEF Render, class
  <2>1. page' = ShownAtEnd
    BY DEF ShownAtEnd
  <2>2. page' \subseteq Entries
    BY <2>1 DEF ShownAtEnd
  <2>3. TypeOK'
    BY <2>2 DEF TypeOK
  <2>4. PropertyInv' /\ ListInv'
    BY DEF PropertyInv, ListInv, IsAccessor, Overloads
  <2>5. PairInv'
    BY DEF PairInv, Paired, Overloads
  <2>6. ResultInv'
    BY <2>1 DEF ResultInv, ShownAtEnd, Stands
  <2> QED
    BY <2>3, <2>4, <2>5, <2>6
<1>5. CASE UNCHANGED vars
  <2> USE <1>5 DEF vars, class
  <2>1. TypeOK' /\ PropertyInv' /\ ListInv' /\ PairInv'
    BY DEF TypeOK, PropertyInv, ListInv, PairInv, IsAccessor, Overloads, Paired
  <2>2. \A f \in Fun : VisitsOf(f)' = VisitsOf(f)
    BY DEF VisitsOf
  <2>3. ShownAtEnd' = ShownAtEnd
    BY DEF ShownAtEnd, Stands
  <2>4. ResultInv'
    BY <2>2, <2>3 DEF ResultInv
  <2> QED
    BY <2>1, <2>4
<1> QED
  BY <1>1, <1>2, <1>3, <1>4, <1>5 DEF Next

LEMMA ClassInvCorrect == Spec => []ClassInv
  BY ClassInvInit, ClassInvNext, PTL DEF Spec

-----------------------------------------------------------------------------
\* A function is the accessor of one property at most, in one role.
LEMMA OneProperty ==
  ASSUME ClassInv, NEW p \in properties, NEW q \in properties
  PROVE  /\ p.getter # q.setter
         /\ p.getter = q.getter \/ p.setter = q.setter => p = q
  BY AccessorDistinct DEF ClassInv, PropertyInv, TypeOK

\* The variables keep their types.
THEOREM TypeCorrect == Spec => []TypeOK
<1>1. ClassInv => TypeOK
  BY DEF ClassInv
<1> QED
  BY <1>1, ClassInvCorrect, PTL

\* No function of a class is lost or duplicated on its way to the page.
THEOREM Partitioned == Spec => []FunctionsPartitioned
<1>1. ClassInv => FunctionsPartitioned
  BY OneProperty DEF ClassInv, ListInv, FunctionsPartitioned
<1> QED
  BY <1>1, ClassInvCorrect, PTL

\* The property is made of the last overloads, the others stay functions.
THEOREM LastWins == Spec => []LastOverloadWins
<1>1. ASSUME ClassInv PROVE LastOverloadWins
  <2>1. ASSUME NEW p \in properties, NEW f \in Fun \ static,
               dir[f] = "get", prop[f] = p.name, f # p.getter
        PROVE  f < p.getter /\ f \in functions
    <3>1. p.getter \in Nat /\ f \in Nat /\ f <= p.getter
      BY <1>1, <2>1, ClassAssumption DEF ClassInv, PropertyInv, IsAccessor, Overloads, Fun, TypeOK
    <3>2. ASSUME NEW q \in properties, f \in {q.getter, q.setter} PROVE FALSE
      <4>1. f = q.getter /\ q.name = p.name
        BY <1>1, <2>1, <3>2 DEF ClassInv, PropertyInv, IsAccessor, Overloads
      <4> QED
        BY <1>1, <2>1, <4>1 DEF ClassInv, PropertyInv
    <3> QED
      BY <1>1, <2>1, <3>1, <3>2 DEF ClassInv, ListInv
  <2>2. ASSUME NEW p \in properties, NEW f \in Fun \ static,
               dir[f] = "set", prop[f] = p.name, f # p.setter
        PROVE  f < p.setter /\ f \in functions
    <3>1. p.setter \in Nat /\ f \in Nat /\ f <= p.setter
      BY <1>1, <2>2, ClassAssumption DEF ClassInv, PropertyInv, IsAccessor, Overloads, Fun, TypeOK
    <3>2. ASSUME NEW q \in properties, f \in {q.getter, q.setter} PROVE FALSE
      <4>1. f = q.setter /\ q.name = p.name
        BY <1>1, <2>2, <3>2 DEF ClassInv, PropertyInv, IsAccessor, Overloads
      <4> QED
        BY <1>1, <2>2, <4>1 DEF ClassInv, PropertyInv
    <3> QED
      BY <1>1, <2>2, <3>1, <3>2 DEF ClassInv, ListInv
  <2>3. \A p, q \in properties : p.name = q.name => p = q
    BY <1>1 DEF ClassInv, PropertyInv
  <2> QED
    BY <2>1, <2>2, <2>3 DEF LastOverloadWins
<1> QED
  BY <1>1, ClassInvCorrect, PTL

\* Every description is visited, and none twice.
THEOREM VisitedOnce == Spec => []DescriptionsVisitedOnce
<1>1. ASSUME ClassInv, NEW f \in Fun PROVE VisitsOf(f) = 1
  <2>1. CASE f \in static
    <3>1. f \in doc /\ ~\E p \in properties : f \in {p.getter, p.setter}
      BY <1>1, <2>1 DEF ClassInv, ListInv, PropertyInv, IsAccessor, Overloads
    <3> QED
      BY <2>1, <3>1 DEF VisitsOf, One
  <2>2. CASE f \in functions
    <3>1. f \in doc /\ ~\E p \in properties : f \in {p.getter, p.setter}
      BY <1>1, <2>2 DEF ClassInv, ListInv
    <3> QED
      BY <2>2, <3>1 DEF VisitsOf, One
  <2>3. ASSUME NEW p \in properties, f = p.getter PROVE VisitsOf(f) = 1
    <3>1. f \notin doc /\ p.doc /\ ~\E q \in properties : q.setter = f
      BY <1>1, <2>3, OneProperty DEF ClassInv, ListInv, PropertyInv
    <3> QED
      BY <2>3, <3>1 DEF VisitsOf, One
  <2>4. ASSUME NEW p \in properties, f = p.setter PROVE VisitsOf(f) = 1
    <3>1. f \notin functions /\ f \notin static
      BY <1>1, <2>4 DEF ClassInv, ListInv, PropertyInv, IsAccessor, Overloads
    <3>2. f \in doc /\ ~\E q \in properties : q.getter = f
      BY <1>1, <2>4, OneProperty DEF ClassInv, ListInv
    <3> QED
      BY <2>4, <3>1, <3>2 DEF VisitsOf, One
  <2> QED
    BY <1>1, <2>1, <2>2, <2>3, <2>4 DEF ClassInv, ListInv
<1>2. ClassInv => DescriptionsVisitedOnce
  BY <1>1 DEF ClassInv, ResultInv, DescriptionsVisitedOnce
<1> QED
  BY <1>2, ClassInvCorrect, PTL

\* The page shows every public function once, under the right heading.
THEOREM ShownOnce == Spec => []EveryFunctionShownOnce
<1>1. ASSUME ClassInv, pc = "done", NEW f \in Fun
      PROVE  /\ \E e \in page : e.fun = f
             /\ \A d, e \in page : d.fun = f /\ e.fun = f => d = e
             /\ [section |-> "properties", fun |-> f] \in page <=> IsTaken(f)
  <2>1. \A n \in Sections : [section |-> n, fun |-> f] \in page <=> Stands(n, f)
    BY <1>1 DEF ClassInv, ResultInv, ShownAtEnd, Entries
  <2>2. ~IsTaken(f) => f \in functions \cap doc \/ f \in static \cap doc
    BY <1>1 DEF ClassInv, ListInv, IsTaken
  <2>3. IsTaken(f) => f \notin functions /\ f \notin static
    BY <1>1 DEF ClassInv, ListInv, PropertyInv, IsAccessor, Overloads, IsTaken
  <2>4. f \in functions => f \notin static
    BY <1>1 DEF ClassInv, ListInv
  <2>5. \E n \in Sections : Stands(n, f)
    BY <2>2 DEF Stands, Sections, IsTaken
  <2>6. \E e \in page : e.fun = f
    <3>1. PICK n \in Sections : Stands(n, f)
      BY <2>5
    <3>2. [section |-> n, fun |-> f] \in page
      BY <2>1, <3>1
    <3> QED
      BY <3>2
  <2>7. ASSUME NEW m \in Sections, NEW n \in Sections, Stands(m, f), Stands(n, f) PROVE m = n
    BY <2>3, <2>4, <2>7 DEF Stands, IsTaken
  <2>8. ASSUME NEW d \in page, NEW e \in page, d.fun = f, e.fun = f PROVE d = e
    <3>1. d \in Entries /\ e \in Entries /\ Stands(d.section, f) /\ Stands(e.section, f)
      BY <1>1, <2>8 DEF ClassInv, ResultInv, ShownAtEnd
    <3>2. d.section = e.section
      BY <2>7, <3>1 DEF Entries
    <3> QED
      BY <2>8, <3>1, <3>2 DEF Entries
  <2>9. [section |-> "properties", fun |-> f] \in page <=> IsTaken(f)
    BY <2>1 DEF Stands, Sections, IsTaken
  <2> QED
    BY <2>6, <2>8, <2>9
<1>2. ASSUME ClassInv, pc = "done", NEW f \in Fun
      PROVE  IsTaken(f) <=>
               \E x \in Names : \E g, s \in Fun \ static :
                 /\ f \in {g, s}
                 /\ dir[g] = "get" /\ dir[s] = "set" /\ prop[g] = x /\ prop[s] = x
                 /\ \A h \in (Fun \ static) \ {f} :
                      dir[h] = dir[f] /\ prop[h] = x => h < f
  <2>1. ASSUME NEW p \in properties, f \in {p.getter, p.setter}
        PROVE  \E x \in Names : \E g, s \in Fun \ static :
                 /\ f \in {g, s}
                 /\ dir[g] = "get" /\ dir[s] = "set" /\ prop[g] = x /\ prop[s] = x
                 /\ \A h \in (Fun \ static) \ {f} :
                      dir[h] = dir[f] /\ prop[h] = x => h < f
    <3>1. IsAccessor(p.getter, "get", p.name) /\ IsAccessor(p.setter, "set", p.name)
      BY <1>2, <2>1 DEF ClassInv, PropertyInv
    <3>2. p.name \in Names /\ p.getter \in Fun \ static /\ p.setter \in Fun \ static
      BY <1>2, <2>1, <3>1 DEF ClassInv, TypeOK, IsAccessor, Overloads
    <3>3. /\ dir[p.getter] = "get" /\ dir[p.setter] = "set"
          /\ prop[p.getter] = p.name /\ prop[p.setter] = p.name
      BY <3>1 DEF IsAccessor, Overloads
    <3>4. \A h \in (Fun \ static) \ {f} : dir[h] = dir[f] /\ prop[h] = p.name => h < f
      BY <2>1, <3>1, <3>3, ClassAssumption DEF IsAccessor, Overloads, Fun
    <3> QED
      BY <2>1, <3>2, <3>3, <3>4
  <2>2. ASSUME NEW x \in Names, NEW g \in Fun \ static, NEW s \in Fun \ static,
               f \in {g, s},
               dir[g] = "get", dir[s] = "set", prop[g] = x, prop[s] = x,
               \A h \in (Fun \ static) \ {f} : dir[h] = dir[f] /\ prop[h] = x => h < f
        PROVE  IsTaken(f)
    <3>1. x \in Paired
      BY <2>2 DEF Paired, Overloads
    <3>2. PICK p \in properties : p.name = x
      BY <1>2, <3>1 DEF ClassInv, PairInv
    <3>3. IsAccessor(f, dir[f], x)
      BY <2>2, ClassAssumption DEF IsAccessor, Overloads, Fun
    <3>4. IsAccessor(p.getter, "get", x) /\ IsAccessor(p.setter, "set", x)
      BY <1>2, <3>2 DEF ClassInv, PropertyInv
    <3>5. p.getter \in Fun /\ p.setter \in Fun
      BY <3>4 DEF IsAccessor, Overloads
    <3>6. f = p.getter \/ f = p.setter
      BY <1>2, <2>2, <3>3, <3>4, <3>5, AccessorDistinct DEF ClassInv
    <3> QED
      BY <3>6 DEF IsTaken
  <2> QED
    BY <2>1, <2>2 DEF IsTaken
<1>3. ClassInv => EveryFunctionShownOnce
  BY <1>1, <1>2 DEF EveryFunctionShownOnce
<1> QED
  BY <1>3, ClassInvCorrect, PTL

\* PropertyTransformer makes properties of the last overloads of accessors, and
\* takes nothing else from the functions.
THEOREM PropertiesAreAccessors == Spec => []AccessorsBecomeProperties
<1>1. FunctionsPartitioned /\ LastOverloadWins => AccessorsBecomeProperties
  BY DEF AccessorsBecomeProperties
<1> QED
  BY <1>1, Partitioned, LastWins, PTL
-----------------------------------------------------------------------------
(* FunctionPage: what is said of the parameters of functions.              *)

Place       == (Nat \X Nat) \X Nat
RowSections == Tags \cup {"function", "description", "Preconditions", "Postconditions"}
FunctionRow == [section : RowSections, at : Nat, item : Place \cup {NoItem}]

\* A row shows a parameter what describes it, and no other row has an item.
RowInv(r) ==
  /\ r.section \in Tags =>
       /\ r.at \in DOMAIN Parameters(r.section)
       /\ r.item # NoItem /\ r.item = DescriptionOf(r.section, r.at)
  /\ r.section \notin Tags => r.item = NoItem

\* Each parameter of that sort that is described has its row.
AllShown(tag) ==
  \A at \in DOMAIN Parameters(tag) :
    DescriptionOf(tag, at) # NoItem =>
      /\ Item(DescriptionOf(tag, at)).text
      /\ \E j \in DOMAIN rows : rows[j] = Row(tag, at, DescriptionOf(tag, at))

Built == [tag \in Tags |-> [at \in DOMAIN Parameters(tag) |-> DescriptionOf(tag, at)]]

Parts == {"xml", "heading", "tparam", "param", "conditions", "done", "failed"}

FunctionInv ==
  /\ func \in Functions /\ part \in Parts
  /\ rows \in Seq(FunctionRow)
  /\ part = "xml" => described = [tag \in Tags |-> <<>>]
  /\ part # "xml" => described = Built
  /\ part \in {"xml", "heading"} => rows = <<>>
  /\ \A j \in DOMAIN rows : RowInv(rows[j])
  /\ part \in {"param", "conditions", "done"} => AllShown("tparam")
  /\ part \in {"conditions", "done"} => AllShown("param")
  /\ part = "failed" =>
       \E tag \in Tags : \E at \in DOMAIN Parameters(tag) :
         DescriptionOf(tag, at) # NoItem /\ ~Item(DescriptionOf(tag, at)).text

\* The places of lists and items are pairs of numbers.
LEMMA PlacesAreNumbers ==
  ASSUME func \in Functions
  PROVE  /\ \A a \in ListPlaces : /\ a \in Nat \X Nat /\ a = <<a[1], a[2]>>
                                  /\ ListAt(a) \in ParamLists
         /\ \A b \in ItemPlaces : /\ b \in Place /\ b # NoItem /\ b = <<b[1], b[2]>>
                                  /\ b[1] \in ListPlaces /\ b[2] \in Nat \ {0}
                                  /\ b[2] \in DOMAIN ListAt(b[1]).items /\ Item(b) \in Items
         /\ \A tag \in Tags : Parameters(tag) \in Seq(Parameter)
<1>1. func.paras \in Seq(Paragraphs)
      /\ func.params \in Seq(Parameter) /\ func.tparams \in Seq(Parameter)
  BY FunctionAssumption
<1>2. ASSUME NEW a \in ListPlaces
      PROVE  a \in Nat \X Nat /\ a = <<a[1], a[2]>> /\ ListAt(a) \in ParamLists
  <2>1. PICK p \in DOMAIN func.paras : a \in {p} \X DOMAIN func.paras[p].lists
    BY DEF ListPlaces
  <2>2. p \in Nat /\ func.paras[p].lists \in Seq(ParamLists)
    <3>1. p \in Nat /\ func.paras[p] \in Paragraphs
      BY <1>1
    <3> QED
      BY <3>1 DEF Paragraphs
  <2>3. a[1] = p /\ a[2] \in DOMAIN func.paras[p].lists /\ a = <<a[1], a[2]>>
    BY <2>1
  <2>4. a[2] \in Nat /\ func.paras[p].lists[a[2]] \in ParamLists
    BY <2>2, <2>3
  <2> QED
    BY <2>2, <2>3, <2>4 DEF ListAt
<1>3. ASSUME NEW b \in ItemPlaces
      PROVE  /\ b \in Place /\ b # NoItem /\ b = <<b[1], b[2]>>
             /\ b[1] \in ListPlaces /\ b[2] \in Nat \ {0}
             /\ b[2] \in DOMAIN ListAt(b[1]).items /\ Item(b) \in Items
  <2>1. PICK a \in ListPlaces : b \in {a} \X DOMAIN ListAt(a).items
    BY DEF ItemPlaces
  <2>2. ListAt(a).items \in Seq(Items) /\ a \in Nat \X Nat
    BY <1>2 DEF ParamLists
  <2>3. b[1] = a /\ b[2] \in DOMAIN ListAt(a).items /\ b = <<b[1], b[2]>>
    BY <2>1
  <2>4. b[2] \in Nat \ {0} /\ Item(b) \in Items
    BY <2>2, <2>3 DEF Item
  <2>5. b \in Place
    BY <2>2, <2>3, <2>4 DEF Place
  <2> QED
    BY <2>3, <2>4, <2>5, FunctionAssumption DEF Place
<1>4. \A tag \in Tags : Parameters(tag) \in Seq(Parameter)
  BY <1>1 DEF Parameters
<1> QED
  BY <1>2, <1>3, <1>4

\* One item at most describes a parameter.
LEMMA OneDescribes ==
  ASSUME func \in Functions, NEW tag \in Tags, NEW at \in DOMAIN Parameters(tag),
         NEW b, NEW c, Describes(b, tag, at), Describes(c, tag, at)
  PROVE  b = c
<1>1. b \in ItemPlaces /\ c \in ItemPlaces
      /\ IsParameterList(b[1], KindOf(tag)) /\ IsParameterList(c[1], KindOf(tag))
  BY DEF Describes
<1>2. NotAfter(b[1], c[1]) /\ NotAfter(c[1], b[1])
  BY <1>1 DEF IsParameterList
<1>3. /\ b[1] \in Nat \X Nat /\ b[1] = <<b[1][1], b[1][2]>>
      /\ c[1] \in Nat \X Nat /\ c[1] = <<c[1][1], c[1][2]>>
  BY <1>1, PlacesAreNumbers
<1>4. b[1][1] = c[1][1] /\ b[1][2] = c[1][2]
  BY <1>2, <1>3 DEF NotAfter
<1>5. b[1] = c[1]
  BY <1>3, <1>4
<1>6. b[2] \in Nat \ {0} /\ c[2] \in Nat \ {0} /\ b = <<b[1], b[2]>> /\ c = <<c[1], c[2]>>
  BY <1>1, PlacesAreNumbers
<1>7. c[2] \notin 1..b[2]-1 /\ b[2] \notin 1..c[2]-1
  BY <1>5 DEF Describes
<1>8. b[2] = c[2]
  BY <1>6, <1>7
<1> QED
  BY <1>5, <1>6, <1>8

LEMMA DescriptionIsFound ==
  ASSUME func \in Functions, NEW tag \in Tags, NEW at \in DOMAIN Parameters(tag)
  PROVE  /\ DescriptionOf(tag, at) # NoItem =>
              /\ DescriptionOf(tag, at) \in ItemPlaces
              /\ Describes(DescriptionOf(tag, at), tag, at)
         /\ \A b \in ItemPlaces : Describes(b, tag, at) => DescriptionOf(tag, at) = b
<1>1. ASSUME \E b \in ItemPlaces : Describes(b, tag, at)
      PROVE  DescriptionOf(tag, at) \in ItemPlaces /\ Describes(DescriptionOf(tag, at), tag, at)
  BY <1>1 DEF DescriptionOf
<1>2. DescriptionOf(tag, at) # NoItem => \E b \in ItemPlaces : Describes(b, tag, at)
  BY DEF DescriptionOf
<1>3. ASSUME NEW b \in ItemPlaces, Describes(b, tag, at) PROVE DescriptionOf(tag, at) = b
  BY <1>1, <1>3, OneDescribes
<1> QED
  BY <1>1, <1>2, <1>3

\* What describes a parameter is said of it.
LEMMA DescribesIsSaid ==
  ASSUME func \in Functions, NEW tag \in Tags, NEW at \in DOMAIN Parameters(tag),
         NEW b, Describes(b, tag, at)
  PROVE  IsSaidOf(b, tag, at)
<1>1. b \in ItemPlaces /\ ListAt(b[1]).kind = KindOf(tag) /\ Head(Item(b).names) = Parameters(tag)[at]
  BY DEF Describes, IsParameterList, Item
<1>2. Item(b).names \in Seq(ParamNames) /\ Item(b).names # <<>>
  BY <1>1, PlacesAreNumbers DEF Items
<1>3. 1 \in DOMAIN Item(b).names /\ Head(Item(b).names) = Item(b).names[1]
  BY <1>2
<1> QED
  BY <1>1, <1>3 DEF IsSaidOf

\* add_params writes a row for each parameter that is described.
LEMMA RowsAreDescribed ==
  ASSUME FunctionInv, part # "xml", NEW tag \in Tags
  PROVE  /\ Rows(tag) \in Seq(FunctionRow)
         /\ \A j \in DOMAIN Rows(tag) :
              \E at \in DOMAIN Parameters(tag) :
                 /\ DescriptionOf(tag, at) # NoItem
                 /\ Rows(tag)[j] = Row(tag, at, DescriptionOf(tag, at))
         /\ \A at \in DOMAIN Parameters(tag) : DescriptionOf(tag, at) # NoItem =>
              \E j \in DOMAIN Rows(tag) : Rows(tag)[j] = Row(tag, at, DescriptionOf(tag, at))
<1> DEFINE all == {at \in DOMAIN Parameters(tag) : described[tag][at] # NoItem}
           places == InOrder(all)
<1>1. Parameters(tag) \in Seq(Parameter)
  BY PlacesAreNumbers DEF FunctionInv
<1>2. \A at \in DOMAIN Parameters(tag) : described[tag][at] = DescriptionOf(tag, at)
  BY DEF FunctionInv, Built
<1>3. all \subseteq 1..Len(Parameters(tag)) /\ all \in SUBSET Nat /\ Len(Parameters(tag)) \in Nat
  BY <1>1
<1>4. IsFiniteSet(all)
  <2>1. IsFiniteSet(1..Len(Parameters(tag)))
    BY <1>3, FS_Interval
  <2> QED
    BY <1>3, <2>1, FS_Subset
<1>5. \A at \in all : at \in DOMAIN Parameters(tag) /\ at \in Nat /\ DescriptionOf(tag, at) # NoItem
  BY <1>2, <1>3
<1>6. \A at \in DOMAIN Parameters(tag) : DescriptionOf(tag, at) # NoItem => at \in all
  BY <1>2
<1>7. Rows(tag) = [j \in DOMAIN places |-> Row(tag, places[j], described[tag][places[j]])]
  BY DEF Rows
<1> HIDE DEF all
<1>8. Enumerates(places, all) /\ Cardinality(all) \in Nat
  BY <1>3, <1>4, InOrderLists, FS_CardinalityType
<1> HIDE DEF places
<1>9. places \in [1..Cardinality(all) -> all] /\ {places[j] : j \in DOMAIN places} = all
  BY <1>8 DEF Enumerates
<1>10. DOMAIN Rows(tag) = 1..Cardinality(all)
  BY <1>7, <1>9
<1>11. ASSUME NEW j \in DOMAIN Rows(tag)
       PROVE  /\ places[j] \in all
              /\ Rows(tag)[j] = Row(tag, places[j], DescriptionOf(tag, places[j]))
  <2>1. j \in DOMAIN places /\ places[j] \in all
    BY <1>9, <1>10
  <2> QED
    BY <1>2, <1>5, <1>7, <2>1
<1>12. \A j \in DOMAIN Rows(tag) : Rows(tag)[j] \in FunctionRow
  <2>1. \A at \in all : Row(tag, at, DescriptionOf(tag, at)) \in FunctionRow
    <3> SUFFICES ASSUME NEW at \in all PROVE Row(tag, at, DescriptionOf(tag, at)) \in FunctionRow
      OBVIOUS
    <3>1. DescriptionOf(tag, at) \in Place /\ at \in Nat /\ tag \in RowSections
      <4>1. tag \in RowSections
        BY DEF RowSections
      <4>2. func \in Functions /\ at \in DOMAIN Parameters(tag) /\ at \in Nat
            /\ DescriptionOf(tag, at) # NoItem
        BY <1>5 DEF FunctionInv
      <4>3. DescriptionOf(tag, at) \in ItemPlaces
        BY <4>2, DescriptionIsFound
      <4> QED
        BY <4>1, <4>2, <4>3, PlacesAreNumbers
    <3> QED
      BY <3>1 DEF Row, FunctionRow
  <2> QED
    BY <1>11, <2>1
<1>13. Rows(tag) \in Seq(FunctionRow)
  <2>1. Rows(tag) \in [1..Cardinality(all) -> FunctionRow]
    BY <1>7, <1>9, <1>10, <1>12
  <2> QED
    BY <1>8, <2>1
<1>14. \A j \in DOMAIN Rows(tag) :
         \E at \in DOMAIN Parameters(tag) :
            /\ DescriptionOf(tag, at) # NoItem
            /\ Rows(tag)[j] = Row(tag, at, DescriptionOf(tag, at))
  BY <1>5, <1>11
<1>15. ASSUME NEW at \in DOMAIN Parameters(tag), DescriptionOf(tag, at) # NoItem
       PROVE  \E j \in DOMAIN Rows(tag) : Rows(tag)[j] = Row(tag, at, DescriptionOf(tag, at))
  <2>1. at \in all
    BY <1>6, <1>15
  <2>2. PICK j \in DOMAIN places : places[j] = at
    BY <1>9, <2>1
  <2>3. j \in DOMAIN Rows(tag)
    BY <1>9, <1>10
  <2> QED
    BY <1>11, <2>2, <2>3
<1> QED
  BY <1>13, <1>14, <1>15
\* All that is said of a function stays with it.
LEMMA SaidStays ==
  ASSUME UNCHANGED func
  PROVE  /\ \A tag : UNCHANGED Parameters(tag)
         /\ \A tag, at : UNCHANGED DescriptionOf(tag, at)
         /\ \A b : UNCHANGED Item(b)
         /\ UNCHANGED Built
<1>1. UNCHANGED ListPlaces /\ \A a : UNCHANGED ListAt(a)
  BY DEF ListPlaces, ListAt
<1>2. UNCHANGED ItemPlaces /\ \A b : UNCHANGED Item(b)
  BY <1>1 DEF ItemPlaces, Item
<1>3. \A tag : UNCHANGED Parameters(tag)
  BY DEF Parameters
<1>4. ASSUME NEW tag, NEW at PROVE UNCHANGED DescriptionOf(tag, at)
  <2> DEFINE found == {b \in ItemPlaces : Describes(b, tag, at)}
  <2>1. \A b : IsParameterList(b[1], KindOf(tag))' <=> IsParameterList(b[1], KindOf(tag))
    BY <1>1 DEF IsParameterList, NotAfter, KindOf
  <2>2. \A b : Describes(b, tag, at)' <=> Describes(b, tag, at)
    BY <1>1, <1>2, <1>3, <2>1 DEF Describes
  <2>3. UNCHANGED found
    BY <1>2, <2>2
  <2>4. DescriptionOf(tag, at) = IF found = {} THEN NoItem ELSE CHOOSE b \in found : TRUE
    BY DEF DescriptionOf
  <2>5. DescriptionOf(tag, at)' = IF found' = {} THEN NoItem ELSE CHOOSE b \in found' : TRUE
    BY DEF DescriptionOf
  <2> HIDE DEF found
  <2> QED
    BY <2>3, <2>4, <2>5
<1>5. UNCHANGED Built
  BY <1>3, <1>4 DEF Built
<1> QED
  BY <1>2, <1>3, <1>4, <1>5

LEMMA FunctionInvInit == FunctionInit => FunctionInv
  BY DEF FunctionInit, FunctionInv, Parts

\* Rows are only ever added.
LEMMA RowsAdded ==
  ASSUME FunctionInv, UNCHANGED func, NEW new \in Seq(FunctionRow), rows' = rows \o new,
         \A j \in DOMAIN new : RowInv(new[j])
  PROVE  /\ rows' \in Seq(FunctionRow)
         /\ (\A j \in DOMAIN rows : RowInv(rows[j]))'
         /\ \A tag \in Tags : AllShown(tag) => AllShown(tag)'
         /\ \A j \in DOMAIN new : Len(rows) + j \in DOMAIN rows' /\ rows'[Len(rows) + j] = new[j]
<1> USE DEF FunctionInv
<1>1. rows \in Seq(FunctionRow) /\ Len(rows) \in Nat /\ Len(new) \in Nat
  OBVIOUS
<1>2. rows' \in Seq(FunctionRow) /\ DOMAIN rows' = 1..Len(rows) + Len(new)
  BY <1>1
<1>3. \A j \in 1..Len(rows) : j \in DOMAIN rows' /\ rows'[j] = rows[j]
  BY <1>1
<1>4. \A j \in DOMAIN new : Len(rows) + j \in DOMAIN rows' /\ rows'[Len(rows) + j] = new[j]
  BY <1>1
<1>5. /\ \A tag : UNCHANGED Parameters(tag)
      /\ \A tag, at : UNCHANGED DescriptionOf(tag, at)
      /\ \A b : UNCHANGED Item(b)
  BY SaidStays
<1>6. \A r : RowInv(r) => RowInv(r)'
  BY <1>5 DEF RowInv
<1>7. ASSUME NEW j \in DOMAIN rows' PROVE RowInv(rows[j])'
  <2>1. CASE j \in 1..Len(rows)
    BY <1>1, <1>3, <1>6, <2>1
  <2>2. CASE j > Len(rows)
    <3>1. j - Len(rows) \in DOMAIN new
      BY <1>1, <1>2, <2>2
    <3>2. rows'[j] = new[j - Len(rows)]
      BY <1>1, <1>4, <3>1
    <3> QED
      BY <1>6, <3>1, <3>2
  <2> QED
    BY <1>1, <1>2, <2>1, <2>2
<1>8. ASSUME NEW tag \in Tags, AllShown(tag) PROVE AllShown(tag)'
  <2>1. \A j \in DOMAIN rows : j \in DOMAIN rows' /\ rows'[j] = rows[j]
    BY <1>1, <1>3
  <2>2. \A at, d : UNCHANGED Row(tag, at, d)
    BY DEF Row
  <2> QED
    BY <1>5, <1>8, <2>1, <2>2 DEF AllShown
<1> QED
  BY <1>2, <1>4, <1>7, <1>8

LEMMA AddParamsKeeps ==
  ASSUME FunctionInv, NEW tag \in Tags, AddParams(tag)
  PROVE  FunctionInv'
<1> USE DEF FunctionInv, Parts
<1>1. /\ part = tag /\ part' = IF tag = "tparam" THEN "param" ELSE "conditions"
      /\ \A j \in DOMAIN Rows(tag) : Item(Rows(tag)[j].item).text
      /\ rows' = rows \o Rows(tag) /\ UNCHANGED <<func, described>>
  BY DEF AddParams
<1>2. part # "xml" /\ part' # "xml" /\ part' \in {"param", "conditions"}
  BY <1>1 DEF Tags
<1>3. Rows(tag) \in Seq(FunctionRow)
  BY <1>2, RowsAreDescribed
<1>4. ASSUME NEW j \in DOMAIN Rows(tag) PROVE RowInv(Rows(tag)[j])
  <2>1. PICK at \in DOMAIN Parameters(tag) :
          DescriptionOf(tag, at) # NoItem /\ Rows(tag)[j] = Row(tag, at, DescriptionOf(tag, at))
    BY <1>2, RowsAreDescribed
  <2> QED
    BY <2>1 DEF RowInv, Row
<1>5. /\ rows' \in Seq(FunctionRow)
      /\ (\A j \in DOMAIN rows : RowInv(rows[j]))'
      /\ \A t \in Tags : AllShown(t) => AllShown(t)'
      /\ \A j \in DOMAIN Rows(tag) :
           Len(rows) + j \in DOMAIN rows' /\ rows'[Len(rows) + j] = Rows(tag)[j]
  BY <1>1, <1>3, <1>4, RowsAdded
<1>6. /\ \A at : UNCHANGED DescriptionOf(tag, at)
      /\ \A b : UNCHANGED Item(b)
      /\ UNCHANGED Parameters(tag) /\ UNCHANGED Built
  BY <1>1, SaidStays
<1>7. AllShown(tag)'
  <2> SUFFICES ASSUME NEW at \in DOMAIN Parameters(tag), DescriptionOf(tag, at) # NoItem
               PROVE  /\ Item(DescriptionOf(tag, at)).text
                      /\ \E j \in DOMAIN rows' : rows'[j] = Row(tag, at, DescriptionOf(tag, at))
    BY <1>6 DEF AllShown, Row
  <2>1. PICK j \in DOMAIN Rows(tag) : Rows(tag)[j] = Row(tag, at, DescriptionOf(tag, at))
    BY <1>2, RowsAreDescribed
  <2>2. Item(DescriptionOf(tag, at)).text
    BY <1>1, <2>1 DEF Row
  <2> QED
    BY <1>5, <2>1, <2>2
<1>8. part' = "conditions" => AllShown("tparam")'
  BY <1>1, <1>5, <1>7 DEF Tags
<1>9. described' = Built'
  BY <1>1, <1>2, <1>6
<1>10. part' = "conditions" => AllShown("param")'
  BY <1>1, <1>7 DEF Tags
<1>11. part' = "param" => AllShown("tparam")'
  BY <1>1, <1>7 DEF Tags
<1> QED
  BY <1>1, <1>2, <1>5, <1>8, <1>9, <1>10, <1>11

LEMMA FunctionInvNext == FunctionInv /\ [FunctionNext]_functionVars => FunctionInv'
<1> SUFFICES ASSUME FunctionInv, [FunctionNext]_functionVars PROVE FunctionInv'
  OBVIOUS
<1> USE DEF Parts
<1>1. CASE BuildParameters
  <2>1. described' = Built' /\ UNCHANGED <<func, rows>> /\ rows = <<>> /\ part' = "heading"
    BY <1>1, SaidStays DEF BuildParameters, Built, FunctionInv
  <2> QED
    BY <2>1 DEF FunctionInv
<1>2. ASSUME NEW new, new \in Seq(FunctionRow), rows' = rows \o new,
             \A j \in DOMAIN new : new[j].section \notin Tags /\ new[j].item = NoItem,
             UNCHANGED <<func, described>>, part # "xml", part' \in {"tparam", "done"},
             part' = "done" => part = "conditions"
      PROVE  FunctionInv'
  <2>1. \A j \in DOMAIN new : RowInv(new[j])
    BY <1>2 DEF RowInv
  <2>2. /\ rows' \in Seq(FunctionRow)
        /\ (\A j \in DOMAIN rows : RowInv(rows[j]))'
        /\ \A tag \in Tags : AllShown(tag) => AllShown(tag)'
    BY <1>2, <2>1, RowsAdded
  <2>3. UNCHANGED Built
    BY <1>2, SaidStays
  <2>4. part' = "done" => AllShown("tparam")' /\ AllShown("param")'
    BY <1>2, <2>2 DEF FunctionInv, Tags
  <2> QED
    BY <1>2, <2>2, <2>3, <2>4 DEF FunctionInv
<1>3. CASE Heading
  <2> DEFINE new == <<Row("function", 0, NoItem)>> \o
                    (IF HasText THEN <<Row("description", 0, NoItem)>> ELSE <<>>)
  <2>1. Row("function", 0, NoItem) \in FunctionRow /\ Row("description", 0, NoItem) \in FunctionRow
    BY DEF Row, FunctionRow, RowSections
  <2>2. new \in Seq(FunctionRow)
        /\ \A j \in DOMAIN new : new[j] \in {Row("function", 0, NoItem), Row("description", 0, NoItem)}
    BY <2>1
  <2>3. \A j \in DOMAIN new : new[j].section \notin Tags /\ new[j].item = NoItem
    BY <2>2 DEF Row, Tags
  <2>4. rows' = rows \o new /\ part = "heading" /\ part' = "tparam" /\ UNCHANGED <<func, described>>
    <3>1. rows = <<>> /\ rows' = new /\ part = "heading" /\ part' = "tparam"
          /\ UNCHANGED <<func, described>>
      BY <1>3 DEF Heading, FunctionInv
    <3> HIDE DEF new
    <3> QED
      BY <2>2, <3>1
  <2> HIDE DEF new
  <2> QED
    BY <1>2, <2>2, <2>3, <2>4
<1>4. ASSUME NEW tag \in Tags, AddParams(tag) PROVE FunctionInv'
  BY <1>4, AddParamsKeeps
<1>5. ASSUME NEW tag \in Tags, AssertionFails(tag) PROVE FunctionInv'
  <2>1. part = tag /\ part # "xml" /\ part' = "failed" /\ UNCHANGED <<func, described, rows>>
    BY <1>5 DEF AssertionFails, Tags
  <2>2. PICK j \in DOMAIN Rows(tag) : ~Item(Rows(tag)[j].item).text
    BY <1>5 DEF AssertionFails
  <2>3. PICK at \in DOMAIN Parameters(tag) :
          DescriptionOf(tag, at) # NoItem /\ Rows(tag)[j] = Row(tag, at, DescriptionOf(tag, at))
    BY <2>1, RowsAreDescribed
  <2>4. ~Item(DescriptionOf(tag, at)).text
    BY <2>2, <2>3 DEF Row
  <2>5. /\ \A b : UNCHANGED Item(b)
        /\ \A t, i : UNCHANGED DescriptionOf(t, i)
        /\ \A t : UNCHANGED Parameters(t)
        /\ UNCHANGED Built
    BY <2>1, SaidStays
  <2>6. \A r : RowInv(r) => RowInv(r)'
    BY <2>5 DEF RowInv
  <2>7. \E t \in Tags : \E i \in DOMAIN Parameters(t)' :
          DescriptionOf(t, i)' # NoItem /\ ~(Item(DescriptionOf(t, i)).text)'
    BY <2>3, <2>4, <2>5
  <2> QED
    BY <2>1, <2>5, <2>6, <2>7 DEF FunctionInv
<1>6. CASE AddConditions
  <2>1. ASSUME NEW section \in {"Preconditions", "Postconditions"}, NEW n \in Nat
        PROVE  /\ Conditions(section, n) \in Seq(FunctionRow)
               /\ \A j \in DOMAIN Conditions(section, n) :
                    /\ Conditions(section, n)[j].section \notin Tags
                    /\ Conditions(section, n)[j].item = NoItem
    <3>1. CASE n = 0
      BY <3>1 DEF Conditions
    <3>2. CASE n # 0
      <4>1. Conditions(section, n) = [j \in 1..n+1 |-> Row(section, j - 1, NoItem)]
        BY <3>2 DEF Conditions
      <4>2. \A j \in 1..n+1 : Row(section, j - 1, NoItem) \in FunctionRow
        BY DEF Row, FunctionRow, RowSections
      <4>3. \A j \in 1..n+1 : Row(section, j - 1, NoItem).section \notin Tags
                              /\ Row(section, j - 1, NoItem).item = NoItem
        BY DEF Row, Tags
      <4> QED
        BY <4>1, <4>2, <4>3
    <3> QED
      BY <3>1, <3>2
  <2>2. func.pre \in Nat /\ func.post \in Nat
    BY FunctionAssumption DEF FunctionInv
  <2> DEFINE a == Conditions("Preconditions", func.pre)
             b == Conditions("Postconditions", func.post)
             new == a \o b
  <2>3. /\ a \in Seq(FunctionRow) /\ b \in Seq(FunctionRow)
        /\ \A j \in DOMAIN a : a[j].section \notin Tags /\ a[j].item = NoItem
        /\ \A j \in DOMAIN b : b[j].section \notin Tags /\ b[j].item = NoItem
    BY <2>1, <2>2
  <2> HIDE DEF a, b
  <2>4. new \in Seq(FunctionRow)
    BY <2>3
  <2>5. ASSUME NEW j \in DOMAIN new PROVE new[j].section \notin Tags /\ new[j].item = NoItem
    <3>1. Len(a) \in Nat /\ Len(b) \in Nat /\ DOMAIN new = 1..Len(a) + Len(b)
      BY <2>3
    <3>2. CASE j \in 1..Len(a)
      BY <2>3, <3>2
    <3>3. CASE j > Len(a)
      <4>1. j - Len(a) \in DOMAIN b /\ new[j] = b[j - Len(a)]
        BY <2>3, <3>1, <3>3
      <4> QED
        BY <2>3, <4>1
    <3> QED
      BY <3>1, <3>2, <3>3
  <2>6. rows' = rows \o new /\ part = "conditions" /\ part' = "done" /\ UNCHANGED <<func, described>>
    <3>1. rows' = (rows \o a) \o b /\ part = "conditions" /\ part' = "done"
          /\ UNCHANGED <<func, described>>
      BY <1>6 DEF AddConditions, a, b
    <3>2. (rows \o a) \o b = rows \o (a \o b)
      BY <2>3 DEF FunctionInv
    <3> QED
      BY <3>1, <3>2
  <2> HIDE DEF new
  <2> QED
    BY <1>2, <2>4, <2>5, <2>6
<1>7. CASE UNCHANGED functionVars
  <2>1. UNCHANGED functionVars
    BY <1>7
  <2> QED
    BY <2>1, SaidStays DEF functionVars, FunctionInv, RowInv, AllShown
<1> QED
  BY <1>1, <1>3, <1>4, <1>5, <1>6, <1>7 DEF FunctionNext

LEMMA FunctionInvCorrect == FunctionSpec => []FunctionInv
  BY FunctionInvInit, FunctionInvNext, PTL DEF FunctionSpec

\* Only what describes a parameter is kept for it, and shown.
THEOREM FunctionTypeCorrect == FunctionSpec => []FunctionTypeOK
<1>1. ASSUME FunctionInv PROVE FunctionTypeOK
  <2>1. \A tag \in Tags : \A at \in DOMAIN described[tag] :
          described[tag][at] \in ItemPlaces \cup {NoItem}
    <3>1. CASE part = "xml"
      BY <1>1, <3>1 DEF FunctionInv
    <3>2. CASE part # "xml"
      <4>1. ASSUME NEW tag \in Tags
            PROVE  \A at \in DOMAIN described[tag] : /\ at \in DOMAIN Parameters(tag)
                                                     /\ described[tag][at] = DescriptionOf(tag, at)
        BY <1>1, <3>2 DEF FunctionInv, Built
      <4> QED
        BY <1>1, <4>1, DescriptionIsFound DEF FunctionInv
    <3> QED
      BY <3>1, <3>2
  <2>2. \A j \in DOMAIN rows :
          /\ rows[j].section \in Tags => rows[j].item \in ItemPlaces
          /\ rows[j].section \notin Tags => rows[j].item = NoItem
    BY <1>1, DescriptionIsFound DEF FunctionInv, RowInv
  <2> QED
    BY <1>1, <2>1, <2>2 DEF FunctionInv, Parts, FunctionTypeOK
<1> QED
  BY <1>1, FunctionInvCorrect, PTL

\* An item said of a parameter in the first place describes it.
LEMMA SaidFirstDescribes ==
  ASSUME func \in Functions, NEW tag \in Tags, NEW at \in DOMAIN Parameters(tag),
         NEW b \in ItemPlaces, IsSaidOf(b, tag, at),
         Head(Item(b).names) = Parameters(tag)[at],
         ~\E a \in ListPlaces \ {b[1]} : ListAt(a).kind = KindOf(tag) /\ NotAfter(a, b[1]),
         ~\E i \in 1..b[2]-1 : Head(ListAt(b[1]).items[i].names) = Head(Item(b).names)
  PROVE  Describes(b, tag, at)
<1>1. b[1] \in ListPlaces /\ ListAt(b[1]).kind = KindOf(tag)
  BY PlacesAreNumbers DEF IsSaidOf
<1>2. ASSUME NEW a \in ListPlaces, ListAt(a).kind = KindOf(tag) PROVE NotAfter(b[1], a)
  <2>1. /\ a[1] \in Nat /\ a[2] \in Nat /\ b[1][1] \in Nat /\ b[1][2] \in Nat
    BY <1>1, PlacesAreNumbers
  <2>2. a = b[1] \/ ~NotAfter(a, b[1])
    BY <1>2
  <2> QED
    BY <2>1, <2>2 DEF NotAfter
<1>3. IsParameterList(b[1], KindOf(tag))
  BY <1>1, <1>2 DEF IsParameterList
<1> QED
  BY <1>3 DEF Describes, Item

\* A page shows what is said of a parameter where it is looked for, and nothing
\* that was said of another.
THEOREM WhatIsSaid == FunctionSpec => []WhatIsSaidIsShown
<1>1. ASSUME FunctionInv PROVE WhatIsSaidIsShown
  <2>1. func \in Functions
    BY <1>1 DEF FunctionInv
  <2>2. RowsMatchTheirParameters
    <3> SUFFICES ASSUME NEW j \in DOMAIN rows, rows[j].section \in Tags
                 PROVE  IsSaidOf(rows[j].item, rows[j].section, rows[j].at)
      BY DEF RowsMatchTheirParameters
    <3>1. /\ rows[j].at \in DOMAIN Parameters(rows[j].section)
          /\ rows[j].item # NoItem /\ rows[j].item = DescriptionOf(rows[j].section, rows[j].at)
      BY <1>1 DEF FunctionInv, RowInv
    <3>2. Describes(rows[j].item, rows[j].section, rows[j].at)
      BY <2>1, <3>1, DescriptionIsFound
    <3> QED
      BY <2>1, <3>1, <3>2, DescribesIsSaid
  <2>3. ASSUME part = "done", NEW tag \in Tags, NEW b \in ItemPlaces,
               NEW at \in DOMAIN Parameters(tag), IsSaidOf(b, tag, at),
               Head(Item(b).names) = Parameters(tag)[at],
               ~\E a \in ListPlaces \ {b[1]} : ListAt(a).kind = KindOf(tag) /\ NotAfter(a, b[1]),
               ~\E i \in 1..b[2]-1 : Head(ListAt(b[1]).items[i].names) = Head(Item(b).names)
        PROVE  \E j \in DOMAIN rows : rows[j] = Row(tag, at, b) /\ Item(b).text
    <3>1. DescriptionOf(tag, at) = b
      BY <2>1, <2>3, SaidFirstDescribes, DescriptionIsFound
    <3>2. b # NoItem
      BY <2>1, PlacesAreNumbers
    <3>3. AllShown(tag)
      BY <1>1, <2>3 DEF FunctionInv, Tags
    <3> QED
      BY <3>1, <3>2, <3>3 DEF AllShown
  <2>4. ASSUME part = "failed"
        PROVE  \E tag \in Tags, b \in ItemPlaces : \E at \in DOMAIN Parameters(tag) :
                 IsSaidOf(b, tag, at) /\ ~Item(b).text
    <3>9. PICK tag \in Tags : \E at \in DOMAIN Parameters(tag) :
            DescriptionOf(tag, at) # NoItem /\ ~Item(DescriptionOf(tag, at)).text
      BY <1>1, <2>4 DEF FunctionInv
    <3>1. PICK at \in DOMAIN Parameters(tag) :
            DescriptionOf(tag, at) # NoItem /\ ~Item(DescriptionOf(tag, at)).text
      BY <3>9
    <3>2. DescriptionOf(tag, at) \in ItemPlaces /\ IsSaidOf(DescriptionOf(tag, at), tag, at)
      BY <2>1, <3>1, DescriptionIsFound, DescribesIsSaid
    <3> QED
      BY <3>1, <3>2
  <2> QED
    BY <2>2, <2>3, <2>4 DEF WhatIsSaidIsShown
<1> QED
  BY <1>1, FunctionInvCorrect, PTL

-----------------------------------------------------------------------------
(* The scopes of a document.                                               *)
(*                                                                         *)
(* What a directive writes is scoped: a name follows its namespace at      *)
(* once, members stand in the content of their class, and properties after *)
(* the functions, whose namespaces have by then taken the parameters off   *)
(* the class template.  The invariant says so of the lines still to be     *)
(* parsed, with the scope that the lines before them have left.            *)

LineType   == [level : 0..2, what : {"text", "namespace", "declare"}, of : Entities]
SymbolType == [of : Entities \cup {Global}, template : BOOLEAN]

\* What is shown of a class at level 1 are names of its members.
IsInner(l)     == l.what # "text" /\ l.level # 0
IsProperty(l)  == l.what = "declare" /\ Kind[l.of] = "property"
IsNamespace(l) == l.what = "namespace" /\ l.level = 1
NeedsScope(l)  == l.what = "declare" /\ Kind[l.of] # "property" /\ Parent[l.of] # Global

\* Line m declares what stands in the namespace that l opens.
Leads(l, m) == m.what = "declare" /\ m.level = l.level /\ Parent[m.of] = l.of

HasFunctions(c) == \E m \in ToSet(Members[c]) : Kind[m] = "function" /\ m \in Documented

\* The symbol the properties of a class are declared in.
OwnScope(c) == Symbol(c, ~HasFunctions(c))

\* What a directive shows at the left margin.
ShownOf(c) == IF Kind[c] = "namespace" THEN ToSet(Members[c]) ELSE {c}

\* A line that the directive of c writes.
LineFits(l, c) ==
  /\ l \in LineType
  /\ l.what = "declare" /\ l.level = 0 => l.of \in ShownOf(c) /\ Kind[l.of] # "property"
  /\ l.what = "namespace" /\ l.level = 0 => \E e \in ShownOf(c) : l.of = Parent[e]
  /\ IsInner(l) => l.level = 1 /\ Kind[c] = "class"
  /\ IsProperty(l) => Parent[l.of] = c
  /\ l.what = "declare" /\ Kind[l.of] = "function" => l.of \in Documented
  /\ IsNamespace(l) => l.of = c /\ HasFunctions(c)

\* Each namespace is followed by what stands in it, ...
Lead(s) == \A n \in 1..Len(s) : s[n].what = "namespace" => n < Len(s) /\ Leads(s[n], s[n + 1])

\* ... each name but the first line follows its namespace, ...
Led(s) == \A n \in 2..Len(s) : NeedsScope(s[n]) => s[n - 1].what = "namespace"

\* ... and no namespace follows a property.
PropertiesLast(s) ==
  \A n, k \in 1..Len(s) : IsProperty(s[n]) /\ s[k].what = "namespace" => k < n

Some(s) == \E n \in 1..Len(s) : IsInner(s[n])

SomeProperty(s)  == \E n \in 1..Len(s) : IsProperty(s[n])
SomeNamespace(s) == \E n \in 1..Len(s) : IsNamespace(s[n])

\* The class stands before its members.
Pending(s) ==
  \E m \in 1..Len(s) :
    /\ s[m].what = "declare" /\ s[m].level = 0
    /\ \A k \in 1..m-1 : ~IsInner(s[k])
    /\ \A k \in m+1..Len(s) : s[k].level # 0


Current == document[next - 1]

\* In which scope a line of level k will be.
Base(k) == IF Len(open) > k THEN open[k + 1].scope ELSE scope

ScopesTypes ==
  /\ document \in Documents /\ next \in 1..Len(document)+1
  /\ rst \in Seq(LineType) /\ scope \in SymbolType
  /\ open \in Seq([level : Nat, scope : SymbolType])
  /\ \A n \in 1..Len(open) : open[n].level = n - 1
  /\ next = 1 => rst = <<>> /\ open = <<>>

\* What is still to be parsed is the end of what a directive writes.
RstInv ==
  /\ \A n \in 1..Len(rst) : LineFits(rst[n], Current)
  /\ Lead(rst) /\ Led(rst) /\ PropertiesLast(rst)
  /\ rst # <<>> /\ NeedsScope(rst[1]) =>
       scope = Symbol(Parent[rst[1].of], FALSE) /\ Len(open) <= rst[1].level

\* Members stand in the content of their class, and properties in the scope
\* that the last function before them left.
MembersInv ==
  Some(rst) =>
    \/ /\ Pending(rst)
       /\ SomeProperty(rst) /\ HasFunctions(Current) => SomeNamespace(rst)
    \/ /\ open # <<>> /\ \A n \in 1..Len(rst) : rst[n].level # 0
       /\ SomeProperty(rst) => \/ Base(1) = OwnScope(Current)
                               \/ HasFunctions(Current) /\ SomeNamespace(rst)

MarginInv == Base(0).of \in {Global} \cup {Parent[e] : e \in Shown}

\* Where names have been declared.
DeclaredInv ==
  \A d \in declared :
    /\ d.entity \in Entities /\ d.in \in SymbolType
    /\ Kind[d.entity] = "property" =>
         /\ Parent[d.entity] \in Entities /\ Kind[Parent[d.entity]] = "class"
         /\ d.in = OwnScope(Parent[d.entity])
    /\ Kind[d.entity] # "property" /\ Parent[d.entity] # Global =>
         d.in = Symbol(Parent[d.entity], FALSE)
    /\ Kind[d.entity] = "function" => d.entity \in Documented

ScopesInv == ScopesTypes /\ RstInv /\ MembersInv /\ MarginInv /\ DeclaredInv
-----------------------------------------------------------------------------
\* The members of one kind.
LEMMA OfKindLists ==
  ASSUME NEW e \in Entities, NEW kind
  PROVE  /\ OfKind(e, kind) \in Seq(Entities)
         /\ ToSet(OfKind(e, kind)) = {m \in ToSet(Members[e]) : Kind[m] = kind}
<1> DEFINE s == Members[e]
           S == {n \in DOMAIN s : Kind[s[n]] = kind}
           at == InOrder(S)
           t == [j \in DOMAIN at |-> s[at[j]]]
<1>1. s \in Seq(Entities)
  BY ScopesAssumption
<1> HIDE DEF s
<1>2. Len(s) \in Nat /\ DOMAIN s = 1..Len(s) /\ \A n \in 1..Len(s) : s[n] \in Entities
  BY <1>1
<1>3. S \in SUBSET Nat /\ IsFiniteSet(S)
  <2>1. S \in SUBSET (1..Len(s)) /\ 1..Len(s) \in SUBSET Nat
    BY <1>2
  <2>2. IsFiniteSet(1..Len(s))
    BY <1>2, FS_Interval
  <2> HIDE DEF S
  <2> QED
    BY <2>1, <2>2, FS_Subset
<1>4. Cardinality(S) \in Nat
  BY <1>3, FS_CardinalityType
<1>5. Enumerates(at, S)
  BY <1>3, InOrderLists
<1> HIDE DEF at
<1>6. /\ at \in [1..Cardinality(S) -> S] /\ DOMAIN at = 1..Cardinality(S)
      /\ {at[j] : j \in DOMAIN at} = S
  <2> HIDE DEF S
  <2> QED
    BY <1>5 DEF Enumerates
<1>7. \A n \in S : n \in DOMAIN s /\ s[n] \in Entities
  BY <1>2
<1>8. t \in [1..Cardinality(S) -> Entities]
  <2> HIDE DEF S
  <2> QED
    BY <1>6, <1>7
<1>9. t \in Seq(Entities)
  <2> HIDE DEF S, t
  <2> QED
    BY <1>4, <1>8
<1>10. ToSet(t) = {s[n] : n \in S}
  <2>1. ToSet(t) = {s[at[j]] : j \in DOMAIN at}
    BY DEF ToSet
  <2> HIDE DEF S, t
  <2> QED
    BY <1>6, <2>1
<1>11. {s[n] : n \in S} = {m \in ToSet(s) : Kind[m] = kind}
  BY DEF ToSet
<1>12. OfKind(e, kind) = t
  BY DEF OfKind, Those, at, s
<1> HIDE DEF t, S
<1> QED
  BY <1>9, <1>10, <1>11, <1>12 DEF s

-----------------------------------------------------------------------------
(* What the directives write.                                              *)

\* A namespace and the name after it.
Pair(l, m) == <<l>> \o <<m>>

\* The two lines of a name that has a parent.
LEMMA TwoLines ==
  ASSUME NEW T, NEW l \in T, NEW m \in T
  PROVE  /\ Len(Pair(l, m)) = 2 /\ Pair(l, m)[1] = l /\ Pair(l, m)[2] = m
         /\ ToSet(Pair(l, m)) = {l, m} /\ Pair(l, m) \in Seq(T)
<1>1. PICK s \in Seq(T) : s = <<l>> /\ Len(s) = 1 /\ s[1] = l /\ ToSet(s) = {l}
  BY OneElement
<1>2. PICK t \in Seq(T) : t = <<m>> /\ Len(t) = 1 /\ t[1] = m /\ ToSet(t) = {m}
  BY OneElement
<1>3. /\ s \o t \in Seq(T) /\ Len(s \o t) = Len(s) + Len(t)
      /\ ToSet(s \o t) = ToSet(s) \cup ToSet(t)
      /\ \A n \in 1..Len(s) : (s \o t)[n] = s[n]
      /\ \A n \in 1..Len(t) : (s \o t)[Len(s) + n] = t[n]
  BY JoinedElements
<1>4. Pair(l, m) = s \o t
  BY <1>1, <1>2, Zenon DEF Pair
<1>5. PICK u : u = s \o t
  OBVIOUS
<1>6. /\ u \in Seq(T) /\ Len(u) = Len(s) + Len(t) /\ ToSet(u) = ToSet(s) \cup ToSet(t)
      /\ \A n \in 1..Len(s) : u[n] = s[n]
      /\ \A n \in 1..Len(t) : u[Len(s) + n] = t[n]
  BY <1>3, <1>5, Zenon
<1>7. Len(s) = 1 /\ Len(t) = 1 /\ s[1] = l /\ t[1] = m /\ ToSet(s) = {l} /\ ToSet(t) = {m}
  BY <1>1, <1>2, Zenon
<1>8. Len(u) = 2 /\ u[1] = l /\ u[2] = m /\ ToSet(u) = {l, m}
  <2>1. 1 \in 1..Len(s) /\ 1 \in 1..Len(t) /\ Len(s) + 1 = 2 /\ Len(s) + Len(t) = 2
    BY <1>7
  <2>2. u[1] = s[1] /\ u[2] = t[1] /\ Len(u) = 2
    BY <1>6, <2>1
  <2>3. ToSet(u) = {l} \cup {m}
    BY <1>6, <1>7, Zenon
  <2> QED
    BY <1>7, <2>2, <2>3
<1> QED
  BY <1>4, <1>5, <1>6, <1>8, Zenon

\* Lines in which each name stands in its namespace.
Scoped(s) ==
  /\ Lead(s) /\ Led(s)
  /\ Len(s) > 0 => ~NeedsScope(s[1])

ScopedLines == {s \in Seq(LineType) : Scoped(s)}

\* Scoped lines after scoped lines are scoped.
LEMMA ScopedJoin ==
  ASSUME NEW s \in ScopedLines, NEW t \in ScopedLines
  PROVE  s \o t \in ScopedLines
<1> DEFINE u == s \o t
<1>0. /\ s \in Seq(LineType) /\ t \in Seq(LineType) /\ Scoped(s) /\ Scoped(t)
  BY DEF ScopedLines
<1>1. /\ u \in Seq(LineType) /\ Len(u) = Len(s) + Len(t)
      /\ Len(s) \in Nat /\ Len(t) \in Nat
      /\ \A n \in 1..Len(s) : u[n] = s[n]
      /\ \A n \in 1..Len(t) : u[Len(s) + n] = t[n]
  BY <1>0, JoinedElements
<1> HIDE DEF u
<1>2. ASSUME NEW n \in 1..Len(u), u[n].what = "namespace"
      PROVE  n < Len(u) /\ Leads(u[n], u[n + 1])
  <2>1. CASE n <= Len(s)
    <3>1. n \in 1..Len(s) /\ u[n] = s[n]
      BY <1>1, <2>1
    <3>2. n < Len(s) /\ Leads(s[n], s[n + 1])
      BY <1>0, <1>2, <3>1 DEF Scoped, Lead
    <3>3. n + 1 \in 1..Len(s) /\ n < Len(u)
      BY <1>1, <3>1, <3>2
    <3>4. u[n + 1] = s[n + 1]
      BY <1>1, <3>3
    <3> QED
      BY <3>1, <3>2, <3>3, <3>4
  <2>2. CASE n > Len(s)
    <3>1. PICK k \in 1..Len(t) : n = Len(s) + k
      <4>1. n - Len(s) \in 1..Len(t) /\ n = Len(s) + (n - Len(s))
        BY <1>1, <2>2
      <4> QED
        BY <4>1
    <3>2. u[n] = t[k]
      BY <1>1, <3>1
    <3>3. k < Len(t) /\ Leads(t[k], t[k + 1])
      BY <1>0, <1>2, <3>2 DEF Scoped, Lead
    <3>4. k + 1 \in 1..Len(t) /\ n < Len(u) /\ n + 1 = Len(s) + (k + 1)
      BY <1>1, <3>1, <3>3
    <3>5. u[n + 1] = t[k + 1]
      BY <1>1, <3>4
    <3> QED
      BY <3>2, <3>3, <3>4, <3>5
  <2> QED
    BY <1>1, <2>1, <2>2
<1>3. ASSUME NEW n \in 1..Len(u), NeedsScope(u[n])
      PROVE  n > 1 /\ u[n - 1].what = "namespace"
  <2>1. CASE n <= Len(s)
    <3>1. n \in 1..Len(s) /\ u[n] = s[n]
      BY <1>1, <2>1
    <3>2. n # 1
      BY <1>0, <1>3, <3>1 DEF Scoped
    <3>3. n \in 2..Len(s) /\ n - 1 \in 1..Len(s)
      BY <1>1, <3>1, <3>2
    <3>4. s[n - 1].what = "namespace"
      BY <1>0, <1>3, <3>1, <3>3 DEF Scoped, Led
    <3> QED
      BY <1>1, <3>3, <3>4
  <2>2. CASE n > Len(s)
    <3>1. PICK k \in 1..Len(t) : n = Len(s) + k
      <4>1. n - Len(s) \in 1..Len(t) /\ n = Len(s) + (n - Len(s))
        BY <1>1, <2>2
      <4> QED
        BY <4>1
    <3>2. u[n] = t[k]
      BY <1>1, <3>1
    <3>3. k # 1
      BY <1>0, <1>1, <1>3, <3>2 DEF Scoped
    <3>4. k \in 2..Len(t) /\ k - 1 \in 1..Len(t) /\ n - 1 = Len(s) + (k - 1) /\ n > 1
      BY <1>1, <3>1, <3>3
    <3>5. t[k - 1].what = "namespace"
      BY <1>0, <1>3, <3>2, <3>4 DEF Scoped, Led
    <3>6. u[n - 1] = t[k - 1]
      BY <1>1, <3>4
    <3> QED
      BY <3>4, <3>5, <3>6
  <2> QED
    BY <1>1, <2>1, <2>2
<1>4. Lead(u)
  BY <1>2 DEF Lead
<1>5. Led(u)
  <2>1. \A n \in 2..Len(u) : n \in 1..Len(u)
    BY <1>1
  <2> QED
    BY <1>3, <2>1 DEF Led
<1>6. Len(u) > 0 => ~NeedsScope(u[1])
  <2> SUFFICES ASSUME Len(u) > 0, NeedsScope(u[1]) PROVE FALSE
    OBVIOUS
  <2>1. 1 \in 1..Len(u) /\ ~(1 > 1)
    BY <1>1
  <2> QED
    BY <1>3, <2>1
<1>7. u \in ScopedLines
  BY <1>1, <1>4, <1>5, <1>6 DEF ScopedLines, Scoped
<1> QED
  BY <1>7 DEF u

\* Text, and properties, need no namespace.
LEMMA FreeLine ==
  ASSUME NEW l \in LineType, l.what # "namespace", ~NeedsScope(l)
  PROVE  <<l>> \in ScopedLines
<1>1. <<l>> \in Seq(LineType) /\ Len(<<l>>) = 1 /\ <<l>>[1] = l
  BY OneElement
<1> DEFINE u == <<l>>
<1> HIDE DEF u
<1>2. Len(u) = 1 /\ u[1] = l /\ u \in Seq(LineType)
  BY <1>1 DEF u
<1>3. Lead(u) /\ Led(u) /\ ~NeedsScope(u[1])
  BY <1>2 DEF Lead, Led
<1> QED
  BY <1>2, <1>3 DEF ScopedLines, Scoped, u

\* What _add_name writes: the name at the end, after the namespace it stands in.
LEMMA NameLines ==
  ASSUME NEW e \in Entities, NEW level \in {0, 1}
  PROVE  /\ AddName(e, level) \in ScopedLines
         /\ Line(level, "declare", e) \in ToSet(AddName(e, level))
         /\ Parent[e] # Global =>
              Line(level, "namespace", Parent[e]) \in ToSet(AddName(e, level))
         /\ \A l \in ToSet(AddName(e, level)) :
              \/ l = Line(level, "declare", e)
              \/ Parent[e] # Global /\ l = Line(level, "namespace", Parent[e])
         /\ Len(AddName(e, level)) > 0
         /\ AddName(e, level)[Len(AddName(e, level))] = Line(level, "declare", e)
<1> DEFINE d == Line(level, "declare", e)
           p == Line(level, "namespace", Parent[e])
           u == AddName(e, level)
<1>1. d \in LineType /\ d.what = "declare" /\ d.level = level /\ d.of = e
  BY DEF Line, LineType
<1>2. Parent[e] \in Entities \cup {Global}
  BY ScopesAssumption
<1>3. Parent[e] # Global =>
        p \in LineType /\ p.what = "namespace" /\ p.level = level /\ p.of = Parent[e]
  BY <1>2 DEF Line, LineType
<1>4. CASE Parent[e] = Global
  <2>1. u = <<>> \o <<d>>
    BY <1>4 DEF AddName
  <2>2. u = <<d>>
    BY <2>1
  <2>3. ~NeedsScope(d) /\ d.what # "namespace"
    BY <1>1, <1>4 DEF NeedsScope
  <2>4. Len(u) = 1 /\ u[1] = d /\ ToSet(u) = {d} /\ u \in ScopedLines
    BY <1>1, <2>2, <2>3, OneElement, FreeLine
  <2> HIDE DEF u, d, p
  <2> QED
    BY <1>4, <2>4 DEF u, d, p
<1>5. CASE Parent[e] # Global
  <2>1. u = Pair(p, d)
    BY <1>5 DEF AddName, Pair
  <2> HIDE DEF u, d, p
  <2>2. p \in LineType /\ d \in LineType
    BY <1>1, <1>3, <1>5
  <2>3. Len(u) = 2 /\ u[1] = p /\ u[2] = d /\ u \in Seq(LineType)
    BY <2>1, <2>2, TwoLines
  <2>4. ToSet(u) = {p, d}
    <3>1. ToSet(Pair(p, d)) = {p, d}
      BY <2>2, TwoLines
    <3> QED
      BY <2>1, <3>1, Zenon
  <2>5. Lead(u)
    BY <1>1, <1>3, <1>5, <2>3 DEF Lead, Leads
  <2>6. Led(u)
    BY <1>1, <1>3, <1>5, <2>3 DEF Led
  <2>7. ~NeedsScope(u[1])
    BY <1>3, <1>5, <2>3 DEF NeedsScope
  <2>8. u \in ScopedLines
    BY <2>3, <2>5, <2>6, <2>7 DEF ScopedLines, Scoped
  <2> QED
    BY <1>5, <2>3, <2>4, <2>8 DEF u, d, p
<1> QED
  BY <1>4, <1>5

\* Nothing at all is scoped.
LEMMA NoLines ==
  /\ <<>> \in ScopedLines
  /\ ToSet(<<>>) = {}
<1> DEFINE u == <<>>
<1>1. u \in Seq(LineType) /\ Len(u) = 0 /\ DOMAIN u = {}
  OBVIOUS
<1> HIDE DEF u
<1>2. u \in ScopedLines /\ ToSet(u) = {}
  BY <1>1 DEF ScopedLines, Scoped, Lead, Led, ToSet
<1> QED
  BY <1>2 DEF u

\* All lines have a type, and what is scoped is lines.
LEMMA Blocks ==
  ASSUME NEW ss \in Seq(ScopedLines)
  PROVE  /\ FlattenSeq(ss) \in ScopedLines
         /\ ToSet(FlattenSeq(ss)) = UNION {ToSet(ss[n]) : n \in DOMAIN ss}
<1>1. <<>> \in ScopedLines
  BY NoLines
<1>2. ScopedLines \subseteq Seq(LineType)
  BY DEF ScopedLines
<1>3. \A s, t \in ScopedLines : s \o t \in ScopedLines
  BY ScopedJoin
<1>4. AreBlocks(ss, ScopedLines, LineType)
  BY <1>1, <1>2, <1>3, Zenon DEF AreBlocks
<1> QED
  BY <1>4, Flattened, Zenon

\* The lines of a name, and the text below it.
OfName(l, e, level) ==
  \/ l = Line(level, "declare", e)
  \/ Parent[e] # Global /\ l = Line(level, "namespace", Parent[e])
  \/ l = Line(level + 1, "text", e)

\* What a line is made of.
LEMMA LineParts ==
  ASSUME NEW level, NEW what, NEW e
  PROVE  /\ Line(level, what, e).level = level /\ Line(level, what, e).what = what
         /\ Line(level, what, e).of = e
         /\ level \in 0..2 /\ what \in {"text", "namespace", "declare"} /\ e \in Entities =>
              Line(level, what, e) \in LineType
BY DEF Line, LineType

\* A line of text is scoped.
LEMMA TextLine ==
  ASSUME NEW e \in Entities, NEW level \in 0..2
  PROVE  /\ <<Line(level, "text", e)>> \in ScopedLines
         /\ ToSet(<<Line(level, "text", e)>>) = {Line(level, "text", e)}
<1> DEFINE l == Line(level, "text", e)
<1>1. l \in LineType /\ l.what = "text"
  BY LineParts
<1> HIDE DEF l
<1>2. ~NeedsScope(l) /\ l.what # "namespace"
  BY <1>1 DEF NeedsScope
<1>3. <<l>> \in ScopedLines
  BY <1>1, <1>2, FreeLine
<1>4. ToSet(<<l>>) = {l}
  BY OneElement
<1> QED
  BY <1>3, <1>4, Zenon DEF l

\* A directive or a member shows a name and its text.
NameAndText(e, level) == AddName(e, level) \o <<Line(level + 1, "text", e)>>

\* A name and its text are scoped, and their lines are of the name.
LEMMA NamesAndTexts ==
  ASSUME NEW e \in Entities, NEW level \in {0, 1}
  PROVE  /\ NameAndText(e, level) \in ScopedLines
         /\ \A l \in ToSet(NameAndText(e, level)) : OfName(l, e, level)
         /\ Parent[e] # Global =>
              Line(level, "namespace", Parent[e]) \in ToSet(NameAndText(e, level))
<1> DEFINE t == <<Line(level + 1, "text", e)>>
           a == AddName(e, level)
<1>1. a \in ScopedLines
  BY NameLines
<1>2. level + 1 \in 0..2
  OBVIOUS
<1>3. t \in ScopedLines /\ ToSet(t) = {Line(level + 1, "text", e)}
  BY <1>2, TextLine, Zenon
<1>4. /\ Parent[e] # Global => Line(level, "namespace", Parent[e]) \in ToSet(a)
      /\ \A l \in ToSet(a) : \/ l = Line(level, "declare", e)
                             \/ Parent[e] # Global /\ l = Line(level, "namespace", Parent[e])
  BY NameLines
<1>5. NameAndText(e, level) = a \o t
  BY DEF NameAndText
<1> HIDE DEF t, a
<1>6. a \o t \in ScopedLines
  BY <1>1, <1>3, ScopedJoin
<1>7. ToSet(a \o t) = ToSet(a) \cup ToSet(t)
  <2>1. a \in Seq(LineType) /\ t \in Seq(LineType)
    BY <1>1, <1>3 DEF ScopedLines
  <2> QED
    BY <2>1, JoinedElements
<1>8. ToSet(NameAndText(e, level)) = ToSet(a) \cup {Line(level + 1, "text", e)}
  BY <1>3, <1>5, <1>7, Zenon
<1> QED
  BY <1>4, <1>5, <1>6, <1>8, Zenon DEF OfName

\* A name at the left margin.
LEMMA OuterFits ==
  ASSUME NEW c \in Entities, NEW e \in Entities, e \in ShownOf(c), Kind[e] # "property",
         Kind[e] = "function" => e \in Documented,
         NEW l, OfName(l, e, 0)
  PROVE  LineFits(l, c) /\ ~IsInner(l) /\ ~IsProperty(l)
<1>0. Parent[e] \in Entities \cup {Global}
  BY ScopesAssumption
<1>1. CASE l = Line(0, "declare", e)
  <2>1. l \in LineType /\ l.what = "declare" /\ l.level = 0 /\ l.of = e
    BY <1>1, LineParts
  <2> QED
    BY <2>1 DEF LineFits, IsInner, IsProperty, IsNamespace
<1>2. CASE Parent[e] # Global /\ l = Line(0, "namespace", Parent[e])
  <2>1. l \in LineType /\ l.what = "namespace" /\ l.level = 0 /\ l.of = Parent[e]
    BY <1>0, <1>2, LineParts
  <2> QED
    BY <2>1 DEF LineFits, IsInner, IsProperty, IsNamespace
<1>3. CASE l = Line(0 + 1, "text", e)
  <2>1. l \in LineType /\ l.what = "text"
    BY <1>3, LineParts
  <2> QED
    BY <2>1 DEF LineFits, IsInner, IsProperty, IsNamespace
<1> QED
  BY <1>1, <1>2, <1>3, Zenon DEF OfName

\* A line of a function of a class.
LEMMA FunctionFits ==
  ASSUME NEW c \in Entities, Kind[c] = "class", NEW e \in ToSet(Members[c]), e \in Entities,
         Kind[e] = "function", e \in Documented,
         NEW l, OfName(l, e, 1)
  PROVE  LineFits(l, c) /\ ~IsProperty(l) /\ l.level # 0
<1>0. Parent[e] = c /\ HasFunctions(c)
  BY ScopesAssumption DEF HasFunctions
<1>1. CASE l = Line(1, "declare", e)
  <2>1. l \in LineType /\ l.what = "declare" /\ l.level = 1 /\ l.of = e
    BY <1>1, LineParts
  <2> QED
    BY <1>0, <2>1 DEF LineFits, IsInner, IsProperty, IsNamespace
<1>2. CASE Parent[e] # Global /\ l = Line(1, "namespace", Parent[e])
  <2>1. l \in LineType /\ l.what = "namespace" /\ l.level = 1 /\ l.of = Parent[e]
    BY <1>0, <1>2, LineParts
  <2> QED
    BY <1>0, <2>1 DEF LineFits, IsInner, IsProperty, IsNamespace
<1>3. CASE l = Line(1 + 1, "text", e)
  <2>1. l \in LineType /\ l.what = "text" /\ l.level = 2
    BY <1>3, LineParts
  <2> QED
    BY <2>1 DEF LineFits, IsInner, IsProperty, IsNamespace
<1> QED
  BY <1>1, <1>2, <1>3, Zenon DEF OfName

\* The two lines of a property.
LEMMA PropertyFits ==
  ASSUME NEW c \in Entities, Kind[c] = "class", NEW e \in ToSet(Members[c]), e \in Entities,
         Kind[e] = "property"
  PROVE  /\ AddProperty(e) \in ScopedLines
         /\ \A l \in ToSet(AddProperty(e)) :
              LineFits(l, c) /\ l.what # "namespace" /\ l.level # 0
<1> DEFINE d == Line(1, "declare", e)
           t == Line(2, "text", e)
           u == AddProperty(e)
<1>0. Parent[e] = c
  BY ScopesAssumption
<1>1. d \in LineType /\ d.what = "declare" /\ d.level = 1 /\ d.of = e
  BY LineParts
<1>2. t \in LineType /\ t.what = "text" /\ t.level = 2
  BY LineParts
<1>3. u = <<d, t>>
  BY DEF AddProperty
<1> HIDE DEF d, t, u
<1>4. u \in Seq(LineType) /\ Len(u) = 2 /\ u[1] = d /\ u[2] = t /\ DOMAIN u = 1..2
  BY <1>1, <1>2, <1>3
<1>5. ~NeedsScope(d) /\ ~NeedsScope(t)
  BY <1>1, <1>2 DEF NeedsScope
<1>6. \A n \in 1..2 : u[n] = d \/ u[n] = t
  BY <1>4
<1>7. u \in ScopedLines
  <2>1. \A n \in 1..2 : u[n].what # "namespace" /\ ~NeedsScope(u[n])
    <3> SUFFICES ASSUME NEW n \in 1..2 PROVE u[n].what # "namespace" /\ ~NeedsScope(u[n])
      OBVIOUS
    <3>1. CASE u[n] = d
      BY <1>1, <1>5, <3>1
    <3>2. CASE u[n] = t
      BY <1>2, <1>5, <3>2
    <3> QED
      BY <1>6, <3>1, <3>2
  <2>2. Lead(u)
    BY <1>4, <2>1 DEF Lead
  <2>3. \A n \in 2..Len(u) : n \in 1..2
    BY <1>4
  <2>4. Led(u) /\ ~NeedsScope(u[1])
    BY <2>1, <2>3 DEF Led
  <2> QED
    BY <1>4, <2>2, <2>4 DEF ScopedLines, Scoped
<1>8. LineFits(d, c)
  BY <1>0, <1>1 DEF LineFits, IsInner, IsProperty, IsNamespace
<1>9. LineFits(t, c)
  BY <1>2 DEF LineFits, IsInner, IsProperty, IsNamespace
<1>10. \A l \in ToSet(u) : l = d \/ l = t
  <2>1. ToSet(u) = {u[n] : n \in 1..2}
    BY <1>4, Zenon DEF ToSet
  <2> QED
    BY <1>6, <2>1
<1>11. \A l \in ToSet(u) : LineFits(l, c) /\ l.what # "namespace" /\ l.level # 0
  BY <1>1, <1>2, <1>8, <1>9, <1>10
<1> QED
  BY <1>7, <1>11 DEF u

\* What is written of the functions of a class.
LEMMA FunctionLinesFit ==
  ASSUME NEW c \in Entities, Kind[c] = "class", NEW s \in Seq(Entities),
         ToSet(s) = {m \in ToSet(Members[c]) : Kind[m] = "function"}
  PROVE  /\ FunctionLines(s) \in ScopedLines
         /\ \A l \in ToSet(FunctionLines(s)) : LineFits(l, c) /\ ~IsProperty(l) /\ l.level # 0
         /\ HasFunctions(c) => \E l \in ToSet(FunctionLines(s)) : IsNamespace(l)
<1> DEFINE ss == [n \in DOMAIN s |-> AddFunction(s[n], 1)]
           u == FunctionLines(s)
<1>0. /\ Len(s) \in Nat /\ DOMAIN s = 1..Len(s)
      /\ \A n \in DOMAIN s : s[n] \in Entities /\ s[n] \in ToSet(s)
  BY DEF ToSet
<1>1. \A n \in DOMAIN s : s[n] \in ToSet(Members[c]) /\ Kind[s[n]] = "function"
  BY <1>0
<1>2. ASSUME NEW e \in Entities, e \in Documented
      PROVE  AddFunction(e, 1) = NameAndText(e, 1)
  BY <1>2 DEF AddFunction, NameAndText
<1>3. ASSUME NEW e \in Entities, e \notin Documented
      PROVE  AddFunction(e, 1) = <<>>
  BY <1>3 DEF AddFunction
<1>4. <<>> \in ScopedLines /\ ToSet(<<>>) = {}
  BY NoLines
<1>5. ASSUME NEW n \in DOMAIN s
      PROVE  /\ AddFunction(s[n], 1) \in ScopedLines
             /\ \A l \in ToSet(AddFunction(s[n], 1)) :
                  LineFits(l, c) /\ ~IsProperty(l) /\ l.level # 0
  <2>0. s[n] \in Entities
    BY <1>0
  <2>1. CASE s[n] \in Documented
    <3>1. AddFunction(s[n], 1) = NameAndText(s[n], 1)
      BY <1>2, <2>0, <2>1
    <3>2. /\ NameAndText(s[n], 1) \in ScopedLines
          /\ \A l \in ToSet(NameAndText(s[n], 1)) : OfName(l, s[n], 1)
      BY <2>0, NamesAndTexts
    <3>3. ASSUME NEW l, OfName(l, s[n], 1) PROVE LineFits(l, c) /\ ~IsProperty(l) /\ l.level # 0
      BY <1>1, <2>0, <2>1, <3>3, FunctionFits
    <3> QED
      BY <3>1, <3>2, <3>3, Zenon
  <2>2. CASE s[n] \notin Documented
    <3>1. AddFunction(s[n], 1) = <<>>
      BY <1>3, <2>0, <2>2
    <3> QED
      BY <1>4, <3>1, Zenon
  <2> QED
    BY <2>1, <2>2
<1>6. ss \in Seq(ScopedLines) /\ DOMAIN ss = DOMAIN s
  <2>1. ss \in [1..Len(s) -> ScopedLines]
    BY <1>0, <1>5
  <2> HIDE DEF ss
  <2> QED
    BY <1>0, <2>1
<1>7. u = FlattenSeq(ss)
  BY DEF FunctionLines
<1>8. \A n \in DOMAIN s : ss[n] = AddFunction(s[n], 1)
  OBVIOUS
<1> HIDE DEF u, ss
<1>9. u \in ScopedLines /\ ToSet(u) = UNION {ToSet(ss[n]) : n \in DOMAIN ss}
  BY <1>6, <1>7, Blocks, Zenon
<1>10. \A l \in ToSet(u) : \E n \in DOMAIN s : l \in ToSet(ss[n])
  BY <1>6, <1>9
<1>11. \A l \in ToSet(u) : LineFits(l, c) /\ ~IsProperty(l) /\ l.level # 0
  BY <1>5, <1>8, <1>10, Zenon
<1>12. ASSUME HasFunctions(c) PROVE \E l \in ToSet(u) : IsNamespace(l)
  <2>1. PICK m \in ToSet(s) : m \in Documented
    BY <1>12 DEF HasFunctions
  <2>2. PICK n \in DOMAIN s : m = s[n]
    BY DEF ToSet
  <2>3. m \in Entities /\ Parent[m] = c /\ c # Global
    BY <1>0, <1>1, <2>2, ScopesAssumption
  <2> DEFINE l == Line(1, "namespace", Parent[m])
  <2>4. l \in ToSet(NameAndText(m, 1))
    BY <2>3, NamesAndTexts
  <2>5. ss[n] = NameAndText(m, 1)
    BY <1>2, <1>8, <2>1, <2>2, <2>3, Zenon
  <2>6. l.what = "namespace" /\ l.level = 1
    BY LineParts
  <2> HIDE DEF l
  <2>7. l \in ToSet(ss[n]) /\ n \in DOMAIN ss
    BY <1>6, <2>2, <2>4, <2>5, Zenon
  <2>8. l \in ToSet(u)
    BY <1>9, <2>7
  <2> QED
    BY <2>6, <2>8 DEF IsNamespace
<1> QED
  BY <1>9, <1>11, <1>12 DEF u

\* What is written of the properties of a class.
LEMMA PropertyLinesFit ==
  ASSUME NEW c \in Entities, Kind[c] = "class", NEW s \in Seq(Entities),
         ToSet(s) = {m \in ToSet(Members[c]) : Kind[m] = "property"}
  PROVE  /\ PropertyLines(s) \in ScopedLines
         /\ \A l \in ToSet(PropertyLines(s)) :
              LineFits(l, c) /\ l.what # "namespace" /\ l.level # 0
<1> DEFINE ss == [n \in DOMAIN s |-> AddProperty(s[n])]
           u == PropertyLines(s)
<1>0. /\ Len(s) \in Nat /\ DOMAIN s = 1..Len(s)
      /\ \A n \in DOMAIN s : s[n] \in Entities /\ s[n] \in ToSet(s)
  BY DEF ToSet
<1>1. \A n \in DOMAIN s : s[n] \in ToSet(Members[c]) /\ Kind[s[n]] = "property"
  BY <1>0
<1>5. ASSUME NEW n \in DOMAIN s
      PROVE  /\ AddProperty(s[n]) \in ScopedLines
             /\ \A l \in ToSet(AddProperty(s[n])) :
                  LineFits(l, c) /\ l.what # "namespace" /\ l.level # 0
  BY <1>0, <1>1, PropertyFits
<1>6. ss \in Seq(ScopedLines) /\ DOMAIN ss = DOMAIN s
  <2>1. ss \in [1..Len(s) -> ScopedLines]
    BY <1>0, <1>5
  <2> HIDE DEF ss
  <2> QED
    BY <1>0, <2>1
<1>7. u = FlattenSeq(ss)
  BY DEF PropertyLines
<1>8. \A n \in DOMAIN s : ss[n] = AddProperty(s[n])
  OBVIOUS
<1> HIDE DEF u, ss
<1>9. u \in ScopedLines /\ ToSet(u) = UNION {ToSet(ss[n]) : n \in DOMAIN ss}
  BY <1>6, <1>7, Blocks, Zenon
<1>10. \A l \in ToSet(u) : \E n \in DOMAIN s : l \in ToSet(ss[n])
  BY <1>6, <1>9
<1>11. \A l \in ToSet(u) : LineFits(l, c) /\ l.what # "namespace" /\ l.level # 0
  BY <1>5, <1>8, <1>10, Zenon
<1> QED
  BY <1>9, <1>11 DEF u

\* What is written of the classes, or of the typedefs, of a namespace of tags.
LEMMA TagLinesFit ==
  ASSUME NEW c \in Entities, Kind[c] = "namespace", NEW s \in Seq(Entities),
         \A e \in ToSet(s) : e \in ToSet(Members[c]) /\ Kind[e] \notin {"function", "property"}
  PROVE  /\ TagLines(s) \in ScopedLines
         /\ \A l \in ToSet(TagLines(s)) : LineFits(l, c) /\ ~IsInner(l) /\ ~IsProperty(l)
<1> DEFINE ss == [n \in DOMAIN s |-> AddName(s[n], 0) \o <<Line(1, "text", s[n])>>]
           u == TagLines(s)
<1>0. /\ Len(s) \in Nat /\ DOMAIN s = 1..Len(s)
      /\ \A n \in DOMAIN s : s[n] \in Entities /\ s[n] \in ToSet(s)
  BY DEF ToSet
<1>1. \A n \in DOMAIN s : /\ s[n] \in ShownOf(c)
                          /\ Kind[s[n]] # "function" /\ Kind[s[n]] # "property"
  BY <1>0 DEF ShownOf
<1>2. \A n \in DOMAIN s : ss[n] = NameAndText(s[n], 0)
  <2>1. 0 + 1 = 1
    OBVIOUS
  <2> QED
    BY <2>1 DEF NameAndText
<1>5. ASSUME NEW n \in DOMAIN s
      PROVE  /\ ss[n] \in ScopedLines
             /\ \A l \in ToSet(ss[n]) : LineFits(l, c) /\ ~IsInner(l) /\ ~IsProperty(l)
  <2>1. /\ NameAndText(s[n], 0) \in ScopedLines
        /\ \A l \in ToSet(NameAndText(s[n], 0)) : OfName(l, s[n], 0)
    BY <1>0, NamesAndTexts
  <2>2. ASSUME NEW l, OfName(l, s[n], 0) PROVE LineFits(l, c) /\ ~IsInner(l) /\ ~IsProperty(l)
    BY <1>0, <1>1, <2>2, OuterFits
  <2> HIDE DEF ss
  <2> QED
    BY <1>2, <2>1, <2>2, Zenon
<1>6. DOMAIN ss = 1..Len(s)
  BY <1>0
<1>7. u = FlattenSeq(ss)
  BY DEF TagLines
<1>8. ss = [n \in DOMAIN s |-> ss[n]]
  OBVIOUS
<1> HIDE DEF u, ss
<1>9. ss \in Seq(ScopedLines)
  <2>1. ss \in [1..Len(s) -> ScopedLines]
    BY <1>0, <1>5, <1>8
  <2> QED
    BY <1>0, <2>1
<1>10. u \in ScopedLines /\ ToSet(u) = UNION {ToSet(ss[n]) : n \in DOMAIN ss}
  BY <1>7, <1>9, Blocks, Zenon
<1>11. \A l \in ToSet(u) : \E n \in DOMAIN s : l \in ToSet(ss[n])
  BY <1>0, <1>6, <1>10
<1>12. \A l \in ToSet(u) : LineFits(l, c) /\ ~IsInner(l) /\ ~IsProperty(l)
  BY <1>5, <1>11, Zenon
<1> QED
  BY <1>10, <1>12 DEF u

\* A line of text fits any directive.
LEMMA TextFits ==
  ASSUME NEW c, NEW e \in Entities, NEW level \in 0..2
  PROVE  /\ LineFits(Line(level, "text", e), c)
         /\ ~IsInner(Line(level, "text", e)) /\ ~IsProperty(Line(level, "text", e))
<1> DEFINE l == Line(level, "text", e)
<1>1. l \in LineType /\ l.what = "text"
  BY LineParts
<1> HIDE DEF l
<1>2. LineFits(l, c) /\ ~IsInner(l) /\ ~IsProperty(l)
  BY <1>1 DEF LineFits, IsInner, IsProperty, IsNamespace
<1> QED
  BY <1>2 DEF l

\* What stands further to the right leaves the class before it.
LEMMA PendingGrows ==
  ASSUME NEW s \in Seq(LineType), NEW t \in Seq(LineType), Pending(s),
         \A l \in ToSet(t) : l.level # 0
  PROVE  Pending(s \o t)
<1> DEFINE u == s \o t
<1>1. /\ Len(u) = Len(s) + Len(t) /\ Len(s) \in Nat /\ Len(t) \in Nat
      /\ \A n \in 1..Len(s) : u[n] = s[n]
      /\ \A n \in 1..Len(t) : u[Len(s) + n] = t[n]
      /\ \A n \in 1..Len(s)+Len(t) : n \in 1..Len(s) \/ n - Len(s) \in 1..Len(t)
  BY JoinedElements
<1> HIDE DEF u
<1>2. PICK m \in 1..Len(s) :
        /\ s[m].what = "declare" /\ s[m].level = 0
        /\ \A k \in 1..m-1 : ~IsInner(s[k])
        /\ \A k \in m+1..Len(s) : s[k].level # 0
  BY DEF Pending
<1>3. m \in 1..Len(u) /\ u[m] = s[m]
  BY <1>1
<1>4. ASSUME NEW k \in 1..m-1 PROVE ~IsInner(u[k])
  <2>1. k \in 1..Len(s)
    BY <1>1
  <2> QED
    BY <1>1, <1>2, <2>1
<1>5. ASSUME NEW k \in m+1..Len(u) PROVE u[k].level # 0
  <2>1. CASE k \in 1..Len(s)
    <3>1. k \in m+1..Len(s)
      BY <1>1, <2>1
    <3> QED
      BY <1>1, <1>2, <2>1, <3>1
  <2>2. CASE k - Len(s) \in 1..Len(t)
    <3>1. k = Len(s) + (k - Len(s))
      BY <1>1
    <3>2. u[k] = t[k - Len(s)]
      BY <1>1, <2>2, <3>1
    <3>3. t[k - Len(s)] \in ToSet(t)
      BY <2>2, Indexed
    <3> QED
      BY <3>2, <3>3
  <2>3. k \in 1..Len(s)+Len(t)
    BY <1>1
  <2> QED
    BY <1>1, <2>1, <2>2, <2>3
<1>6. Pending(u)
  BY <1>2, <1>3, <1>4, <1>5 DEF Pending
<1> QED
  BY <1>6 DEF u

\* Properties after everything else: no namespace follows them.
LEMMA PropertiesAfter ==
  ASSUME NEW s \in Seq(LineType), NEW t \in Seq(LineType),
         \A l \in ToSet(s) : ~IsProperty(l),
         \A l \in ToSet(t) : l.what # "namespace"
  PROVE  PropertiesLast(s \o t)
<1> DEFINE u == s \o t
<1>1. /\ Len(u) = Len(s) + Len(t) /\ Len(s) \in Nat /\ Len(t) \in Nat
      /\ \A n \in 1..Len(s) : u[n] = s[n]
      /\ \A n \in 1..Len(t) : u[Len(s) + n] = t[n]
      /\ \A n \in 1..Len(s)+Len(t) : n \in 1..Len(s) \/ n - Len(s) \in 1..Len(t)
  BY JoinedElements
<1> HIDE DEF u
<1>2. ASSUME NEW n \in 1..Len(u), IsProperty(u[n]) PROVE n > Len(s)
  <2> SUFFICES ASSUME n \in 1..Len(s) PROVE FALSE
    BY <1>1
  <2>1. u[n] = s[n] /\ s[n] \in ToSet(s)
    BY <1>1, Indexed
  <2> QED
    BY <1>2, <2>1
<1>3. ASSUME NEW k \in 1..Len(u), u[k].what = "namespace" PROVE k <= Len(s)
  <2> SUFFICES ASSUME k \notin 1..Len(s) PROVE FALSE
    BY <1>1
  <2>1. k - Len(s) \in 1..Len(t) /\ k = Len(s) + (k - Len(s))
    BY <1>1
  <2>2. u[k] = t[k - Len(s)] /\ t[k - Len(s)] \in ToSet(t)
    BY <1>1, <2>1, Indexed
  <2> QED
    BY <1>3, <2>2
<1>4. PropertiesLast(u)
  <2> SUFFICES ASSUME NEW n \in 1..Len(u), NEW k \in 1..Len(u),
                      IsProperty(u[n]), u[k].what = "namespace"
               PROVE  k < n
    BY DEF PropertiesLast
  <2>1. n > Len(s) /\ k <= Len(s)
    BY <1>2, <1>3
  <2> QED
    BY <1>1, <2>1
<1> QED
  BY <1>4 DEF u

\* What the directive of c writes.
Written(s, c) ==
  /\ s \in ScopedLines /\ \A l \in ToSet(s) : LineFits(l, c)
  /\ PropertiesLast(s)
  /\ SomeProperty(s) /\ HasFunctions(c) => SomeNamespace(s)
  /\ Some(s) => Pending(s)

\* A directive that shows no members.
LEMMA WrittenOutside ==
  ASSUME NEW c, NEW s \in ScopedLines,
         \A l \in ToSet(s) : LineFits(l, c) /\ ~IsInner(l) /\ ~IsProperty(l)
  PROVE  Written(s, c)
<1>1. s \in Seq(LineType)
  BY DEF ScopedLines
<1>2. \A n \in 1..Len(s) : ~IsInner(s[n]) /\ ~IsProperty(s[n])
  BY <1>1, Indexed
<1>3. PropertiesLast(s) /\ ~SomeProperty(s) /\ ~Some(s)
  BY <1>2 DEF PropertiesLast, SomeProperty, Some
<1>4. \A l \in ToSet(s) : LineFits(l, c)
  OBVIOUS
<1> QED
  BY <1>3, <1>4, Zenon DEF Written

\* The line before a name, and the name.
LEMMA HeadLines ==
  ASSUME NEW e \in Entities, NEW c, \A l : OfName(l, e, 0) =>
           LineFits(l, c) /\ ~IsInner(l) /\ ~IsProperty(l)
  PROVE  /\ <<Line(0, "text", e)>> \o AddName(e, 0) \in ScopedLines
         /\ \A l \in ToSet(<<Line(0, "text", e)>> \o AddName(e, 0)) :
              LineFits(l, c) /\ ~IsInner(l) /\ ~IsProperty(l)
         /\ Pending(<<Line(0, "text", e)>> \o AddName(e, 0))
<1> DEFINE t == <<Line(0, "text", e)>>
           a == AddName(e, 0)
           d == Line(0, "declare", e)
           u == t \o a
<1>0. 0 \in 0..2
  OBVIOUS
<1>1. t \in ScopedLines /\ ToSet(t) = {Line(0, "text", e)}
  BY <1>0, TextLine, Zenon
<1>2. a \in ScopedLines /\ Len(a) > 0 /\ a[Len(a)] = d
  BY NameLines
<1>3. \A l \in ToSet(a) : OfName(l, e, 0)
  BY NameLines DEF OfName
<1>4. d.what = "declare" /\ d.level = 0
  BY LineParts
<1>5. /\ LineFits(Line(0, "text", e), c)
      /\ ~IsInner(Line(0, "text", e)) /\ ~IsProperty(Line(0, "text", e))
  BY TextFits
<1> HIDE DEF t, a, d
<1>6. t \in Seq(LineType) /\ a \in Seq(LineType)
  BY <1>1, <1>2 DEF ScopedLines
<1>7. /\ u \in Seq(LineType) /\ Len(u) = Len(t) + Len(a)
      /\ Len(t) \in Nat /\ Len(a) \in Nat
      /\ \A n \in 1..Len(a) : u[Len(t) + n] = a[n]
      /\ ToSet(u) = ToSet(t) \cup ToSet(a)
  BY <1>6, JoinedElements
<1>8. u \in ScopedLines
  BY <1>1, <1>2, ScopedJoin
<1> HIDE DEF u
<1>9. \A l \in ToSet(u) : LineFits(l, c) /\ ~IsInner(l) /\ ~IsProperty(l)
  <2> SUFFICES ASSUME NEW l \in ToSet(u) PROVE LineFits(l, c) /\ ~IsInner(l) /\ ~IsProperty(l)
    OBVIOUS
  <2>1. CASE l \in ToSet(t)
    BY <1>1, <1>5, <2>1
  <2>2. CASE l \in ToSet(a)
    BY <1>3, <2>2
  <2> QED
    BY <1>7, <2>1, <2>2
<1>10. Len(u) \in 1..Len(u) /\ u[Len(u)] = d
  BY <1>2, <1>7
<1>11. \A k \in 1..Len(u)-1 : ~IsInner(u[k])
  <2>1. \A k \in 1..Len(u)-1 : k \in 1..Len(u)
    BY <1>7
  <2> QED
    BY <1>7, <1>9, <2>1, Indexed
<1>12. Pending(u)
  <2>1. \A k \in Len(u)+1..Len(u) : FALSE
    BY <1>7
  <2> QED
    BY <1>4, <1>10, <1>11, <2>1, Zenon DEF Pending
<1> QED
  BY <1>8, <1>9, <1>12 DEF u, t, a

\* What the directives write, each of its kind.
LEMMA DirectiveWrites ==
  ASSUME NEW e \in Entities, Kind[e] \in {"class", "function", "enum", "namespace"}
  PROVE  Written(DirectiveLines(e), e)
<1> DEFINE t == <<Line(0, "text", e)>>
           x == <<Line(1, "text", e)>>
           h == t \o AddName(e, 0)
<1>0. 0 \in 0..2 /\ 1 \in 0..2
  OBVIOUS
<1>1. /\ t \in ScopedLines /\ ToSet(t) = {Line(0, "text", e)}
      /\ x \in ScopedLines /\ ToSet(x) = {Line(1, "text", e)}
  BY <1>0, TextLine, Zenon
<1>2. /\ LineFits(Line(0, "text", e), e) /\ ~IsInner(Line(0, "text", e))
      /\ ~IsProperty(Line(0, "text", e))
      /\ LineFits(Line(1, "text", e), e) /\ ~IsInner(Line(1, "text", e))
      /\ ~IsProperty(Line(1, "text", e))
  BY TextFits
<1>3. ASSUME Kind[e] \in {"class", "enum"}
      PROVE  /\ h \in ScopedLines /\ Pending(h)
             /\ \A l \in ToSet(h) : LineFits(l, e) /\ ~IsInner(l) /\ ~IsProperty(l)
  <2>1. e \in ShownOf(e) /\ Kind[e] # "property" /\ Kind[e] # "function"
    BY <1>3 DEF ShownOf
  <2>2. \A l : OfName(l, e, 0) => LineFits(l, e) /\ ~IsInner(l) /\ ~IsProperty(l)
    BY <2>1, OuterFits
  <2> QED
    BY <2>2, HeadLines
<1>4. Line(1, "text", e).level # 0 /\ Line(1, "text", e).what # "namespace"
  BY LineParts
<1>5. ASSUME NEW s \in ScopedLines, NEW u \in ScopedLines
      PROVE  /\ s \o u \in ScopedLines /\ ToSet(s \o u) = ToSet(s) \cup ToSet(u)
             /\ s \in Seq(LineType) /\ u \in Seq(LineType)
  <2>1. s \in Seq(LineType) /\ u \in Seq(LineType)
    BY DEF ScopedLines
  <2> QED
    BY <2>1, ScopedJoin, JoinedElements
<1> HIDE DEF t, x, h
<1>6. CASE Kind[e] = "class"
  <2> DEFINE fs == FunctionLines(OfKind(e, "function"))
             ps == PropertyLines(OfKind(e, "property"))
             a == h \o x
             b == a \o fs
             w == b \o ps
  <2>1. DirectiveLines(e) = w
    BY <1>6 DEF DirectiveLines, ClassLines, h, t, x
  <2>2. /\ fs \in ScopedLines
        /\ \A l \in ToSet(fs) : LineFits(l, e) /\ ~IsProperty(l) /\ l.level # 0
        /\ HasFunctions(e) => \E l \in ToSet(fs) : IsNamespace(l)
    BY <1>6, OfKindLists, FunctionLinesFit
  <2>3. /\ ps \in ScopedLines
        /\ \A l \in ToSet(ps) : LineFits(l, e) /\ l.what # "namespace" /\ l.level # 0
    BY <1>6, OfKindLists, PropertyLinesFit
  <2> HIDE DEF fs, ps
  <2>4. /\ h \in ScopedLines /\ Pending(h)
        /\ \A l \in ToSet(h) : LineFits(l, e) /\ ~IsProperty(l)
    BY <1>3, <1>6
  <2>5. /\ a \in ScopedLines /\ Pending(a) /\ ToSet(a) = ToSet(h) \cup ToSet(x)
    <3>1. \A l \in ToSet(x) : l.level # 0
      BY <1>1, <1>4
    <3> QED
      BY <1>1, <1>5, <2>4, <3>1, PendingGrows
  <2>6. \A l \in ToSet(a) : LineFits(l, e) /\ ~IsProperty(l)
    <3>1. \A l \in ToSet(x) : LineFits(l, e) /\ ~IsProperty(l)
      BY <1>1, <1>2
    <3> QED
      BY <2>4, <2>5, <3>1
  <2> HIDE DEF a
  <2>7. b \in ScopedLines /\ Pending(b) /\ ToSet(b) = ToSet(a) \cup ToSet(fs)
    BY <1>5, <2>2, <2>5, PendingGrows
  <2>8. \A l \in ToSet(b) : LineFits(l, e) /\ ~IsProperty(l)
    BY <2>2, <2>6, <2>7
  <2> HIDE DEF b
  <2>9. w \in ScopedLines /\ Pending(w) /\ ToSet(w) = ToSet(b) \cup ToSet(ps)
    BY <1>5, <2>3, <2>7, PendingGrows
  <2>10. PropertiesLast(w)
    BY <1>5, <2>3, <2>7, <2>8, PropertiesAfter
  <2> HIDE DEF w
  <2>11. \A l \in ToSet(w) : LineFits(l, e)
    BY <2>3, <2>8, <2>9
  <2>12. HasFunctions(e) => SomeNamespace(w)
    <3> SUFFICES ASSUME HasFunctions(e) PROVE SomeNamespace(w)
      OBVIOUS
    <3>1. PICK l \in ToSet(w) : IsNamespace(l)
      BY <2>2, <2>7, <2>9
    <3>2. w \in Seq(LineType)
      BY <2>9 DEF ScopedLines
    <3>3. PICK n \in 1..Len(w) : w[n] = l
      BY <3>2, Indexed
    <3> QED
      BY <3>1, <3>3 DEF SomeNamespace
  <2> QED
    BY <2>1, <2>9, <2>10, <2>11, <2>12, Zenon DEF Written
<1>7. CASE Kind[e] = "function"
  <2>1. DirectiveLines(e) = t \o AddFunction(e, 0)
    BY <1>7 DEF DirectiveLines, t
  <2>2. /\ AddFunction(e, 0) \in ScopedLines
        /\ \A l \in ToSet(AddFunction(e, 0)) : LineFits(l, e) /\ ~IsInner(l) /\ ~IsProperty(l)
    <3>1. CASE e \in Documented
      <4>1. AddFunction(e, 0) = NameAndText(e, 0)
        BY <3>1 DEF AddFunction, NameAndText
      <4>2. /\ NameAndText(e, 0) \in ScopedLines
            /\ \A l \in ToSet(NameAndText(e, 0)) : OfName(l, e, 0)
        BY NamesAndTexts
      <4>3. e \in ShownOf(e) /\ Kind[e] # "property"
        BY <1>7 DEF ShownOf
      <4>4. ASSUME NEW l, OfName(l, e, 0) PROVE LineFits(l, e) /\ ~IsInner(l) /\ ~IsProperty(l)
        BY <3>1, <4>3, <4>4, OuterFits
      <4> QED
        BY <4>1, <4>2, <4>4, Zenon
    <3>2. CASE e \notin Documented
      <4>1. AddFunction(e, 0) = <<>>
        BY <3>2 DEF AddFunction
      <4> QED
        BY <4>1, NoLines, Zenon
    <3> QED
      BY <3>1, <3>2
  <2> DEFINE f == AddFunction(e, 0)
             w == t \o f
  <2> HIDE DEF f
  <2>3. f \in ScopedLines /\ \A l \in ToSet(f) : LineFits(l, e) /\ ~IsInner(l) /\ ~IsProperty(l)
    BY <2>2 DEF f
  <2>4. w \in ScopedLines /\ ToSet(w) = ToSet(t) \cup ToSet(f)
    BY <1>1, <1>5, <2>3
  <2> HIDE DEF w
  <2>5. \A l \in ToSet(t) : LineFits(l, e) /\ ~IsInner(l) /\ ~IsProperty(l)
    BY <1>1, <1>2
  <2>6. \A l \in ToSet(w) : LineFits(l, e) /\ ~IsInner(l) /\ ~IsProperty(l)
    BY <2>3, <2>4, <2>5
  <2>7. Written(w, e)
    BY <2>4, <2>6, WrittenOutside
  <2> QED
    BY <2>1, <2>7 DEF w, f
<1>8. CASE Kind[e] = "enum"
  <2> DEFINE w == h \o x
  <2>1. DirectiveLines(e) = w
    BY <1>8 DEF DirectiveLines, h, t, x
  <2>2. w \in ScopedLines /\ ToSet(w) = ToSet(h) \cup ToSet(x)
    BY <1>1, <1>3, <1>5, <1>8
  <2> HIDE DEF w
  <2>3. \A l \in ToSet(x) : LineFits(l, e) /\ ~IsInner(l) /\ ~IsProperty(l)
    BY <1>1, <1>2
  <2>4. \A l \in ToSet(w) : LineFits(l, e) /\ ~IsInner(l) /\ ~IsProperty(l)
    BY <1>3, <1>8, <2>2, <2>3
  <2> QED
    BY <2>1, <2>2, <2>4, WrittenOutside
<1>9. CASE Kind[e] = "namespace"
  <2> DEFINE cs == TagLines(OfKind(e, "class"))
             ts == TagLines(OfKind(e, "typedef"))
             a == t \o cs
             w == a \o ts
  <2>1. DirectiveLines(e) = w
    BY <1>9 DEF DirectiveLines, TagsLines, t
  <2>2. ASSUME NEW kind \in {"class", "typedef"}
        PROVE  /\ OfKind(e, kind) \in Seq(Entities)
               /\ \A m \in ToSet(OfKind(e, kind)) :
                    m \in ToSet(Members[e]) /\ Kind[m] \notin {"function", "property"}
    BY OfKindLists
  <2>3. /\ cs \in ScopedLines /\ ts \in ScopedLines
        /\ \A l \in ToSet(cs) : LineFits(l, e) /\ ~IsInner(l) /\ ~IsProperty(l)
        /\ \A l \in ToSet(ts) : LineFits(l, e) /\ ~IsInner(l) /\ ~IsProperty(l)
    BY <1>9, <2>2, TagLinesFit
  <2> HIDE DEF cs, ts
  <2>4. \A l \in ToSet(t) : LineFits(l, e) /\ ~IsInner(l) /\ ~IsProperty(l)
    BY <1>1, <1>2
  <2>5. a \in ScopedLines /\ ToSet(a) = ToSet(t) \cup ToSet(cs)
    BY <1>1, <1>5, <2>3
  <2> HIDE DEF a
  <2>6. w \in ScopedLines /\ ToSet(w) = ToSet(a) \cup ToSet(ts)
    BY <1>5, <2>3, <2>5
  <2> HIDE DEF w
  <2>7. \A l \in ToSet(w) : LineFits(l, e) /\ ~IsInner(l) /\ ~IsProperty(l)
    BY <2>3, <2>4, <2>5, <2>6
  <2> QED
    BY <2>1, <2>6, <2>7, WrittenOutside
<1> QED
  BY <1>6, <1>7, <1>8, <1>9

-----------------------------------------------------------------------------
(* What Sphinx makes of the lines.                                         *)

\* The lines after the first, and what the first has to do with them.
LEMMA RestFits ==
  ASSUME NEW c, NEW s \in Seq(LineType), s # <<>>,
         \A n \in 1..Len(s) : LineFits(s[n], c),
         Lead(s), Led(s), PropertiesLast(s)
  PROVE  /\ \A n \in 1..Len(Tail(s)) : LineFits(Tail(s)[n], c)
         /\ Lead(Tail(s)) /\ Led(Tail(s)) /\ PropertiesLast(Tail(s))
         /\ Tail(s) # <<>> /\ NeedsScope(Tail(s)[1]) =>
              s[1].what = "namespace" /\ Leads(s[1], Tail(s)[1])
         /\ Some(Tail(s)) => Some(s)
         /\ SomeProperty(Tail(s)) => SomeProperty(s)
         /\ SomeNamespace(s) /\ ~IsNamespace(s[1]) => SomeNamespace(Tail(s))
<1> DEFINE t == Tail(s)
<1>1. /\ Len(s) \in Nat /\ Len(s) >= 1
      /\ t \in Seq(LineType) /\ Len(t) = Len(s) - 1
      /\ \A n \in 1..Len(t) : n + 1 \in 1..Len(s) /\ t[n] = s[n + 1]
      /\ \A n \in 2..Len(s) : n - 1 \in 1..Len(t) /\ t[n - 1] = s[n]
  BY FirstAndRest
<1> HIDE DEF t
<1>2. \A n \in 1..Len(t) : LineFits(t[n], c)
  BY <1>1
<1>3. Lead(t)
  <2> SUFFICES ASSUME NEW n \in 1..Len(t), t[n].what = "namespace"
               PROVE  n < Len(t) /\ Leads(t[n], t[n + 1])
    BY DEF Lead
  <2>1. n + 1 \in 1..Len(s) /\ t[n] = s[n + 1]
    BY <1>1
  <2>2. n + 1 < Len(s) /\ Leads(s[n + 1], s[n + 1 + 1])
    BY <2>1 DEF Lead
  <2>3. n < Len(t) /\ n + 1 \in 1..Len(t)
    BY <1>1, <2>2
  <2>4. t[n + 1] = s[n + 1 + 1]
    BY <1>1, <2>3
  <2> QED
    BY <2>1, <2>2, <2>3, <2>4
<1>4. Led(t)
  <2> SUFFICES ASSUME NEW n \in 2..Len(t), NeedsScope(t[n])
               PROVE  t[n - 1].what = "namespace"
    BY DEF Led
  <2>1. n \in 1..Len(t) /\ n - 1 \in 1..Len(t) /\ n - 1 + 1 = n /\ n + 1 - 1 = n
    BY <1>1
  <2>2. t[n] = s[n + 1] /\ t[n - 1] = s[n]
    <3>1. t[n - 1] = s[n - 1 + 1]
      BY <1>1, <2>1
    <3> QED
      BY <1>1, <2>1, <3>1
  <2>3. n + 1 \in 2..Len(s)
    BY <1>1, <2>1
  <2>4. s[n + 1 - 1].what = "namespace"
    BY <2>2, <2>3 DEF Led
  <2> QED
    BY <2>1, <2>2, <2>4
<1>5. PropertiesLast(t)
  <2> SUFFICES ASSUME NEW n \in 1..Len(t), NEW k \in 1..Len(t),
                      IsProperty(t[n]), t[k].what = "namespace"
               PROVE  k < n
    BY DEF PropertiesLast
  <2>1. n + 1 \in 1..Len(s) /\ t[n] = s[n + 1] /\ k + 1 \in 1..Len(s) /\ t[k] = s[k + 1]
    BY <1>1
  <2>2. k + 1 < n + 1
    BY <2>1 DEF PropertiesLast
  <2> QED
    BY <2>2
<1>6. ASSUME t # <<>>, NeedsScope(t[1]) PROVE s[1].what = "namespace" /\ Leads(s[1], t[1])
  <2>1. Len(t) >= 1 /\ 1 \in 1..Len(t) /\ 2 \in 2..Len(s) /\ 1 \in 1..Len(s)
    BY <1>1, <1>6
  <2>2. t[1] = s[2]
    <3>1. t[1] = s[1 + 1]
      BY <1>1, <2>1
    <3> QED
      BY <3>1
  <2>3. s[2 - 1].what = "namespace"
    BY <1>6, <2>1, <2>2 DEF Led
  <2>4. s[1].what = "namespace"
    BY <2>3
  <2>5. Leads(s[1], s[1 + 1])
    BY <2>1, <2>4 DEF Lead
  <2> QED
    BY <2>2, <2>4, <2>5
<1>7. Some(t) => Some(s)
  BY <1>1 DEF Some
<1>8. SomeProperty(t) => SomeProperty(s)
  BY <1>1 DEF SomeProperty
<1>9. ASSUME SomeNamespace(s), ~IsNamespace(s[1]) PROVE SomeNamespace(t)
  <2>1. PICK n \in 1..Len(s) : IsNamespace(s[n])
    BY <1>9 DEF SomeNamespace
  <2>2. n # 1
    BY <1>9, <2>1
  <2>3. n \in 2..Len(s)
    BY <1>1, <2>2
  <2> QED
    BY <1>1, <2>1, <2>3 DEF SomeNamespace
<1> QED
  BY <1>2, <1>3, <1>4, <1>5, <1>6, <1>7, <1>8, <1>9 DEF t

\* The class is the first of the lines, or one after it.
LEMMA PendingRest ==
  ASSUME NEW s \in Seq(LineType), s # <<>>, Pending(s)
  PROVE  \/ /\ s[1].what = "declare" /\ s[1].level = 0
            /\ \A n \in 1..Len(Tail(s)) : Tail(s)[n].level # 0
         \/ ~IsInner(s[1]) /\ Pending(Tail(s))
<1> DEFINE t == Tail(s)
<1>1. /\ Len(s) \in Nat /\ Len(s) >= 1
      /\ t \in Seq(LineType) /\ Len(t) = Len(s) - 1
      /\ \A n \in 1..Len(t) : n + 1 \in 1..Len(s) /\ t[n] = s[n + 1]
      /\ \A n \in 2..Len(s) : n - 1 \in 1..Len(t) /\ t[n - 1] = s[n]
  BY FirstAndRest
<1> HIDE DEF t
<1>2. PICK m \in 1..Len(s) :
        /\ s[m].what = "declare" /\ s[m].level = 0
        /\ \A k \in 1..m-1 : ~IsInner(s[k])
        /\ \A k \in m+1..Len(s) : s[k].level # 0
  BY DEF Pending
<1>3. CASE m = 1
  <2>1. \A n \in 1..Len(t) : n + 1 \in m+1..Len(s)
    BY <1>1, <1>3
  <2>2. \A n \in 1..Len(t) : t[n].level # 0
    BY <1>1, <1>2, <2>1
  <2> QED
    BY <1>2, <1>3, <2>2 DEF t
<1>4. CASE m # 1
  <2>1. m \in 2..Len(s) /\ 1 \in 1..m-1
    BY <1>1, <1>4
  <2>2. m - 1 \in 1..Len(t) /\ t[m - 1] = s[m]
    BY <1>1, <2>1
  <2>3. ASSUME NEW k \in 1..m-1-1 PROVE ~IsInner(t[k])
    <3>1. k \in 1..Len(t) /\ k + 1 \in 1..m-1
      BY <1>1, <2>2
    <3> QED
      BY <1>1, <1>2, <3>1
  <2>4. ASSUME NEW k \in m-1+1..Len(t) PROVE t[k].level # 0
    <3>1. k \in 1..Len(t) /\ k + 1 \in m+1..Len(s)
      BY <1>1, <2>2
    <3> QED
      BY <1>1, <1>2, <3>1
  <2>5. Pending(t)
    BY <1>2, <2>2, <2>3, <2>4 DEF Pending
  <2> QED
    BY <1>2, <2>1, <2>5 DEF t
<1> QED
  BY <1>3, <1>4

\* A scope is of what it names.
LEMMA Symbols ==
  ASSUME NEW e \in Entities \cup {Global}, NEW parameters \in BOOLEAN
  PROVE  Symbol(e, parameters) \in SymbolType /\ Symbol(e, parameters).of = e
<1>1. (parameters /\ e \in Templates) \in BOOLEAN
  OBVIOUS
<1> QED
  BY <1>1 DEF Symbol, SymbolType

\* The next line of the content, and where it stands.
LEMMA NextLine ==
  ASSUME ScopesTypes, InContent
  PROVE  /\ rst # <<>> /\ Head(rst) = rst[1] /\ rst[1] \in LineType /\ 1 \in 1..Len(rst)
         /\ Len(open) \in Nat /\ Len(open) <= rst[1].level
         /\ next \in 2..Len(document)+1
<1>1. /\ rst \in Seq(LineType) /\ open \in Seq([level : Nat, scope : SymbolType])
      /\ \A n \in 1..Len(open) : open[n].level = n - 1
      /\ next \in 1..Len(document)+1 /\ (next = 1 => rst = <<>>)
  BY DEF ScopesTypes
<1>2. rst # <<>>
  BY DEF InContent
<1>3. Head(rst) = rst[1] /\ rst[1] \in LineType /\ 1 \in 1..Len(rst)
  BY <1>1, <1>2, FirstAndRest
<1>4. rst[1].level \in Nat
  BY <1>3 DEF LineType
<1>5. Len(open) <= rst[1].level /\ Len(open) \in Nat
  <2>1. CASE open = <<>>
    BY <1>4, <2>1
  <2>2. CASE open # <<>>
    <3>1. Last(open) = open[Len(open)]
      BY DEF Last
    <3>2. Len(open) \in Nat /\ Len(open) \in 1..Len(open)
      BY <1>1, <2>2
    <3>3. Last(open).level = Len(open) - 1
      BY <1>1, <3>1, <3>2
    <3>4. rst[1].level > Len(open) - 1
      BY <1>3, <2>2, <3>3 DEF InContent
    <3> QED
      BY <1>4, <3>2, <3>4
  <2> QED
    BY <2>1, <2>2
<1>6. next \in 2..Len(document)+1
  BY <1>1, <1>2
<1> QED
  BY <1>2, <1>3, <1>5, <1>6

\* The directive that is run, and what it shows.
LEMMA CurrentIs ==
  ASSUME ScopesTypes, next # 1
  PROVE  /\ Current \in Entities /\ Kind[Current] \in {"class", "function", "enum", "namespace"}
         /\ ShownOf(Current) \subseteq Shown
<1>1. document \in Documents /\ next \in 1..Len(document)+1
  BY DEF ScopesTypes
<1>2. /\ document \in Seq(Entities)
      /\ \A e \in ToSet(document) : Kind[e] \in {"class", "function", "enum", "namespace"}
  BY <1>1, ScopesAssumption
<1>3. Len(document) \in Nat /\ next - 1 \in 1..Len(document) /\ next - 1 \in 1..next-1
  BY <1>1, <1>2
<1>4. document[next - 1] \in Entities /\ document[next - 1] \in ToSet(document)
  BY <1>2, <1>3, Indexed
<1>5. ShownOf(document[next - 1]) \subseteq Shown
  BY <1>3 DEF Shown, ShownOf
<1> QED
  BY <1>2, <1>4, <1>5 DEF Current

\* A line of a member stands in the content of the class.
LEMMA InnerLine ==
  ASSUME ScopesTypes, RstInv, MembersInv, InContent, IsInner(rst[1])
  PROVE  /\ rst[1].level = 1 /\ Len(open) = 1 /\ Kind[Current] = "class"
         /\ \A n \in 1..Len(rst) : rst[n].level # 0
         /\ SomeProperty(rst) => \/ Base(1) = OwnScope(Current)
                                 \/ HasFunctions(Current) /\ SomeNamespace(rst)
<1>1. rst # <<>> /\ 1 \in 1..Len(rst) /\ Len(open) \in Nat /\ Len(open) <= rst[1].level
  BY NextLine
<1>2. Some(rst)
  BY <1>1 DEF Some
<1>3. ~Pending(rst)
  <2> SUFFICES ASSUME Pending(rst) PROVE FALSE
    OBVIOUS
  <2>1. rst \in Seq(LineType)
    BY DEF ScopesTypes
  <2>2. ~IsInner(rst[1]) \/ (rst[1].what = "declare" /\ rst[1].level = 0)
    BY <1>1, <2>1, PendingRest
  <2> QED
    BY <2>2 DEF IsInner
<1>4. rst[1].level = 1 /\ Kind[Current] = "class"
  BY <1>1 DEF RstInv, LineFits
<1>5. /\ open # <<>> /\ \A n \in 1..Len(rst) : rst[n].level # 0
      /\ SomeProperty(rst) => \/ Base(1) = OwnScope(Current)
                              \/ HasFunctions(Current) /\ SomeNamespace(rst)
  BY <1>2, <1>3, Zenon DEF MembersInv
<1>6. Len(open) # 0
  BY <1>5 DEF ScopesTypes
<1>7. Len(open) = 1
  <2>1. Len(open) <= 1
    BY <1>1, <1>4
  <2>2. \A k \in Nat : k <= 1 /\ k # 0 => k = 1
    OBVIOUS
  <2> QED
    BY <1>1, <1>6, <2>1, <2>2, Zenon
<1> QED
  BY <1>4, <1>5, <1>7

\* Before the first directive nothing is written, open or declared.
LEMMA ScopesInitInv == ScopesInit => ScopesInv
<1> SUFFICES ASSUME ScopesInit PROVE ScopesInv
  OBVIOUS
<1>1. /\ document \in Documents /\ next = 1 /\ rst = <<>> /\ open = <<>> /\ declared = {}
      /\ scope = Symbol(Global, FALSE)
  BY DEF ScopesInit
<1>2. document \in Seq(Entities)
  BY <1>1, ScopesAssumption
<1>3. scope \in SymbolType /\ scope.of = Global
  BY <1>1, Symbols
<1>4. rst \in Seq(LineType) /\ open \in Seq([level : Nat, scope : SymbolType])
      /\ Len(rst) = 0 /\ Len(open) = 0
  BY <1>1
<1>5. ScopesTypes
  <2>1. next \in 1..Len(document)+1
    BY <1>1, <1>2
  <2>2. \A n \in 1..Len(open) : open[n].level = n - 1
    BY <1>4
  <2> QED
    BY <1>1, <1>3, <1>4, <2>1, <2>2, Zenon DEF ScopesTypes
<1>6. RstInv
  <2>1. \A n \in 1..Len(rst) : FALSE
    BY <1>4
  <2>2. \A n \in 2..Len(rst) : FALSE
    BY <1>4
  <2>3. Lead(rst) /\ Led(rst) /\ PropertiesLast(rst)
    BY <2>1, <2>2, Zenon DEF Lead, Led, PropertiesLast
  <2> QED
    BY <1>1, <2>1, <2>3, Zenon DEF RstInv
<1>7. MembersInv
  BY <1>4 DEF MembersInv, Some
<1>8. MarginInv
  BY <1>3, <1>4 DEF MarginInv, Base
<1>9. DeclaredInv
  BY <1>1 DEF DeclaredInv
<1> QED
  BY <1>5, <1>6, <1>7, <1>8, <1>9 DEF ScopesInv

\* A directive writes lines that fit it, where no content is open.
LEMMA RunDirectiveKeeps ==
  ASSUME ScopesInv, RunDirective
  PROVE  ScopesInv'
<1> DEFINE e == document[next]
<1>1. /\ rst = <<>> /\ open = <<>> /\ next \in DOMAIN document
      /\ rst' = DirectiveLines(e) /\ next' = next + 1
      /\ document' = document /\ scope' = scope /\ open' = open /\ declared' = declared
  BY DEF RunDirective
<1>2. /\ document \in Documents /\ next \in 1..Len(document)+1
      /\ scope \in SymbolType /\ open \in Seq([level : Nat, scope : SymbolType])
      /\ \A n \in 1..Len(open) : open[n].level = n - 1
  BY DEF ScopesInv, ScopesTypes
<1>3. /\ document \in Seq(Entities) /\ Len(document) \in Nat
      /\ \A m \in ToSet(document) : Kind[m] \in {"class", "function", "enum", "namespace"}
  BY <1>2, ScopesAssumption
<1>4. next \in 1..Len(document) /\ next \in Nat /\ next + 1 # 1 /\ next + 1 - 1 = next
  BY <1>1, <1>2, <1>3
<1>5. e \in Entities /\ Kind[e] \in {"class", "function", "enum", "namespace"}
  BY <1>3, <1>4, Indexed
<1>6. Current' = e
  BY <1>1, <1>4 DEF Current
<1> HIDE DEF e
<1>7. Written(rst', e)
  BY <1>1, <1>5, DirectiveWrites
<1>8. rst' \in Seq(LineType) /\ Scoped(rst')
  BY <1>7 DEF Written, ScopedLines
<1>9. ScopesTypes'
  <2>1. next' \in 1..Len(document')+1 /\ next' # 1
    BY <1>1, <1>3, <1>4
  <2> QED
    BY <1>1, <1>2, <1>8, <2>1 DEF ScopesTypes
<1>10. RstInv'
  <2>1. \A n \in 1..Len(rst') : LineFits(rst'[n], e)
    BY <1>7, <1>8, Indexed DEF Written
  <2>2. Lead(rst') /\ Led(rst')
    BY <1>8 DEF Scoped
  <2>3. PropertiesLast(rst')
    BY <1>7 DEF Written
  <2>4. rst' # <<>> => ~NeedsScope(rst'[1])
    <3>1. rst' # <<>> => Len(rst') > 0
      BY <1>8
    <3> QED
      BY <1>8, <3>1, Zenon DEF Scoped
  <2> QED
    BY <1>6, <2>1, <2>2, <2>3, <2>4, Zenon DEF RstInv
<1>11. MembersInv'
  <2>1. Some(rst') => Pending(rst')
    BY <1>7, Zenon DEF Written
  <2>2. SomeProperty(rst') /\ HasFunctions(e) => SomeNamespace(rst')
    BY <1>7, Zenon DEF Written
  <2> QED
    BY <1>6, <2>1, <2>2, Zenon DEF MembersInv
<1>12. MarginInv'
  <2>1. Base(0)' = Base(0)
    BY <1>1 DEF Base
  <2>2. Shown \subseteq Shown'
    <3>1. \A n \in 1..next-1 : n \in 1..next'-1
      BY <1>1, <1>4
    <3> QED
      BY <1>1, <3>1 DEF Shown
  <2>3. Base(0).of \in {Global} \cup {Parent[m] : m \in Shown}
    BY DEF ScopesInv, MarginInv
  <2>4. Base(0)'.of \in {Global} \cup {Parent[m] : m \in Shown'}
    BY <2>1, <2>2, <2>3
  <2> QED
    BY <2>4 DEF MarginInv
<1>13. DeclaredInv'
  BY <1>1 DEF ScopesInv, DeclaredInv
<1> QED
  BY <1>9, <1>10, <1>11, <1>12, <1>13 DEF ScopesInv

\* The end of a content restores the scope it was entered from.
LEMMA LeaveContentKeeps ==
  ASSUME ScopesInv, LeaveContent
  PROVE  ScopesInv'
<1>1. /\ open # <<>> /\ ~InContent /\ scope' = Last(open).scope /\ open' = Front(open)
      /\ document' = document /\ next' = next /\ rst' = rst /\ declared' = declared
  BY DEF LeaveContent
<1>2. ScopesTypes /\ RstInv /\ MembersInv /\ MarginInv /\ DeclaredInv
  BY DEF ScopesInv
<1>3. /\ open \in Seq([level : Nat, scope : SymbolType]) /\ rst \in Seq(LineType)
      /\ \A n \in 1..Len(open) : open[n].level = n - 1
      /\ next = 1 => rst = <<>> /\ open = <<>>
  BY <1>2 DEF ScopesTypes
<1>4. /\ Len(open) \in Nat /\ Len(open) >= 1 /\ Len(open) \in 1..Len(open)
      /\ Last(open) = open[Len(open)]
  BY <1>1, <1>3 DEF Last
<1>5. /\ open' \in Seq([level : Nat, scope : SymbolType]) /\ Len(open') = Len(open) - 1
      /\ \A n \in 1..Len(open') : n \in 1..Len(open) /\ open'[n] = open[n]
  BY <1>1, <1>3, FrontLists
<1>6. scope' = open[Len(open)].scope /\ scope' \in SymbolType
  <2>1. open[Len(open)] \in [level : Nat, scope : SymbolType]
    BY <1>1, <1>3, FrontLists
  <2> QED
    BY <1>1, <1>4, <2>1
<1>7. ASSUME NEW k \in Nat, Len(open) > k PROVE Base(k)' = Base(k)
  <2>1. Base(k) = open[k + 1].scope
    BY <1>7 DEF Base
  <2>2. CASE Len(open') > k
    <3>1. k + 1 \in 1..Len(open')
      BY <1>4, <1>5, <2>2
    <3>2. open'[k + 1] = open[k + 1]
      BY <1>5, <3>1
    <3> QED
      BY <2>1, <2>2, <3>2 DEF Base
  <2>3. CASE ~(Len(open') > k)
    <3>1. k + 1 = Len(open)
      BY <1>4, <1>5, <1>7, <2>3
    <3>2. Base(k)' = scope'
      BY <2>3 DEF Base
    <3> QED
      BY <1>6, <2>1, <3>1, <3>2
  <2> QED
    BY <2>2, <2>3
<1>8. rst # <<>> => rst[1] \in LineType /\ rst[1].level <= Len(open) - 1
  <2> SUFFICES ASSUME rst # <<>> PROVE rst[1] \in LineType /\ rst[1].level <= Len(open) - 1
    OBVIOUS
  <2>1. Head(rst) = rst[1] /\ rst[1] \in LineType
    BY <1>3, FirstAndRest
  <2>2. rst[1].level \in Nat
    BY <2>1 DEF LineType
  <2>3. ~(rst[1].level > Last(open).level)
    BY <1>1, <2>1 DEF InContent
  <2>4. Last(open).level = Len(open) - 1
    BY <1>3, <1>4
  <2> QED
    BY <1>4, <2>1, <2>2, <2>3, <2>4
<1>9. ScopesTypes'
  <2>1. \A n \in 1..Len(open') : open'[n].level = n - 1
    BY <1>3, <1>5
  <2>2. next' # 1
    BY <1>1, <1>3
  <2> QED
    BY <1>1, <1>2, <1>5, <1>6, <2>1, <2>2 DEF ScopesTypes
<1>10. Current' = Current
  BY <1>1 DEF Current
<1>11. RstInv'
  <2>1. rst # <<>> => ~NeedsScope(rst[1])
    <3> SUFFICES ASSUME rst # <<>>, NeedsScope(rst[1]) PROVE FALSE
      OBVIOUS
    <3>1. Len(open) <= rst[1].level /\ rst[1].level <= Len(open) - 1
      BY <1>2, <1>8 DEF RstInv
    <3>2. rst[1].level \in Nat
      BY <1>8 DEF LineType
    <3> QED
      BY <1>4, <3>1, <3>2
  <2>2. /\ \A n \in 1..Len(rst) : LineFits(rst[n], Current)
        /\ Lead(rst) /\ Led(rst) /\ PropertiesLast(rst)
    BY <1>2 DEF RstInv
  <2> QED
    BY <1>1, <1>10, <2>1, <2>2, Zenon DEF RstInv
<1>12. MembersInv'
  <2> SUFFICES ASSUME Some(rst) PROVE MembersInv'
    BY <1>1, Zenon DEF MembersInv
  <2>1. CASE Pending(rst) /\ (SomeProperty(rst) /\ HasFunctions(Current) => SomeNamespace(rst))
    BY <1>1, <1>10, <2>1, Zenon DEF MembersInv
  <2>2. CASE /\ open # <<>> /\ \A n \in 1..Len(rst) : rst[n].level # 0
             /\ SomeProperty(rst) => \/ Base(1) = OwnScope(Current)
                                     \/ HasFunctions(Current) /\ SomeNamespace(rst)
    <3>1. rst # <<>> /\ 1 \in 1..Len(rst)
      <4>1. PICK n \in 1..Len(rst) : TRUE
        BY DEF Some
      <4> QED
        BY <1>3, <4>1
    <3>2. rst[1].level \in Nat /\ rst[1].level # 0 /\ rst[1].level <= Len(open) - 1
      BY <1>8, <2>2, <3>1 DEF LineType
    <3>3. Len(open) > 1
      BY <1>4, <3>2
    <3>4. Base(1)' = Base(1)
      BY <1>7, <3>3
    <3>5. open' # <<>>
      BY <1>4, <1>5, <3>3
    <3> QED
      BY <1>1, <1>10, <2>2, <3>4, <3>5, Zenon DEF MembersInv
  <2> QED
    BY <1>2, <2>1, <2>2, Zenon DEF MembersInv
<1>13. MarginInv'
  <2>1. Base(0)' = Base(0) /\ Shown' = Shown
    BY <1>1, <1>4, <1>7 DEF Shown
  <2> QED
    BY <1>2, <2>1, Zenon DEF MarginInv
<1>14. DeclaredInv'
  BY <1>1, <1>2 DEF DeclaredInv
<1> QED
  BY <1>9, <1>11, <1>12, <1>13, <1>14 DEF ScopesInv

\* What holds of the rest of the lines, when the first is read.
LEMMA RestOfLines ==
  ASSUME ScopesInv, InContent
  PROVE  /\ Tail(rst) \in Seq(LineType)
         /\ \A n \in 1..Len(Tail(rst)) : /\ LineFits(Tail(rst)[n], Current)
                                         /\ n + 1 \in 1..Len(rst)
                                         /\ Tail(rst)[n] = rst[n + 1]
         /\ Lead(Tail(rst)) /\ Led(Tail(rst)) /\ PropertiesLast(Tail(rst))
         /\ Tail(rst) # <<>> /\ NeedsScope(Tail(rst)[1]) =>
              rst[1].what = "namespace" /\ Leads(rst[1], Tail(rst)[1])
         /\ Some(Tail(rst)) => Some(rst)
         /\ SomeProperty(Tail(rst)) => SomeProperty(rst)
         /\ SomeNamespace(rst) /\ ~IsNamespace(rst[1]) => SomeNamespace(Tail(rst))
<1>1. rst \in Seq(LineType) /\ rst # <<>>
  BY NextLine DEF ScopesInv, ScopesTypes
<1>2. /\ \A n \in 1..Len(rst) : LineFits(rst[n], Current)
      /\ Lead(rst) /\ Led(rst) /\ PropertiesLast(rst)
  BY DEF ScopesInv, RstInv
<1>3. /\ Tail(rst) \in Seq(LineType)
      /\ \A n \in 1..Len(Tail(rst)) : n + 1 \in 1..Len(rst) /\ Tail(rst)[n] = rst[n + 1]
  BY <1>1, FirstAndRest
<1> QED
  BY <1>1, <1>2, <1>3, RestFits

\* A line that is not of a member, nor the class: the class is still to come.
LEMMA StillPending ==
  ASSUME ScopesInv, InContent, Some(Tail(rst)), ~IsInner(rst[1]),
         ~(rst[1].what = "declare" /\ rst[1].level = 0)
  PROVE  \/ /\ Pending(Tail(rst))
            /\ SomeProperty(Tail(rst)) /\ HasFunctions(Current) => SomeNamespace(Tail(rst))
         \/ /\ open # <<>> /\ \A n \in 1..Len(Tail(rst)) : Tail(rst)[n].level # 0
            /\ SomeProperty(Tail(rst)) => \/ Base(1) = OwnScope(Current)
                                          \/ HasFunctions(Current) /\ SomeNamespace(Tail(rst))
<1>1. rst \in Seq(LineType) /\ rst # <<>>
  BY NextLine DEF ScopesInv, ScopesTypes
<1>2. /\ \A n \in 1..Len(Tail(rst)) : n + 1 \in 1..Len(rst) /\ Tail(rst)[n] = rst[n + 1]
      /\ Some(rst)
      /\ SomeProperty(Tail(rst)) => SomeProperty(rst)
  BY RestOfLines
<1>3. SomeNamespace(rst) => SomeNamespace(Tail(rst))
  <2>1. ~IsNamespace(rst[1])
    BY DEF IsNamespace, IsInner
  <2> QED
    BY <2>1, RestOfLines
<1>4. CASE Pending(rst) /\ (SomeProperty(rst) /\ HasFunctions(Current) => SomeNamespace(rst))
  <2>1. Pending(Tail(rst))
    BY <1>1, <1>4, PendingRest
  <2> QED
    BY <1>2, <1>3, <1>4, <2>1, Zenon
<1>5. CASE /\ open # <<>> /\ \A n \in 1..Len(rst) : rst[n].level # 0
           /\ SomeProperty(rst) => \/ Base(1) = OwnScope(Current)
                                   \/ HasFunctions(Current) /\ SomeNamespace(rst)
  <2>1. \A n \in 1..Len(Tail(rst)) : Tail(rst)[n].level # 0
    BY <1>2, <1>5
  <2> QED
    BY <1>2, <1>3, <1>5, <2>1, Zenon
<1> QED
  BY <1>2, <1>4, <1>5, Zenon DEF ScopesInv, MembersInv

\* Text leaves the scope alone.
LEMMA TextKeeps ==
  ASSUME ScopesInv, Text
  PROVE  ScopesInv'
<1>1. /\ InContent /\ Head(rst).what = "text" /\ rst' = Tail(rst)
      /\ document' = document /\ next' = next /\ scope' = scope /\ open' = open
      /\ declared' = declared
  BY DEF Text
<1>2. ScopesTypes /\ RstInv /\ MembersInv /\ MarginInv /\ DeclaredInv
  BY DEF ScopesInv
<1>3. rst[1].what = "text" /\ next # 1
  BY <1>1, <1>2, NextLine
<1>4. Current' = Current /\ Base(0)' = Base(0) /\ Base(1)' = Base(1) /\ Shown' = Shown
  BY <1>1 DEF Current, Base, Shown
<1>5. ScopesTypes'
  BY <1>1, <1>2, <1>3, RestOfLines DEF ScopesTypes
<1>6. RstInv'
  <2>1. /\ \A n \in 1..Len(Tail(rst)) : LineFits(Tail(rst)[n], Current)
        /\ Lead(Tail(rst)) /\ Led(Tail(rst)) /\ PropertiesLast(Tail(rst))
        /\ Tail(rst) # <<>> => ~NeedsScope(Tail(rst)[1])
    BY <1>1, <1>3, RestOfLines
  <2> QED
    BY <1>1, <1>4, <2>1, Zenon DEF RstInv
<1>7. MembersInv'
  <2>1. ~IsInner(rst[1]) /\ ~(rst[1].what = "declare" /\ rst[1].level = 0)
    BY <1>3 DEF IsInner
  <2> QED
    BY <1>1, <1>4, <2>1, StillPending, Zenon DEF MembersInv
<1>8. MarginInv'
  BY <1>2, <1>4, Zenon DEF MarginInv
<1>9. DeclaredInv'
  BY <1>1, <1>2 DEF DeclaredInv
<1> QED
  BY <1>5, <1>6, <1>7, <1>8, <1>9 DEF ScopesInv

\* A namespace sets the scope for the name after it.
LEMMA NamespaceKeeps ==
  ASSUME ScopesInv, Namespace
  PROVE  ScopesInv'
<1>1. /\ InContent /\ Head(rst).what = "namespace" /\ rst' = Tail(rst)
      /\ scope' = Symbol(Head(rst).of, FALSE)
      /\ document' = document /\ next' = next /\ open' = open /\ declared' = declared
  BY DEF Namespace
<1>2. ScopesTypes /\ RstInv /\ MembersInv /\ MarginInv /\ DeclaredInv
  BY DEF ScopesInv
<1>3. /\ rst[1].what = "namespace" /\ next # 1 /\ rst # <<>> /\ rst[1] \in LineType
      /\ 1 \in 1..Len(rst) /\ Len(open) \in Nat /\ Len(open) <= rst[1].level
      /\ scope' = Symbol(rst[1].of, FALSE)
  <2>1. /\ rst # <<>> /\ Head(rst) = rst[1] /\ rst[1] \in LineType /\ 1 \in 1..Len(rst)
        /\ Len(open) \in Nat /\ Len(open) <= rst[1].level
        /\ next \in 2..Len(document)+1
    BY <1>1, <1>2, NextLine
  <2>2. next # 1
    BY <2>1
  <2> QED
    BY <1>1, <2>1, <2>2, Zenon
<1>4. rst[1].of \in Entities /\ rst[1].level \in 0..2 /\ LineFits(rst[1], Current)
  BY <1>2, <1>3 DEF LineType, RstInv
<1>5. Current' = Current /\ Shown' = Shown
  BY <1>1 DEF Current, Shown
<1>6. scope' \in SymbolType /\ scope'.of = rst[1].of
  BY <1>3, <1>4, Symbols
<1>7. ScopesTypes'
  BY <1>1, <1>2, <1>3, <1>6, RestOfLines DEF ScopesTypes
<1>8. RstInv'
  <2>1. /\ \A n \in 1..Len(Tail(rst)) : LineFits(Tail(rst)[n], Current)
        /\ Lead(Tail(rst)) /\ Led(Tail(rst)) /\ PropertiesLast(Tail(rst))
    BY <1>1, RestOfLines
  <2>2. ASSUME Tail(rst) # <<>>, NeedsScope(Tail(rst)[1])
        PROVE  scope' = Symbol(Parent[Tail(rst)[1].of], FALSE) /\ Len(open) <= Tail(rst)[1].level
    <3>1. Leads(rst[1], Tail(rst)[1])
      BY <1>1, <2>2, RestOfLines
    <3>2. rst[1].of = Parent[Tail(rst)[1].of] /\ Tail(rst)[1].level = rst[1].level
      BY <3>1 DEF Leads
    <3> QED
      BY <1>3, <3>2
  <2> QED
    BY <1>1, <1>5, <2>1, <2>2, Zenon DEF RstInv
<1>9. MembersInv'
  <2> SUFFICES ASSUME Some(Tail(rst)) PROVE MembersInv'
    BY <1>1, Zenon DEF MembersInv
  <2>1. CASE ~IsInner(rst[1])
    <3>1. \/ /\ Pending(Tail(rst))
             /\ SomeProperty(Tail(rst)) /\ HasFunctions(Current) => SomeNamespace(Tail(rst))
          \/ /\ open # <<>> /\ \A n \in 1..Len(Tail(rst)) : Tail(rst)[n].level # 0
             /\ SomeProperty(Tail(rst)) => \/ Base(1) = OwnScope(Current)
                                           \/ HasFunctions(Current) /\ SomeNamespace(Tail(rst))
      BY <1>1, <1>3, <2>1, StillPending
    <3>2. rst[1].level = 0
      BY <1>3, <2>1 DEF IsInner
    <3>3. open = <<>>
      <4>1. Len(open) = 0
        BY <1>3, <3>2
      <4>2. open \in Seq([level : Nat, scope : SymbolType])
        BY <1>2 DEF ScopesTypes
      <4> QED
        BY <4>1, <4>2
    <3> QED
      BY <1>1, <1>5, <3>1, <3>3, Zenon DEF MembersInv
  <2>2. CASE IsInner(rst[1])
    <3>1. /\ rst[1].level = 1 /\ Len(open) = 1
          /\ \A n \in 1..Len(rst) : rst[n].level # 0
      BY <1>1, <1>2, <2>2, InnerLine
    <3>2. rst[1].of = Current /\ HasFunctions(Current)
      BY <1>3, <1>4, <3>1 DEF LineFits, IsNamespace
    <3>3. Base(1)' = OwnScope(Current)
      <4>1. Base(1)' = scope'
        BY <1>1, <3>1 DEF Base
      <4>2. OwnScope(Current) = Symbol(Current, FALSE)
        BY <3>2 DEF OwnScope
      <4> QED
        BY <1>3, <3>2, <4>1, <4>2
    <3>4. \A n \in 1..Len(Tail(rst)) : Tail(rst)[n].level # 0
      BY <1>1, <3>1, RestOfLines
    <3>5. open # <<>>
      BY <3>1, SMTT(30)
    <3> QED
      BY <1>1, <1>5, <3>3, <3>4, <3>5, Zenon DEF MembersInv
  <2> QED
    BY <2>1, <2>2
<1>10. MarginInv'
  <2>1. CASE Len(open) > 0
    <3>1. Base(0)' = Base(0)
      BY <1>1, <2>1 DEF Base
    <3> QED
      BY <1>2, <1>5, <3>1, Zenon DEF MarginInv
  <2>2. CASE ~(Len(open) > 0)
    <3>1. Base(0)' = scope'
      BY <1>1, <2>2 DEF Base
    <3>2. ~IsInner(rst[1])
      <4>1. IsInner(rst[1]) => Len(open) = 1
        BY <1>1, <1>2, InnerLine
      <4> QED
        BY <2>2, <4>1
    <3>3. rst[1].level = 0
      BY <1>3, <3>2 DEF IsInner
    <3>4. PICK e \in ShownOf(Current) : rst[1].of = Parent[e]
      BY <1>3, <1>4, <3>3 DEF LineFits
    <3>5. e \in Shown
      BY <1>2, <1>3, CurrentIs
    <3>6. Base(0)'.of \in {Global} \cup {Parent[m] : m \in Shown'}
      BY <1>5, <1>6, <3>1, <3>4, <3>5
    <3> QED
      BY <3>6 DEF MarginInv
  <2> QED
    BY <2>1, <2>2
<1>11. DeclaredInv'
  BY <1>1, <1>2 DEF DeclaredInv
<1> QED
  BY <1>7, <1>8, <1>9, <1>10, <1>11 DEF ScopesInv

\* A name is declared where its namespace, or its class, has put the scope.
LEMMA DeclareKeeps ==
  ASSUME ScopesInv, Declare
  PROVE  ScopesInv'
<1> DEFINE o == [level |-> Head(rst).level, scope |-> scope]
           d == [entity |-> Head(rst).of, in |-> scope]
<1>1. /\ InContent /\ Head(rst).what = "declare" /\ rst' = Tail(rst)
      /\ declared' = declared \cup {d} /\ open' = Append(open, o)
      /\ scope' = Symbol(Head(rst).of, TRUE)
      /\ document' = document /\ next' = next
  BY DEF Declare
<1>2. ScopesTypes /\ RstInv /\ MembersInv /\ MarginInv /\ DeclaredInv
  BY DEF ScopesInv
<1>3. /\ rst # <<>> /\ Head(rst) = rst[1] /\ rst[1] \in LineType /\ 1 \in 1..Len(rst)
      /\ Len(open) \in Nat /\ Len(open) <= rst[1].level
      /\ next \in 2..Len(document)+1
  BY <1>1, <1>2, NextLine
<1>4. next # 1 /\ rst[1].what = "declare" /\ scope' = Symbol(rst[1].of, TRUE)
  <2>1. next # 1
    BY <1>3
  <2> QED
    BY <1>1, <1>3, <2>1, Zenon
<1>5. rst[1].of \in Entities /\ rst[1].level \in 0..2 /\ LineFits(rst[1], Current)
  BY <1>2, <1>3 DEF LineType, RstInv
<1>6. Current' = Current /\ Shown' = Shown
  BY <1>1 DEF Current, Shown
<1>7. scope \in SymbolType /\ open \in Seq([level : Nat, scope : SymbolType])
      /\ \A n \in 1..Len(open) : open[n].level = n - 1
  BY <1>2 DEF ScopesTypes
<1>8. o.level = rst[1].level /\ o.scope = scope /\ o \in [level : Nat, scope : SymbolType]
  BY <1>3, <1>5, <1>7
<1>9. d.entity = rst[1].of /\ d.in = scope
  BY <1>3
<1> HIDE DEF o, d
<1>10. /\ open' \in Seq([level : Nat, scope : SymbolType]) /\ Len(open') = Len(open) + 1
       /\ open'[Len(open) + 1] = o
       /\ \A n \in 1..Len(open) : open'[n] = open[n]
       /\ \A n \in 1..Len(open') : n \in 1..Len(open) \/ n = Len(open) + 1
  BY <1>1, <1>7, <1>8, AppendLists
\* A class, or a member in the content of its class.
<1>11. \/ rst[1].level = 0 /\ Len(open) = 0 /\ ~IsInner(rst[1])
       \/ /\ rst[1].level = 1 /\ Len(open) = 1 /\ Kind[Current] = "class"
          /\ \A n \in 1..Len(rst) : rst[n].level # 0
          /\ SomeProperty(rst) => \/ Base(1) = OwnScope(Current)
                                  \/ HasFunctions(Current) /\ SomeNamespace(rst)
  <2>1. CASE IsInner(rst[1])
    BY <1>1, <1>2, <2>1, InnerLine
  <2>2. CASE ~IsInner(rst[1])
    <3>1. rst[1].level = 0
      BY <1>4, <2>2 DEF IsInner
    <3> QED
      BY <1>3, <2>2, <3>1
  <2> QED
    BY <2>1, <2>2
<1>12. Len(open) = rst[1].level
  <2>1. CASE rst[1].level = 0 /\ Len(open) = 0
    BY <2>1, Zenon
  <2>2. CASE rst[1].level = 1 /\ Len(open) = 1
    BY <2>2, Zenon
  <2> QED
    BY <1>11, <2>1, <2>2, Zenon
<1>13. Base(0)' = Base(0)
  <2>1. Base(0)' = open'[1].scope
    BY <1>3, <1>10 DEF Base
  <2>2. CASE Len(open) = 0
    BY <1>8, <1>10, <2>1, <2>2 DEF Base
  <2>3. CASE Len(open) > 0
    <3>1. 1 \in 1..Len(open)
      BY <1>3, <2>3
    <3> QED
      BY <1>10, <2>1, <2>3, <3>1 DEF Base
  <2> QED
    BY <1>3, <2>2, <2>3
<1>14. scope' \in SymbolType
  BY <1>4, <1>5, Symbols
<1>15. ScopesTypes'
  <2>1. \A n \in 1..Len(open') : open'[n].level = n - 1
    <3> SUFFICES ASSUME NEW n \in 1..Len(open') PROVE open'[n].level = n - 1
      OBVIOUS
    <3>1. CASE n \in 1..Len(open)
      BY <1>7, <1>10, <3>1
    <3>2. CASE n = Len(open) + 1
      <4>1. open'[n].level = Len(open)
        BY <1>8, <1>10, <1>12, <3>2, Zenon
      <4> QED
        BY <1>3, <3>2, <4>1
    <3> QED
      BY <1>10, <3>1, <3>2
  <2>2. rst' \in Seq(LineType)
    BY <1>1, RestOfLines
  <2> QED
    BY <1>1, <1>2, <1>4, <1>10, <1>14, <2>1, <2>2 DEF ScopesTypes
<1>16. RstInv'
  <2>1. /\ \A n \in 1..Len(Tail(rst)) : LineFits(Tail(rst)[n], Current)
        /\ Lead(Tail(rst)) /\ Led(Tail(rst)) /\ PropertiesLast(Tail(rst))
        /\ Tail(rst) # <<>> => ~NeedsScope(Tail(rst)[1])
    BY <1>1, <1>4, RestOfLines
  <2> QED
    BY <1>1, <1>6, <2>1, Zenon DEF RstInv
<1>17. MembersInv'
  <2> SUFFICES ASSUME Some(Tail(rst)) PROVE MembersInv'
    BY <1>1, Zenon DEF MembersInv
  <2>1. Some(rst) /\ (SomeProperty(Tail(rst)) => SomeProperty(rst))
    BY <1>1, RestOfLines
  <2>2. SomeNamespace(rst) => SomeNamespace(Tail(rst))
    <3>1. ~IsNamespace(rst[1])
      BY <1>4 DEF IsNamespace
    <3> QED
      BY <1>1, <3>1, RestOfLines
  <2>3. open' # <<>>
    BY <1>3, <1>10
  <2>4. CASE rst[1].level = 0 /\ Len(open) = 0 /\ ~IsInner(rst[1])
    <3>1. open = <<>>
      BY <1>7, <2>4
    <3>2. /\ Pending(rst)
          /\ SomeProperty(rst) /\ HasFunctions(Current) => SomeNamespace(rst)
      BY <1>2, <2>1, <3>1, Zenon DEF MembersInv
    <3>3. CASE Pending(Tail(rst))
      BY <1>1, <1>6, <2>1, <2>2, <3>2, <3>3, Zenon DEF MembersInv
    <3>4. CASE \A n \in 1..Len(Tail(rst)) : Tail(rst)[n].level # 0
      <4>1. Kind[Current] = "class"
        <5>1. PICK n \in 1..Len(Tail(rst)) : IsInner(Tail(rst)[n])
          BY DEF Some
        <5>2. LineFits(Tail(rst)[n], Current)
          BY <1>1, RestOfLines
        <5> QED
          BY <5>1, <5>2 DEF LineFits
      <4>2. rst[1].of = Current
        BY <1>4, <1>5, <2>4, <4>1 DEF LineFits, ShownOf
      <4>3. Base(1)' = Symbol(Current, TRUE)
        BY <1>4, <1>10, <2>4, <4>2 DEF Base
      <4>4. ~HasFunctions(Current) => Base(1)' = OwnScope(Current)
        BY <4>3 DEF OwnScope
      <4> QED
        BY <1>1, <1>6, <2>1, <2>2, <2>3, <3>2, <3>4, <4>4, Zenon DEF MembersInv
    <3> QED
      BY <1>2, <1>3, <3>2, <3>3, <3>4, PendingRest DEF ScopesTypes
  <2>5. CASE /\ rst[1].level = 1 /\ Len(open) = 1
             /\ \A n \in 1..Len(rst) : rst[n].level # 0
             /\ SomeProperty(rst) => \/ Base(1) = OwnScope(Current)
                                     \/ HasFunctions(Current) /\ SomeNamespace(rst)
    <3>1. \A n \in 1..Len(Tail(rst)) : Tail(rst)[n].level # 0
      BY <1>1, <2>5, RestOfLines
    <3>2. Base(1)' = Base(1)
      BY <1>8, <1>10, <2>5 DEF Base
    <3> QED
      BY <1>1, <1>6, <2>1, <2>2, <2>3, <2>5, <3>1, <3>2, Zenon DEF MembersInv
  <2> QED
    BY <1>11, <2>4, <2>5
<1>18. MarginInv'
  BY <1>2, <1>6, <1>13, Zenon DEF MarginInv
<1>19. DeclaredInv'
  <2>1. d.entity \in Entities /\ d.in \in SymbolType
    BY <1>5, <1>7, <1>9
  <2>2. ASSUME Kind[d.entity] = "property"
        PROVE  /\ Parent[d.entity] \in Entities /\ Kind[Parent[d.entity]] = "class"
               /\ d.in = OwnScope(Parent[d.entity])
    <3>1. IsProperty(rst[1]) /\ rst[1].level # 0
      BY <1>4, <1>5, <1>9, <2>2 DEF LineFits, IsProperty
    <3>2. Parent[d.entity] = Current
      BY <1>5, <1>9, <3>1 DEF LineFits
    <3>3. /\ Len(open) = 1 /\ Kind[Current] = "class"
          /\ SomeProperty(rst) => \/ Base(1) = OwnScope(Current)
                                  \/ HasFunctions(Current) /\ SomeNamespace(rst)
      BY <1>11, <3>1
    <3>4. SomeProperty(rst)
      BY <1>3, <3>1 DEF SomeProperty
    <3>5. ~SomeNamespace(rst)
      <4> SUFFICES ASSUME NEW k \in 1..Len(rst), rst[k].what = "namespace" PROVE FALSE
        BY DEF SomeNamespace, IsNamespace
      <4>1. k < 1
        BY <1>2, <1>3, <3>1 DEF RstInv, PropertiesLast
      <4> QED
        BY <4>1
    <3>6. Base(1) = scope
      BY <3>3 DEF Base
    <3>7. d.in = OwnScope(Current)
      BY <1>9, <3>3, <3>4, <3>5, <3>6, Zenon
    <3>8. Current \in Entities
      BY <1>2, <1>4, CurrentIs
    <3> QED
      BY <3>2, <3>3, <3>7, <3>8
  <2>3. ASSUME Kind[d.entity] # "property", Parent[d.entity] # Global
        PROVE  d.in = Symbol(Parent[d.entity], FALSE)
    <3>1. NeedsScope(rst[1])
      BY <1>4, <1>9, <2>3 DEF NeedsScope
    <3> QED
      BY <1>2, <1>3, <1>9, <3>1 DEF RstInv
  <2>4. Kind[d.entity] = "function" => d.entity \in Documented
    BY <1>4, <1>5, <1>9 DEF LineFits
  <2> DEFINE Fits(x) ==
        /\ x.entity \in Entities /\ x.in \in SymbolType
        /\ Kind[x.entity] = "property" =>
             /\ Parent[x.entity] \in Entities /\ Kind[Parent[x.entity]] = "class"
             /\ x.in = OwnScope(Parent[x.entity])
        /\ Kind[x.entity] # "property" /\ Parent[x.entity] # Global =>
             x.in = Symbol(Parent[x.entity], FALSE)
        /\ Kind[x.entity] = "function" => x.entity \in Documented
  <2>5. Fits(d)
    BY <2>1, <2>2, <2>3, <2>4, Zenon
  <2>6. \A x \in declared : Fits(x)
    BY <1>2 DEF DeclaredInv
  <2>7. DeclaredInv' = \A x \in declared' : Fits(x)
    BY DEF DeclaredInv
  <2> HIDE DEF Fits
  <2> QED
    BY <1>1, <2>5, <2>6, <2>7
<1> QED
  BY <1>15, <1>16, <1>17, <1>18, <1>19 DEF ScopesInv

\* What the invariant says of the properties.
LEMMA ScopesInvMeans == ScopesInv => ScopesTypeOK /\ ScopesAreKept
<1> SUFFICES ASSUME ScopesInv PROVE ScopesTypeOK /\ ScopesAreKept
  OBVIOUS
<1>1. ScopesTypes /\ MarginInv /\ DeclaredInv
  BY DEF ScopesInv
<1>2. ScopesTypeOK
  <2>1. scope \in SymbolType /\ rst \in Seq(LineType)
        /\ open \in Seq([level : Nat, scope : SymbolType])
        /\ \A n \in 1..Len(open) : open[n].level = n - 1
    BY <1>1 DEF ScopesTypes
  <2>2. \A n \in DOMAIN rst : rst[n].of \in Entities /\ rst[n].level \in Nat
    <3>1. \A n \in DOMAIN rst : rst[n] \in LineType
      BY <2>1
    <3> QED
      BY <3>1 DEF LineType
  <2>3. \A n \in DOMAIN open : open[n].level = n - 1
    <3>1. DOMAIN open = 1..Len(open)
      BY <2>1
    <3> QED
      BY <2>1, <3>1, Zenon
  <2>4. scope.of \in Entities \cup {Global} /\ scope.template \in BOOLEAN
    BY <2>1, Zenon DEF SymbolType
  <2>5. \A d \in declared : d.entity \in Entities /\ d.in.of \in Entities \cup {Global}
    BY <1>1 DEF DeclaredInv, SymbolType
  <2> QED
    BY <2>2, <2>3, <2>4, <2>5, Zenon DEF ScopesTypeOK
<1>3. \A e : OwnScope(e).of = e /\ Symbol(e, FALSE).of = e
  BY DEF OwnScope, Symbol
<1>4. NamesAreInTheirScopes
  <2>1. ASSUME NEW d \in declared, Parent[d.entity] # Global
        PROVE  d.in.of = Parent[d.entity]
    BY <1>1, <1>3, <2>1 DEF DeclaredInv
  <2>2. ASSUME NEW d \in declared, NEW e \in declared,
               Kind[d.entity] \in {"function", "property"}, Kind[e.entity] = "property",
               Parent[d.entity] = Parent[e.entity]
        PROVE  d.in = e.in
    <3>1. /\ Parent[e.entity] \in Entities /\ Kind[Parent[e.entity]] = "class"
          /\ e.in = OwnScope(Parent[e.entity])
      BY <1>1, <2>2 DEF DeclaredInv
    <3>2. CASE Kind[d.entity] = "property"
      BY <1>1, <2>2, <3>1, <3>2 DEF DeclaredInv
    <3>3. CASE Kind[d.entity] = "function"
      <4>1. d.entity \in Entities /\ d.entity \in Documented
        BY <1>1, <3>3 DEF DeclaredInv
      <4>2. d.in = Symbol(Parent[d.entity], FALSE)
        BY <1>1, <2>2, <3>1, <3>3, ScopesAssumption DEF DeclaredInv
      <4>3. d.entity \in ToSet(Members[Parent[d.entity]])
        BY <2>2, <3>1, <3>3, <4>1, ScopesAssumption
      <4>4. HasFunctions(Parent[d.entity])
        BY <3>3, <4>1, <4>3 DEF HasFunctions
      <4>5. OwnScope(Parent[d.entity]) = Symbol(Parent[d.entity], FALSE)
        BY <4>4 DEF OwnScope
      <4> QED
        BY <2>2, <3>1, <4>2, <4>5
    <3> QED
      BY <2>2, <3>2, <3>3
  <2> QED
    BY <2>1, <2>2 DEF NamesAreInTheirScopes
<1>5. NothingLeaks
  <2> SUFFICES ASSUME open = <<>> PROVE scope.of \in {Global} \cup {Parent[e] : e \in Shown}
    BY DEF NothingLeaks
  <2>1. Base(0) = scope
    BY DEF Base
  <2> QED
    BY <1>1, <2>1 DEF MarginInv
<1> QED
  BY <1>2, <1>4, <1>5 DEF ScopesAreKept

\* Every step keeps the invariant.
LEMMA ScopesStep == ScopesInv /\ [ScopesNext]_scopesVars => ScopesInv'
<1> SUFFICES ASSUME ScopesInv, [ScopesNext]_scopesVars PROVE ScopesInv'
  OBVIOUS
<1>1. CASE RunDirective
  BY <1>1, RunDirectiveKeeps
<1>2. CASE LeaveContent
  BY <1>2, LeaveContentKeeps
<1>3. CASE Text
  BY <1>3, TextKeeps
<1>4. CASE Namespace
  BY <1>4, NamespaceKeeps
<1>5. CASE Declare
  BY <1>5, DeclareKeeps
<1>6. CASE UNCHANGED scopesVars
  BY <1>6 DEF scopesVars, ScopesInv, ScopesTypes, RstInv, MembersInv, MarginInv, DeclaredInv,
              Current, Base, Shown
<1> QED
  BY <1>1, <1>2, <1>3, <1>4, <1>5, <1>6 DEF ScopesNext

\* The types of the scopes, of what is open and of what is declared.
THEOREM ScopesTypeCorrect == ScopesSpec => []ScopesTypeOK
<1>1. ScopesInit => ScopesInv
  BY ScopesInitInv
<1>2. ScopesInv /\ [ScopesNext]_scopesVars => ScopesInv'
  BY ScopesStep
<1>3. ScopesInv => ScopesTypeOK
  BY ScopesInvMeans
<1> QED
  BY <1>1, <1>2, <1>3, PTL DEF ScopesSpec

\* ScopesAreKept: whatever the directives of a document name, each name is declared in what
\* the headers declare it in, what is shown of a class in one symbol, and the
\* text between two directives in a scope that one of them shows.
THEOREM NamesAreDeclaredInPlace == ScopesSpec => []ScopesAreKept
<1>1. ScopesInit => ScopesInv
  BY ScopesInitInv
<1>2. ScopesInv /\ [ScopesNext]_scopesVars => ScopesInv'
  BY ScopesStep
<1>3. ScopesInv => ScopesAreKept
  BY ScopesInvMeans
<1> QED
  BY <1>1, <1>2, <1>3, PTL DEF ScopesSpec
=============================================================================
