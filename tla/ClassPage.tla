----------------------------- MODULE ClassPage -----------------------------
(***************************************************************************)
(* From the functions of a class to its page: PropertyTransformer makes    *)
(* properties of accessors, changing the tree in place; the last pass      *)
(* visits every description; ClassDirective writes what it finds, section  *)
(* by section.                                                             *)
(*                                                                         *)
(* Functions are named by their place in the XML.  Lists of functions only *)
(* ever lose elements, so a list is the set of the places left in it.  The *)
(* list of properties is a set, too: it follows the intersection of two    *)
(* sets of names, whose order changes from process to process.             *)
(***************************************************************************)
EXTENDS Naturals

CONSTANTS
  N,        \* number of public functions of the class
  Names     \* names of properties

ASSUME ClassAssumption == N \in Nat

Fun == 1..N

\* "Public Static Methods", "Constructors", "Public Methods", and the line
\* "Getter & Setter" of a property.
Sections == {"static", "constructors", "methods", "properties"}

VARIABLES
  dir,        \* function -> "get", "set" by its name, "ctor": no return type,
              \* "other"
  prop,       \* function -> x, if it is named get_x or set_x
  static,     \* the static functions
  functions,  \* the list of the class
  doc,        \* functions that have a doc
  properties, \* the properties made so far
  todo,       \* names still to be made properties
  visits,     \* function -> how often the description written at it is visited
  page,       \* what the page shows: [section, fun]
  pc

class == <<dir, prop, static>>
vars  == <<class, functions, doc, properties, todo, visits, page, pc>>

Init ==
  /\ dir \in [Fun -> {"get", "set", "ctor", "other"}]
  /\ prop \in [Fun -> Names]
  /\ static \in SUBSET {f \in Fun : dir[f] # "ctor"}
  /\ functions = Fun \ static
  /\ doc = Fun
  /\ properties = {} /\ todo = {}
  /\ visits = [f \in Fun |-> 0]
  /\ page = {}
  /\ pc = "loaded"

-----------------------------------------------------------------------------
(* PropertyTransformer.                                                    *)

\* The accessors of property x: the dictionary keeps the last overload.
Overloads(d, x) == {f \in Fun \ static : dir[f] = d /\ prop[f] = x}

\* Mutant: the first overload is kept.
IsAccessor_First(f, d, x) ==
  f \in Overloads(d, x) /\ \A g \in Overloads(d, x) : f <= g

IsAccessor(f, d, x) ==
  f \in Overloads(d, x) /\ \A g \in Overloads(d, x) : g <= f

\* Both dictionaries are complete before the first property is made.
Paired == {x \in Names : Overloads("get", x) # {} /\ Overloads("set", x) # {}}

CollectProperties ==
  /\ pc = "loaded" /\ pc' = "properties"
  /\ todo' = Paired
  /\ UNCHANGED <<class, functions, doc, properties, visits, page>>

Property(x, g, s, d) == [name |-> x, getter |-> g, setter |-> s, doc |-> d]

\* Mutant: the doc of the getter is dropped before the property takes it.
MakeProperty_DocFirst(x, g, s) ==
  /\ pc = "properties" /\ x \in todo
  /\ IsAccessor(g, "get", x) /\ IsAccessor(s, "set", x)
  /\ properties' = properties \cup {Property(x, g, s, FALSE)}
  /\ doc' = doc \ {g}
  /\ functions' = functions \ {g, s}
  /\ todo' = todo \ {x}
  /\ UNCHANGED <<class, visits, page, pc>>

\* Mutant: the setter is looked up by its full name, and never found.
MakeProperty_NoSetter(x, g, s) ==
  /\ pc = "properties" /\ x \in todo
  /\ IsAccessor(g, "get", x) /\ IsAccessor(s, "set", x)
  /\ properties' = properties \cup {Property(x, g, 0, g \in doc)}
  /\ doc' = doc \ {g}
  /\ functions' = functions \ {g}
  /\ todo' = todo \ {x}
  /\ UNCHANGED <<class, visits, page, pc>>

\* A property takes the doc of its getter, and both leave the list.
MakeProperty(x, g, s) ==
  /\ pc = "properties" /\ x \in todo
  /\ IsAccessor(g, "get", x) /\ IsAccessor(s, "set", x)
  /\ properties' = properties \cup {Property(x, g, s, g \in doc)}
  /\ doc' = doc \ {g}
  /\ functions' = functions \ {g, s}
  /\ todo' = todo \ {x}
  /\ UNCHANGED <<class, visits, page, pc>>

-----------------------------------------------------------------------------
(* RstDescriptionTransformer, and model.visit.                             *)

One(b) == IF b THEN 1 ELSE 0

\* The visitor comes to a description through every path to it: the lists of
\* functions, and each property with its own doc, its getter and its setter.
VisitsOf(f) ==
  One(f \in (functions \cup static) \cap doc)
  + One(\E p \in properties : p.getter = f /\ p.doc)
  + One(\E p \in properties : p.getter = f /\ f \in doc)
  + One(\E p \in properties : p.setter = f /\ f \in doc)

Describe ==
  /\ pc = "properties" /\ todo = {}
  /\ pc' = "transformed"
  /\ visits' = [f \in Fun |-> VisitsOf(f)]
  /\ UNCHANGED <<class, functions, doc, properties, todo, page>>

-----------------------------------------------------------------------------
(* ClassDirective.rst.                                                     *)

\* Mutant: methods are the functions that are no constructors or accessors.
Stands_ByName(s, f) ==
  \/ s = "static" /\ f \in static \cap doc
  \/ s = "constructors" /\ f \in functions \cap doc /\ dir[f] = "ctor"
  \/ s = "methods" /\ f \in functions \cap doc /\ dir[f] = "other"
  \/ s = "properties" /\ \E p \in properties : f \in {p.getter, p.setter}

\* What stands where: constructors are the functions without a return type, and
\* add_function_base writes nothing for a function without a doc.
Stands(s, f) ==
  \/ s = "static" /\ f \in static \cap doc
  \/ s = "constructors" /\ f \in functions \cap doc /\ dir[f] = "ctor"
  \/ s = "methods" /\ f \in functions \cap doc /\ dir[f] # "ctor"
  \/ s = "properties" /\ \E p \in properties : f \in {p.getter, p.setter}

Entries == [section : Sections, fun : Fun]

Render ==
  /\ pc = "transformed" /\ pc' = "done"
  /\ page' = {e \in Entries : Stands(e.section, e.fun)}
  /\ UNCHANGED <<class, functions, doc, properties, todo, visits>>

Next ==
  \/ CollectProperties
  \/ \E x \in Names, g, s \in Fun : MakeProperty(x, g, s)
  \/ Describe \/ Render

Spec == Init /\ [][Next]_vars

-----------------------------------------------------------------------------
\* Type invariant.
TypeOK ==
  /\ dir \in [Fun -> {"get", "set", "ctor", "other"}] /\ prop \in [Fun -> Names]
  /\ static \subseteq Fun /\ functions \subseteq Fun /\ doc \subseteq Fun
  /\ properties \subseteq [name : Names, getter : Fun, setter : Fun, doc : BOOLEAN]
  /\ todo \subseteq Names
  /\ visits \in [Fun -> Nat]
  /\ page \subseteq Entries
  /\ pc \in {"loaded", "properties", "transformed", "done"}

\* At every moment each public function is in exactly one place: a list of
\* functions, or one accessor of one property.
FunctionsPartitioned ==
  \A f \in Fun \ static :
    /\ f \in functions <=> ~\E p \in properties : f \in {p.getter, p.setter}
    /\ \A p, q \in properties :
         f \in {p.getter, p.setter} /\ f \in {q.getter, q.setter} => p = q
    /\ \A p \in properties : p.getter # p.setter

\* The accessors of a property are the last overloads of their name; the
\* others stay among the functions, where the page shows them.
LastOverloadWins ==
  /\ \A p \in properties, f \in Fun \ static :
       /\ dir[f] = "get" /\ prop[f] = p.name /\ f # p.getter
            => f < p.getter /\ f \in functions
       /\ dir[f] = "set" /\ prop[f] = p.name /\ f # p.setter
            => f < p.setter /\ f \in functions
  /\ \A p, q \in properties : p.name = q.name => p = q

\* Every description is transformed, and none twice although the property
\* shares the doc of its getter.
DescriptionsVisitedOnce ==
  pc = "transformed" => \A f \in Fun : visits[f] = 1

\* The page shows every public function, in one section only, and the sections
\* of properties shows what has both accessors and nothing else.
EveryFunctionShownOnce ==
  pc = "done" =>
    \A f \in Fun :
      /\ \E e \in page : e.fun = f
      /\ \A d, e \in page : d.fun = f /\ e.fun = f => d = e
      /\ [section |-> "properties", fun |-> f] \in page <=>
           \E x \in Names : \E g, s \in Fun \ static :
             /\ f \in {g, s}
             /\ dir[g] = "get" /\ dir[s] = "set" /\ prop[g] = x /\ prop[s] = x
             /\ \A h \in (Fun \ static) \ {f} :
                  dir[h] = dir[f] /\ prop[h] = x => h < f

\* Properties are made of what the headers call accessors: of the last overloads,
\* each of which is then gone from the functions, and of nothing else.
AccessorsBecomeProperties == FunctionsPartitioned /\ LastOverloadWins
=============================================================================
