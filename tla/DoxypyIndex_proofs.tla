------------------------- MODULE DoxypyIndex_proofs -------------------------
(***************************************************************************)
(* Proofs about DoxypyIndex, and about TagsPage, whose page is put together *)
(* from its answers: for every set of compounds, whatever they declare in  *)
(* whatever versions.                                                      *)
(***************************************************************************)
EXTENDS TagsPage, Recursion_proofs

\* One compound at most is the entry of a name.
LEMMA EntryUnique ==
  ASSUME NEW L \in SUBSET Compounds, NEW name,
         NEW c \in Compounds, NEW d \in Compounds,
         IsEntry(L, name, c), IsEntry(L, name, d)
  PROVE  c = d
<1>1. Position[d] <= Position[c] /\ Position[c] <= Position[d]
  BY DEF IsEntry
<1>2. Position[c] \in Nat /\ Position[d] \in Nat
  BY XmlAssumption
<1>3. Position[c] = Position[d]
  BY <1>1, <1>2
<1> QED
  BY <1>3, XmlAssumption

\* The compound a find has come to is the one its query calls for.
FindInv ==
  /\ stage = "closed" => tree = NoTrees /\ listed = {} /\ told = NothingTold
  /\ stage \in {"own", "inner"} => query \in Queries /\ at \in Compounds
  /\ stage = "own" => IsEntry(listed, query, at)
  /\ stage = "inner" => ~HasEntry(listed, query) /\ IsEntry(listed, ParentOf(query), at)

CompoundAnswer(q, r, c) ==
  /\ IsEntry(listed, q, c) /\ tree[c] # None
  /\ r = Answered(q, "compound", c, tree[c].ver, 0, tree[c].passes)

MemberAnswer(q, r, c, a, i) ==
  /\ ~HasEntry(listed, q)
  /\ IsEntry(listed, ParentOf(q), c) /\ tree[c] # None
  /\ a \in DOMAIN Attributes(c) /\ i \in DOMAIN Members[c][tree[c].ver]
  /\ IsFirst(c, tree[c], LastOf(q), a, i)
  /\ r = Answered(q, "member", c, tree[c].ver, i, tree[c].passes)

NoAnswer(q, r) ==
  /\ ~HasEntry(listed, q)
  /\ \A c \in Compounds : IsEntry(listed, ParentOf(q), c) =>
       /\ tree[c] # None
       /\ \A a \in DOMAIN Attributes(c), i \in DOMAIN Members[c][tree[c].ver] :
            ~FoundIn(c, tree[c], LastOf(q), a, i)
  /\ r = Missing(q)

\* r is what the trees loaded so far say to q.
IsAnswer(q, r) ==
  \/ \E c \in Compounds : CompoundAnswer(q, r, c)
  \/ \E c \in Compounds, a \in 1..3, i \in Nat : MemberAnswer(q, r, c, a, i)
  \/ NoAnswer(q, r)

\* All that was answered is still what the trees say.
AnswerInv ==
  /\ reply # None /\ reply.kind # "broken" => reply.q \in Queries /\ IsAnswer(reply.q, reply)
  /\ \A q \in Queries : told[q] # None => IsAnswer(q, told[q])
  /\ reply # None /\ reply.kind # "broken" => told[reply.q] # None

IndexInv == TypeOK /\ FindInv /\ AnswerInv

-----------------------------------------------------------------------------
\* What the compounds' lists and files hold is numbered.
LEMMA Numbered ==
  ASSUME NEW c \in Compounds, NEW v \in Versions
  PROVE  /\ DOMAIN Attributes(c) \subseteq 1..3
         /\ DOMAIN Members[c][v] \subseteq Nat
<1>1. DOMAIN Attributes(c) \subseteq 1..3
  BY DEF Attributes
<1>2. DOMAIN Members[c][v] \subseteq Nat
  BY XmlAssumption
<1> QED
  BY <1>1, <1>2

\* The trees leave one answer to a query.
LEMMA AnswerUnique ==
  ASSUME TypeOK, NEW q \in Queries, NEW r, NEW s, IsAnswer(q, r), IsAnswer(q, s)
  PROVE  r = s
<1>1. listed \in SUBSET Compounds
  BY DEF TypeOK
<1>2. ASSUME NEW c \in Compounds, NEW d \in Compounds,
             CompoundAnswer(q, r, c), CompoundAnswer(q, s, d)
      PROVE  r = s
  <2>1. c = d
    BY <1>1, <1>2, EntryUnique DEF CompoundAnswer
  <2> QED
    BY <1>2, <2>1 DEF CompoundAnswer
<1>3. ASSUME NEW c \in Compounds, NEW a \in 1..3, NEW i \in Nat, MemberAnswer(q, r, c, a, i),
             NEW d \in Compounds, NEW b \in 1..3, NEW j \in Nat, MemberAnswer(q, s, d, b, j)
      PROVE  r = s
  <2>1. c = d
    BY <1>1, <1>3, EntryUnique DEF MemberAnswer
  <2>2. /\ b > a \/ (b = a /\ j >= i)
        /\ a > b \/ (a = b /\ i >= j)
    BY <1>3, <2>1 DEF MemberAnswer, IsFirst
  <2>3. i = j
    BY <2>2
  <2> QED
    BY <1>3, <2>1, <2>3 DEF MemberAnswer
<1>4. ASSUME NEW x, NEW y, NEW c \in Compounds, NEW a \in 1..3, NEW i \in Nat,
             MemberAnswer(q, x, c, a, i), NoAnswer(q, y)
      PROVE  FALSE
  BY <1>4 DEF MemberAnswer, NoAnswer, IsFirst
<1>5. ASSUME NEW x, NEW c \in Compounds, CompoundAnswer(q, x, c)
      PROVE  HasEntry(listed, q)
  BY <1>5 DEF HasEntry, CompoundAnswer
<1>6. NoAnswer(q, r) /\ NoAnswer(q, s) => r = s
  BY DEF NoAnswer
<1>7. ASSUME HasEntry(listed, q) PROVE r = s
  <2>1. ASSUME NEW x, IsAnswer(q, x) PROVE \E c \in Compounds : CompoundAnswer(q, x, c)
    BY <1>7, <2>1 DEF IsAnswer, MemberAnswer, NoAnswer
  <2> QED
    BY <1>2, <2>1
<1>8. ASSUME ~HasEntry(listed, q) PROVE r = s
  <2>1. ASSUME NEW x, IsAnswer(q, x)
        PROVE  NoAnswer(q, x) \/ \E c \in Compounds, a \in 1..3, i \in Nat : MemberAnswer(q, x, c, a, i)
    BY <1>5, <1>8, <2>1 DEF IsAnswer
  <2> QED
    BY <1>3, <1>4, <1>6, <2>1
<1> QED
  BY <1>7, <1>8

-----------------------------------------------------------------------------
LEMMA IndexInvInit == Init => IndexInv
  BY XmlAssumption
     DEF Init, IndexInv, TypeOK, FindInv, AnswerInv, NoTrees, NothingTold

\* The steps that reply reply to the query.
LEMMA ReplyIsTyped ==
  ASSUME IndexInv, FindOwn \/ FindInner \/ FindNothing
  PROVE  \E r \in Replies : Reply(r) /\ r.q = query
<1> USE XmlAssumption DEF IndexInv, TypeOK, Trees, Replies, Answered, Missing
<1>1. CASE FindOwn
  BY <1>1, SMTT(30) DEF FindOwn, FindInv
<1>2. CASE FindInner
  <2>1. PICK a \in DOMAIN Attributes(at), i \in DOMAIN Members[at][tree[at].ver] :
          Reply(Answered(query, "member", at, tree[at].ver, i, tree[at].passes))
    BY <1>2 DEF FindInner
  <2>2. i \in Nat
    BY <1>2, Numbered DEF FindInner, FindInv
  <2> QED
    BY <1>2, <2>1, <2>2 DEF FindInner, FindInv
<1>3. CASE FindNothing
  BY <1>3 DEF FindNothing, FindInv
<1> QED
  BY <1>1, <1>2, <1>3

LEMMA TypeNext == IndexInv /\ [Next]_vars => TypeOK'
<1> SUFFICES ASSUME IndexInv, [Next]_vars PROVE TypeOK'
  OBVIOUS
<1> USE XmlAssumption DEF IndexInv, TypeOK, Trees, Replies, Answered, Missing
<1>1. ASSUME NEW r \in Replies, Reply(r), UNCHANGED tree PROVE TypeOK'
  BY <1>1 DEF Reply, xmlFiles
<1>2. ASSUME NEW c \in Compounds, NEW v \in Versions \cup {0}, WriteXml(c, v) PROVE TypeOK'
  BY <1>2 DEF WriteXml, find
<1>3. ASSUME NEW cs \in SUBSET Compounds, WriteIndexXml(cs) PROVE TypeOK'
  BY <1>3 DEF WriteIndexXml, find
<1>4. CASE Open
  BY <1>4 DEF Open, xmlFiles
<1>5. CASE Exit
  BY <1>5 DEF Exit, Forget, xmlFiles, NoTrees, NothingTold
<1>6. ASSUME NEW q \in Queries, Find(q) PROVE TypeOK'
  BY <1>6 DEF Find, xmlFiles
<1>7. ASSUME NEW q \in Queries, FindNoEntry(q) PROVE TypeOK'
  BY <1>1, <1>7 DEF FindNoEntry
<1>8. CASE Load
  BY <1>8 DEF Load, xmlFiles, find, FindInv
<1>9. CASE LoadFails
  BY <1>9 DEF LoadFails, Forget, xmlFiles, NoTrees, NothingTold, FindInv
<1>10. CASE FindOwn \/ FindInner \/ FindNothing
  <2>1. PICK r \in Replies : Reply(r)
    BY <1>10, ReplyIsTyped
  <2> QED
    BY <1>1, <1>10, <2>1 DEF FindOwn, FindInner, FindNothing
<1>11. CASE UNCHANGED vars
  BY <1>11 DEF vars, xmlFiles, find
<1> QED
  BY <1>2, <1>3, <1>4, <1>5, <1>6, <1>7, <1>8, <1>9, <1>10, <1>11
     DEF Next, Environment, Step

LEMMA FindInvNext == IndexInv /\ [Next]_vars => FindInv'
<1> SUFFICES ASSUME IndexInv, [Next]_vars PROVE FindInv'
  OBVIOUS
<1> USE DEF IndexInv, FindInv
<1>1. ASSUME NEW c \in Compounds, NEW v \in Versions \cup {0}, WriteXml(c, v) PROVE FindInv'
  BY <1>1 DEF WriteXml, find
<1>2. ASSUME NEW cs \in SUBSET Compounds, WriteIndexXml(cs) PROVE FindInv'
  BY <1>2 DEF WriteIndexXml, find
<1>3. CASE Open
  BY <1>3 DEF Open
<1>4. CASE Exit \/ LoadFails
  BY <1>4 DEF Exit, LoadFails, Forget
<1>5. ASSUME NEW q \in Queries, Find(q) PROVE FindInv'
  BY <1>5 DEF Find, xmlFiles
<1>6. CASE Load
  BY <1>6 DEF Load, xmlFiles, find
<1>7. ASSUME NEW r, Reply(r) PROVE FindInv'
  BY <1>7 DEF Reply
<1>8. CASE UNCHANGED vars
  BY <1>8 DEF vars, xmlFiles, find
<1> QED
  BY <1>1, <1>2, <1>3, <1>4, <1>5, <1>6, <1>7, <1>8
     DEF Next, Environment, Step, FindOwn, FindInner, FindNothing, FindNoEntry

-----------------------------------------------------------------------------
\* An answer stays one as long as no tree changes that is there.
LEMMA AnswerStable ==
  ASSUME NEW q, NEW r, IsAnswer(q, r), listed' = listed,
         \A c \in Compounds : tree[c] # None => tree'[c] = tree[c]
  PROVE  IsAnswer(q, r)'
<1>1. ASSUME NEW c \in Compounds, CompoundAnswer(q, r, c) PROVE CompoundAnswer(q, r, c)'
  BY <1>1 DEF CompoundAnswer
<1>2. ASSUME NEW c \in Compounds, NEW a \in 1..3, NEW i \in Nat, MemberAnswer(q, r, c, a, i)
      PROVE  MemberAnswer(q, r, c, a, i)'
  BY <1>2 DEF MemberAnswer
<1>3. ASSUME NoAnswer(q, r) PROVE NoAnswer(q, r)'
  BY <1>3 DEF NoAnswer
<1> QED
  BY <1>1, <1>2, <1>3 DEF IsAnswer

\* What the steps that reply say is what the trees say.
LEMMA RepliesAreAnswers ==
  ASSUME IndexInv
  PROVE  /\ FindOwn => IsAnswer(query, reply')
         /\ FindInner => IsAnswer(query, reply')
         /\ FindNothing => IsAnswer(query, reply')
         /\ \A q \in Queries : FindNoEntry(q) => IsAnswer(q, reply')
<1> USE DEF IndexInv, FindInv
<1>1. ASSUME FindOwn PROVE IsAnswer(query, reply')
  <2>1. CompoundAnswer(query, reply', at)
    BY <1>1 DEF FindOwn, Reply, CompoundAnswer
  <2> QED
    BY <1>1, <2>1 DEF FindOwn, IsAnswer
<1>2. ASSUME FindInner PROVE IsAnswer(query, reply')
  <2>1. PICK a \in DOMAIN Attributes(at), i \in DOMAIN Members[at][tree[at].ver] :
          /\ IsFirst(at, tree[at], LastOf(query), a, i)
          /\ Reply(Answered(query, "member", at, tree[at].ver, i, tree[at].passes))
    BY <1>2 DEF FindInner
  <2>2. at \in Compounds /\ tree[at].ver \in Versions
    BY <1>2 DEF FindInner, TypeOK, Trees
  <2>3. a \in 1..3 /\ i \in Nat
    BY <2>2, Numbered
  <2>4. MemberAnswer(query, reply', at, a, i)
    BY <1>2, <2>1 DEF FindInner, Reply, MemberAnswer
  <2> QED
    BY <2>2, <2>3, <2>4 DEF IsAnswer
<1>3. ASSUME FindNothing PROVE IsAnswer(query, reply')
  <2>1. \A c \in Compounds : IsEntry(listed, ParentOf(query), c) => c = at
    BY <1>3, EntryUnique DEF FindNothing, TypeOK
  <2>2. NoAnswer(query, reply')
    BY <1>3, <2>1 DEF FindNothing, Reply, NoAnswer
  <2> QED
    BY <2>2 DEF IsAnswer
<1>4. ASSUME NEW q \in Queries, FindNoEntry(q) PROVE IsAnswer(q, reply')
  <2>1. NoAnswer(q, reply')
    BY <1>4 DEF FindNoEntry, Reply, NoAnswer, HasEntry
  <2> QED
    BY <2>1 DEF IsAnswer
<1> QED
  BY <1>1, <1>2, <1>3, <1>4

LEMMA AnswerInvNext == IndexInv /\ [Next]_vars => AnswerInv'
<1> SUFFICES ASSUME IndexInv, [Next]_vars PROVE AnswerInv'
  OBVIOUS
<1> USE DEF IndexInv
<1>1. ASSUME UNCHANGED <<listed, reply, told>>,
             \A c \in Compounds : tree[c] # None => tree'[c] = tree[c]
      PROVE  AnswerInv'
  BY <1>1, AnswerStable DEF AnswerInv
<1>2. CASE Open
  BY <1>2 DEF Open, AnswerInv, FindInv, NothingTold
<1>3. CASE Exit \/ LoadFails
  BY <1>3 DEF Exit, LoadFails, Forget, AnswerInv, NothingTold, Answered
<1>4. ASSUME NEW q \in Queries, NEW r, r.q = q, r # None, Reply(r), UNCHANGED tree,
             IsAnswer(q, reply')
      PROVE  AnswerInv'
  <2>1. \A p \in Queries : \A x : IsAnswer(p, x) => IsAnswer(p, x)'
    BY <1>4, AnswerStable DEF Reply
  <2>2. told \in [Queries -> Replies \cup {None}]
    BY DEF TypeOK
  <2>3. reply' = r /\ told' = IF told[q] = None THEN [told EXCEPT ![q] = r] ELSE told
    BY <1>4 DEF Reply
  <2> QED
    BY <1>4, <2>1, <2>2, <2>3 DEF AnswerInv
<1>5. CASE Load
  BY <1>1, <1>5 DEF Load, find, TypeOK
<1>6. ASSUME NEW q \in Queries, Find(q) PROVE AnswerInv'
  BY <1>1, <1>6 DEF Find
<1>7. CASE Environment \/ UNCHANGED vars
  BY <1>1, <1>7 DEF Environment, WriteXml, WriteIndexXml, vars
<1>8. CASE FindOwn \/ FindInner \/ FindNothing
  <2>1. query \in Queries /\ IsAnswer(query, reply')
    BY <1>8, RepliesAreAnswers DEF FindInv, FindOwn, FindInner, FindNothing
  <2>2. PICK r \in Replies : Reply(r) /\ r.q = query
    BY <1>8, ReplyIsTyped
  <2> QED
    BY <1>4, <1>8, <2>1, <2>2, NoneAssumption DEF FindOwn, FindInner, FindNothing
<1>9. ASSUME NEW q \in Queries, FindNoEntry(q) PROVE AnswerInv'
  <2>1. IsAnswer(q, reply')
    BY <1>9, RepliesAreAnswers
  <2>2. Missing(q) \in Replies /\ Missing(q).q = q
    BY DEF Missing, Answered, Replies
  <2> QED
    BY <1>4, <1>9, <2>1, <2>2, NoneAssumption DEF FindNoEntry
<1> QED
  BY <1>2, <1>3, <1>5, <1>6, <1>7, <1>8, <1>9 DEF Next, Step

LEMMA IndexInvCorrect == Spec => []IndexInv
<1>1. IndexInv /\ [Next]_vars => IndexInv'
  BY TypeNext, FindInvNext, AnswerInvNext DEF IndexInv
<1> QED
  BY <1>1, IndexInvInit, PTL DEF Spec

\* The variables keep their types; every tree kept has seen every pass once.
THEOREM TypeCorrect == Spec => []TypeOK
<1>1. IndexInv => TypeOK
  BY DEF IndexInv
<1> QED
  BY <1>1, IndexInvCorrect, PTL

\* A process never contradicts itself about a name, whoever writes the XML
\* while it lives.
THEOREM ProcessAgrees == Spec => []AnswersAgree
<1>1. IndexInv => AnswersAgree
  BY AnswerUnique DEF IndexInv, AnswerInv, AnswersAgree
<1> QED
  BY <1>1, IndexInvCorrect, PTL

-----------------------------------------------------------------------------
(* DoxypyIndex implements Lookup.                                          *)

\* Both name things alike.
LEMMA SameNames ==
  /\ \A L, name, c : Promised!IsEntry(L, name, c) <=> IsEntry(L, name, c)
  /\ \A L, name : Promised!HasEntry(L, name) <=> HasEntry(L, name)
  /\ \A q : Promised!ParentOf(q) = ParentOf(q) /\ Promised!LastOf(q) = LastOf(q)
  /\ \A c, v, name : Promised!Findable(c, v, name) = Findable(c, v, name)
  BY DEF Promised!IsEntry, IsEntry, Promised!HasEntry, HasEntry, Promised!ParentOf,
         ParentOf, Promised!LastOf, LastOf, Promised!Findable, Findable,
         Promised!Transformed, Transformed, Promised!AllowedKinds, AllowedKinds

\* What is found in a transformed tree is what Lookup calls findable.
LEMMA FoundIsFindable ==
  ASSUME NEW c \in Compounds, Kind[c] \in AllowedKinds, NEW v \in Versions, NEW name,
         NEW t, t = [ver |-> v, passes |-> 1], NEW i \in DOMAIN Members[c][v]
  PROVE  (\E a \in DOMAIN Attributes(c) : FoundIn(c, t, name, a, i))
            <=> i \in Findable(c, v, name)
<1>1. CASE Kind[c] = "namespace"
  <2>1. Attributes(c) = <<"functions", "typedefs", "enum_classes">>
    BY <1>1 DEF Attributes
  <2>2. \A a \in 1..3 : Holds(Attributes(c)[a], t) =
          IF a = 1 THEN {"function"} ELSE IF a = 2 THEN {"typedef"} ELSE {"enum"}
    BY <2>1 DEF Holds
  <2>3. DOMAIN Attributes(c) = 1..3
    BY <2>1
  <2> QED
    BY <1>1, <2>2, <2>3 DEF FoundIn, Findable
<1>2. CASE Kind[c] \in {"class", "struct"}
  <2>1. Attributes(c) = <<"functions">>
    BY <1>2 DEF Attributes
  <2>2. Holds(Attributes(c)[1], t) = {"function"} /\ DOMAIN Attributes(c) = {1}
    BY <2>1 DEF Holds
  <2> QED
    BY <1>2, <2>2 DEF FoundIn, Findable
<1>3. CASE Kind[c] = "typedef"
  <2>1. Attributes(c) = <<>>
    BY <1>3 DEF Attributes
  <2> QED
    BY <1>3, <2>1 DEF FoundIn, Findable
<1> QED
  BY <1>1, <1>2, <1>3 DEF AllowedKinds

LEMMA InitImplements == Init => Promised!LookupInit
  BY XmlAssumption DEF Init, Promised!LookupInit, NoTrees, Promised!NothingTaken

LEMMA NextImplements ==
  ASSUME IndexInv, [Next]_vars PROVE [Promised!LookupNext]_(Promised!lvars)
<1> DEFINE open == stage # "closed"
           taken == [c \in Compounds |-> IF tree[c] = None THEN 0 ELSE tree[c].ver]
<1> USE DEF IndexInv, FindInv
<1>1. ASSUME Environment PROVE Promised!Environment
  BY <1>1 DEF Environment, WriteXml, WriteIndexXml, find, Promised!Environment
<1>2. ASSUME Open PROVE Promised!Open
  BY <1>2 DEF Open, xmlFiles, Promised!Open
<1>3. ASSUME Exit PROVE Promised!Close
  BY <1>3 DEF Exit, Forget, xmlFiles, NoTrees, Promised!Close, Promised!NothingTaken
<1>4. ASSUME NEW q \in Queries, Find(q) PROVE UNCHANGED Promised!lvars
  BY <1>4 DEF Find, xmlFiles, Promised!lvars
<1>5. ASSUME NEW q \in Queries, FindNoEntry(q) PROVE Promised!AnswerMissing(q)
  BY <1>5, SameNames
     DEF FindNoEntry, Reply, Missing, Answered, xmlFiles, HasEntry, Promised!AnswerMissing
<1>6. ASSUME NEW c \in Compounds, c = at, Load PROVE Promised!Take(c)
  <2>1. c \in listed
    BY <1>6 DEF Load, IsEntry
  <2>2. tree' = [tree EXCEPT ![c] = [ver |-> disk[c], passes |-> 1]]
    BY <1>6 DEF Load
  <2>3. disk[c] \in Versions /\ tree \in [Compounds -> Trees \cup {None}]
    BY <1>6, <2>1 DEF Load, TypeOK
  <2>4. [ver |-> disk[c], passes |-> 1] # None
    BY <2>3, NoneAssumption DEF Trees
  <2>5. taken' = [taken EXCEPT ![c] = disk[c]]
    BY <2>1, <2>2, <2>3, <2>4
  <2> QED
    BY <1>6, <2>1, <2>5 DEF Load, xmlFiles, find, Promised!Take
<1>7. ASSUME LoadFails PROVE Promised!Close
  <2>1. at \in listed /\ query \in Queries /\ at \in Compounds
    BY <1>7 DEF LoadFails, IsEntry
  <2> QED
    BY <1>7, <2>1
       DEF LoadFails, Forget, xmlFiles, Answered, NoTrees, Promised!Close, Promised!NothingTaken
<1>8. ASSUME FindOwn PROVE Promised!AnswerCompound(query, at)
  <2>1. tree[at] \in Trees
    BY <1>8 DEF FindOwn, TypeOK
  <2>2. taken[at] = tree[at].ver /\ tree[at].passes = 1 /\ tree[at].ver # 0
    BY <1>8, <2>1, XmlAssumption DEF FindOwn, Trees
  <2> QED
    BY <1>8, <2>2, SameNames
       DEF FindOwn, Reply, Answered, xmlFiles, Promised!AnswerCompound
<1>9. ASSUME FindInner PROVE Promised!AnswerMember(query, at)
  <2>1. at \in Compounds /\ tree[at] \in Trees /\ Kind[at] \in AllowedKinds
    BY <1>9 DEF FindInner, TypeOK, IsEntry
  <2>2. taken[at] = tree[at].ver /\ tree[at].passes = 1 /\ tree[at].ver \in Versions
    BY <1>9, <2>1 DEF FindInner, Trees
  <2>3. PICK a \in DOMAIN Attributes(at), i \in DOMAIN Members[at][tree[at].ver] :
          /\ IsFirst(at, tree[at], LastOf(query), a, i)
          /\ Reply(Answered(query, "member", at, tree[at].ver, i, tree[at].passes))
    BY <1>9 DEF FindInner
  <2>4. tree[at] = [ver |-> tree[at].ver, passes |-> 1]
    BY <2>1 DEF Trees
  <2>5. i \in Findable(at, taken[at], LastOf(query))
    BY <2>1, <2>2, <2>3, <2>4, FoundIsFindable DEF IsFirst
  <2>6. taken[at] # 0
    BY <2>2, XmlAssumption
  <2> QED
    BY <1>9, <2>2, <2>3, <2>5, <2>6, SameNames
       DEF FindInner, Reply, Answered, xmlFiles, Promised!AnswerMember
<1>10. ASSUME FindNothing PROVE Promised!AnswerMissing(query)
  <2>1. at \in Compounds /\ tree[at] \in Trees /\ Kind[at] \in AllowedKinds
    BY <1>10 DEF FindNothing, TypeOK, IsEntry
  <2>2. taken[at] = tree[at].ver /\ tree[at].passes = 1 /\ tree[at].ver \in Versions
    BY <1>10, <2>1 DEF FindNothing, Trees
  <2>3. tree[at] = [ver |-> tree[at].ver, passes |-> 1]
    BY <2>1 DEF Trees
  <2>4. \A i \in DOMAIN Members[at][tree[at].ver] :
          i \notin Findable(at, tree[at].ver, LastOf(query))
    BY <1>10, <2>1, <2>2, <2>3, FoundIsFindable DEF FindNothing
  <2>5. Findable(at, taken[at], LastOf(query)) = {}
    BY <2>2, <2>4 DEF Findable
  <2>6. \A c \in Compounds : IsEntry(listed, ParentOf(query), c) => c = at
    BY <1>10, EntryUnique DEF FindNothing, TypeOK
  <2>7. taken[at] # 0
    BY <2>2, XmlAssumption
  <2> QED
    BY <1>10, <2>5, <2>6, <2>7, SameNames
       DEF FindNothing, Reply, Missing, Answered, xmlFiles, Promised!AnswerMissing
<1>11. CASE UNCHANGED vars
  BY <1>11 DEF vars, xmlFiles, find, Promised!lvars
<1>12. Load => at \in Compounds
  BY DEF Load
<1>13. FindOwn \/ FindInner \/ FindNothing => query \in Queries /\ at \in Compounds
  BY DEF FindOwn, FindInner, FindNothing
<1> HIDE DEF open, taken, IndexInv, FindInv
<1>14. ASSUME Step PROVE Promised!LookupNext \/ UNCHANGED Promised!lvars
  <2>1. Open \/ Exit \/ LoadFails => Promised!LookupNext
    BY <1>2, <1>3, <1>7 DEF Promised!LookupNext
  <2>2. ASSUME NEW q \in Queries, Find(q) \/ FindNoEntry(q)
        PROVE  Promised!LookupNext \/ UNCHANGED Promised!lvars
    BY <1>4, <1>5, <2>2 DEF Promised!LookupNext
  <2>3. ASSUME Load PROVE Promised!LookupNext
    <3>1. \E c \in Compounds : c = at
      BY <1>12, <2>3
    <3>2. \E c \in Compounds : Promised!Take(c)
      BY <1>6, <2>3, <3>1
    <3> QED
      BY <3>2 DEF Promised!LookupNext
  <2>4. FindOwn \/ FindInner \/ FindNothing => Promised!LookupNext
    BY <1>8, <1>9, <1>10, <1>13 DEF Promised!LookupNext
  <2> QED
    BY <1>14, <2>1, <2>2, <2>3, <2>4 DEF Step
<1>15. Environment => Promised!LookupNext
  BY <1>1 DEF Promised!LookupNext
<1> QED
  BY <1>11, <1>14, <1>15 DEF Next

\* However files change under a process, the lazy, cached, two-step search
\* behaves as a lookup in a picture taken of each file once.
THEOREM IndexImplementsLookup == Spec => ImplementsLookup
<1>1. Spec => []IndexInv
  BY IndexInvCorrect
<1>2. IndexInv /\ [Next]_vars => [Promised!LookupNext]_(Promised!lvars)
  BY NextImplements
<1> QED
  BY <1>1, <1>2, InitImplements, PTL DEF Spec, ImplementsLookup, Promised!LookupSpec

-----------------------------------------------------------------------------
\* A name that a compound of the index has leads to one of them.
LEMMA EntryExists ==
  ASSUME TypeOK, NEW c \in listed, Kind[c] \in AllowedKinds
  PROVE  HasEntry(listed, Transformed(RawName[c]))
<1> DEFINE name == Transformed(RawName[c])
           of == {d \in listed : Kind[d] \in AllowedKinds /\ Transformed(RawName[d]) = name}
           place == [d \in of |-> Position[d]]
<1>1. of \in SUBSET Compounds /\ of # {}
  BY DEF TypeOK
<1>2. IsFiniteSet(of) /\ place \in [of -> Nat]
  BY <1>1, XmlAssumption, FS_Subset
<1>3. PICK d \in of : \A e \in of : place[e] <= place[d]
  BY <1>1, <1>2, GreatestExists
<1>4. IsEntry(listed, name, d)
  BY <1>3 DEF IsEntry
<1> QED
  BY <1>1, <1>4 DEF HasEntry

LEMMA NoAnswerIsUndeclared ==
  ASSUME TypeOK, NEW q \in Queries, NEW r, NoAnswer(q, r),
         NEW c \in listed, Kind[c] \in AllowedKinds
  PROVE  /\ Transformed(RawName[c]) # q
         /\ Transformed(RawName[c]) = ParentOf(q) =>
              \/ tree[c] # None /\ Findable(c, tree[c].ver, LastOf(q)) = {}
              \/ \E d \in listed : /\ Position[d] > Position[c] /\ Kind[d] \in AllowedKinds
                                   /\ Transformed(RawName[d]) = ParentOf(q)
<1>1. c \in Compounds /\ listed \in SUBSET Compounds
  BY DEF TypeOK
<1>2. Transformed(RawName[c]) # q
  BY EntryExists DEF NoAnswer
<1>3. ASSUME IsEntry(listed, ParentOf(q), c)
      PROVE  tree[c] # None /\ Findable(c, tree[c].ver, LastOf(q)) = {}
  <2>1. tree[c] \in Trees
    BY <1>1, <1>3 DEF NoAnswer, TypeOK
  <2>2. tree[c] = [ver |-> tree[c].ver, passes |-> 1] /\ tree[c].ver \in Versions
    BY <2>1 DEF Trees
  <2>3. \A a \in DOMAIN Attributes(c), i \in DOMAIN Members[c][tree[c].ver] :
          ~FoundIn(c, tree[c], LastOf(q), a, i)
    BY <1>1, <1>3 DEF NoAnswer
  <2>4. \A i \in DOMAIN Members[c][tree[c].ver] : i \notin Findable(c, tree[c].ver, LastOf(q))
    BY <1>1, <2>2, <2>3, FoundIsFindable
  <2> QED
    BY <1>1, <1>3, <2>4 DEF NoAnswer, Findable
<1>4. ASSUME Transformed(RawName[c]) = ParentOf(q), ~IsEntry(listed, ParentOf(q), c)
      PROVE  \E d \in listed : /\ Position[d] > Position[c] /\ Kind[d] \in AllowedKinds
                               /\ Transformed(RawName[d]) = ParentOf(q)
  <2>1. PICK d \in listed : /\ Kind[d] \in AllowedKinds /\ Transformed(RawName[d]) = ParentOf(q)
                           /\ ~(Position[d] <= Position[c])
    BY <1>4 DEF IsEntry
  <2>2. Position[d] \in Nat /\ Position[c] \in Nat
    BY <1>1, XmlAssumption
  <2> QED
    BY <2>1, <2>2
<1> QED
  BY <1>2, <1>3, <1>4

\* What a process calls missing is declared nowhere that Index.find promises to
\* look.
THEOREM MissingIsMissing == Spec => []MissingIsUndeclared
<1>1. ASSUME IndexInv PROVE MissingIsUndeclared
  <2>1. ASSUME reply # None, reply.kind = "missing"
        PROVE  reply.q \in Queries /\ NoAnswer(reply.q, reply)
    BY <1>1, <2>1
       DEF IndexInv, AnswerInv, IsAnswer, CompoundAnswer, MemberAnswer, Answered
  <2> QED
    BY <1>1, <2>1, NoAnswerIsUndeclared DEF IndexInv, MissingIsUndeclared
<1> QED
  BY <1>1, IndexInvCorrect, PTL
-----------------------------------------------------------------------------
(* TagsPage: a page put together from the index's answers.                 *)

\* What the page takes from the index is still what its trees hold; `of` is
\* a compound taken from it.
Taken(of, ver) == of \in Compounds /\ tree[of] # None /\ ver = tree[of].ver

\* The row of the n-th class its namespace refers to.
ClassName(n) == Transformed(RawName[ClassRefs[n]])

IsClassRow(n, r) ==
  /\ IsEntry(listed, ClassName(n), r.of) /\ Taken(r.of, r.ver)
  /\ r = Row("class", n, r.of, r.ver)

ClassRows(n) == \A k \in 1..n : IsClassRow(k, rows[k])

AskedFor(name) ==
  /\ stage \in {"own", "inner"} => query = name
  /\ stage = "idle" => reply # None /\ reply.q = name

RowType == [what : {"class", "typedef"}, at : Nat, of : Compounds, ver : Versions]

PageType ==
  /\ space \in Replies \cup {None}
  /\ rows \in Seq(RowType)
  /\ pc \in {"idle", "namespace", "classes", "class", "done"}
  /\ rewritten \in BOOLEAN

\* Where the directive stands, what it has written, and what it waits for.
PageInv ==
  /\ pc # "idle" => stage # "closed"
  /\ pc \in {"idle", "namespace"} => rows = <<>>
  /\ pc = "namespace" /\ stage = "idle" => reply # None
  /\ pc \in {"classes", "class", "done"} => space # None /\ Taken(space.of, space.ver)
  /\ pc \in {"classes", "class"} => Len(rows) <= Len(ClassRefs) /\ ClassRows(Len(rows))
  /\ pc = "class" => Len(rows) < Len(ClassRefs) /\ AskedFor(ClassName(Len(rows) + 1))
  /\ pc = "done" =>
       /\ Len(rows) = Len(ClassRefs) + Len(Typedefs) /\ ClassRows(Len(ClassRefs))
       /\ \A j \in DOMAIN Typedefs : rows[Len(ClassRefs) + j] = Typedefs[j]

\* What a process has read is what the disk holds, unless that was rewritten.
ReadInv ==
  ~rewritten => \A c \in Compounds : tree[c] # None => tree[c].ver = disk[c]

TagsInv == IndexInv /\ PageType /\ PageInv /\ ReadInv

\* Steps of the page are steps of the index, or leave it alone.
LEMMA TagsStep ==
  ASSUME IndexInv, PageType, PageInv, [TagsNext]_tvars
  PROVE  [Next]_vars
<1>1. \A q \in Queries : Ask(q) => Step
  BY DEF Ask, Step
<1>2. ASSUME NEW q \in Spaces, Run(q) PROVE Next
  BY <1>1, <1>2, TagsAssumption DEF Run, Next
<1>3. ASSUME NextClass PROVE Next
  <2>1. space.of \in Compounds /\ space.ver \in Versions
    BY <1>3 DEF NextClass, PageInv, Taken, IndexInv, TypeOK, Trees
  <2>2. ClassRefs \in Seq(Compounds) /\ Len(rows) + 1 \in DOMAIN ClassRefs
    BY <1>3, <2>1, TagsAssumption DEF NextClass, PageType, ClassRefs
  <2>3. Transformed(RawName[ClassRefs[Len(rows) + 1]]) \in Queries
    BY <2>1, <2>2, TagsAssumption DEF ClassRefs
  <2> QED
    BY <1>1, <1>3, <2>3 DEF NextClass, Next
<1>4. ASSUME Finding \/ Fails \/ Dies \/ Elsewhere \/ Doxygen PROVE Next
  BY <1>1, <1>4 DEF Finding, Fails, Dies, Elsewhere, Doxygen, Next, Step
<1>5. NamespaceFound \/ ClassFound \/ Finish => UNCHANGED vars
  BY DEF NamespaceFound, ClassFound, Finish
<1>6. UNCHANGED tvars => UNCHANGED vars
  BY DEF tvars
<1> QED
  BY <1>2, <1>3, <1>4, <1>5, <1>6 DEF TagsNext

\* As long as a process lives, its index keeps what it holds.
LEMMA IndexGrows ==
  ASSUME IndexInv, [Next]_vars, stage # "closed", stage' # "closed"
  PROVE  /\ listed' = listed
         /\ \A c \in Compounds : tree[c] # None => tree'[c] = tree[c]
<1>1. Environment \/ UNCHANGED vars => UNCHANGED <<listed, tree>>
  BY DEF Environment, WriteXml, WriteIndexXml, vars
<1>2. ~Open /\ ~Exit /\ ~LoadFails
  BY DEF Open, Exit, LoadFails, Forget
<1>3. \A q \in Queries : Find(q) \/ FindNoEntry(q) => UNCHANGED <<listed, tree>>
  BY DEF Find, FindNoEntry, Reply
<1>4. FindOwn \/ FindInner \/ FindNothing => UNCHANGED <<listed, tree>>
  BY DEF FindOwn, FindInner, FindNothing, Reply
<1>5. Load => /\ listed' = listed
              /\ \A c \in Compounds : tree[c] # None => tree'[c] = tree[c]
  BY DEF Load, IndexInv, TypeOK
<1> QED
  BY <1>1, <1>2, <1>3, <1>4, <1>5 DEF Next, Step

\* So does the page.
LEMMA PageStays ==
  ASSUME listed' = listed, \A c \in Compounds : tree[c] # None => tree'[c] = tree[c]
  PROVE  /\ \A of, ver : Taken(of, ver) => Taken(of, ver)'
         /\ UNCHANGED space => \A k, r : IsClassRow(k, r) => IsClassRow(k, r)'
<1>1. \A of, ver : Taken(of, ver) => Taken(of, ver)'
  BY DEF Taken
<1>2. UNCHANGED space => \A k, r : IsClassRow(k, r) => IsClassRow(k, r)'
  BY <1>1 DEF IsClassRow, ClassName, ClassRefs, Row
<1> QED
  BY <1>1, <1>2

\* The typedefs of a namespace, in their order.
Declared(c, v) == {i \in DOMAIN Members[c][v] : Members[c][v][i].sort = "typedef"}

LEMMA TypedefsListed ==
  ASSUME NEW c \in Compounds, NEW v \in Versions, space.of = c, space.ver = v
  PROVE  /\ Typedefs \in Seq(RowType)
         /\ \A j \in DOMAIN Typedefs : Typedefs[j].what = "typedef"
         /\ {Typedefs[j].at : j \in DOMAIN Typedefs} = Declared(c, v)
         /\ \A j, k \in DOMAIN Typedefs : j < k => Typedefs[j].at < Typedefs[k].at
<1> DEFINE places == InOrder(Declared(c, v))
<1>1. Members[c][v] \in Seq([sort : Sorts, name : STRING])
  BY XmlAssumption
<1>2. Declared(c, v) \in SUBSET Nat /\ Declared(c, v) \subseteq 1..Len(Members[c][v]) /\ Len(Members[c][v]) \in Nat
  BY <1>1 DEF Declared
<1>3. IsFiniteSet(Declared(c, v))
  <2>1. IsFiniteSet(1..Len(Members[c][v]))
    BY <1>2, FS_Interval
  <2> QED
    BY <1>2, <2>1, FS_Subset
<1>4. Enumerates(places, Declared(c, v)) /\ Cardinality(Declared(c, v)) \in Nat
  BY <1>2, <1>3, InOrderLists, FS_CardinalityType
<1>5. Typedefs = [j \in DOMAIN places |-> Row("typedef", places[j], c, v)]
  BY DEF Typedefs, Declared
<1> HIDE DEF places
<1>6. DOMAIN places = 1..Cardinality(Declared(c, v)) /\ \A j \in DOMAIN places : places[j] \in Nat
  BY <1>2, <1>4 DEF Enumerates
<1>7. \A j \in DOMAIN places : Typedefs[j] = Row("typedef", places[j], c, v)
                               /\ Typedefs[j] \in RowType
  BY <1>5, <1>6 DEF Row, RowType
<1>8. Typedefs \in [1..Cardinality(Declared(c, v)) -> RowType] /\ DOMAIN Typedefs = DOMAIN places
  BY <1>5, <1>6, <1>7
<1>9. Typedefs \in Seq(RowType)
  BY <1>4, <1>8
<1>10. ASSUME NEW j \in DOMAIN Typedefs
       PROVE  Typedefs[j].what = "typedef" /\ Typedefs[j].at = places[j]
  <2>1. Typedefs[j] = Row("typedef", places[j], c, v)
    BY <1>7, <1>8
  <2> QED
    BY <2>1 DEF Row
<1>11. {Typedefs[j].at : j \in DOMAIN Typedefs} = Declared(c, v)
  BY <1>4, <1>8, <1>10 DEF Enumerates
<1>12. \A j, k \in DOMAIN Typedefs : j < k => Typedefs[j].at < Typedefs[k].at
  <2>1. \A j, k \in DOMAIN places : j < k => places[j] < places[k]
    BY <1>4 DEF Enumerates
  <2> QED
    BY <1>8, <1>10, <2>1
<1> QED
  BY <1>9, <1>10, <1>11, <1>12, Zenon
\* An answer that is a compound has that name and was taken from the index.
LEMMA CompoundsAreEntries ==
  ASSUME IndexInv, reply # None, reply.kind = "compound"
  PROVE  /\ IsEntry(listed, reply.q, reply.of) /\ Taken(reply.of, reply.ver)
         /\ reply \in Replies /\ reply.ver \in Versions
<1>1. IsAnswer(reply.q, reply)
  BY DEF IndexInv, AnswerInv
<1>2. PICK c \in Compounds : CompoundAnswer(reply.q, reply, c)
  BY <1>1 DEF IsAnswer, MemberAnswer, NoAnswer, Missing, Answered
<1>3. reply.of = c /\ reply.ver = tree[c].ver
  BY <1>2 DEF CompoundAnswer, Answered
<1>4. tree[c] \in Trees /\ reply \in Replies
  BY <1>2 DEF CompoundAnswer, IndexInv, TypeOK
<1> QED
  BY <1>2, <1>3, <1>4 DEF CompoundAnswer, Taken, Trees

\* What the namespace found declares.
LEMMA SpaceIsRead ==
  ASSUME IndexInv, PageInv, pc \in {"classes", "class", "done"}
  PROVE  /\ space.of \in Compounds /\ space.ver \in Versions
         /\ ClassRefs \in Seq(Compounds)
         /\ Typedefs \in Seq(RowType)
<1>1. space.of \in Compounds /\ space.ver \in Versions
  BY DEF PageInv, Taken, IndexInv, TypeOK, Trees
<1>2. ClassRefs \in Seq(Compounds)
  BY <1>1, TagsAssumption DEF ClassRefs
<1> QED
  BY <1>1, <1>2, TypedefsListed

LEMMA TagsInvInit == TagsInit => TagsInv
<1> SUFFICES ASSUME TagsInit PROVE TagsInv
  OBVIOUS
<1>1. IndexInv
  BY IndexInvInit DEF TagsInit
<1>2. rewritten \in BOOLEAN
  BY Zenon DEF TagsInit
<1>3. PageType
  BY <1>2 DEF TagsInit, PageType
<1>4. PageInv
  BY DEF TagsInit, PageInv
<1>5. ReadInv
  BY DEF TagsInit, Init, NoTrees, ReadInv
<1> QED
  BY <1>1, <1>3, <1>4, <1>5 DEF TagsInv

LEMMA PageTypeNext ==
  ASSUME TagsInv, [TagsNext]_tvars PROVE PageType'
<1> USE DEF TagsInv, PageType
<1>1. ASSUME NEW q \in Spaces, Run(q) PROVE PageType'
  BY <1>1 DEF Run
<1>2. CASE Finding
  BY <1>2 DEF Finding, tags
<1>3. CASE NamespaceFound
  <2>1. reply # None
    BY <1>3 DEF NamespaceFound, Answer, PageInv
  <2>2. reply \in Replies
    BY <1>3, <2>1, CompoundsAreEntries DEF NamespaceFound, Answer
  <2> QED
    BY <1>3, <2>2 DEF NamespaceFound
<1>4. CASE NextClass
  BY <1>4 DEF NextClass
<1>5. CASE ClassFound
  <2>1. reply # None
    BY <1>5 DEF ClassFound, Answer, PageInv, AskedFor
  <2>2. reply.of \in Compounds /\ reply.ver \in Versions
    BY <1>5, <2>1, CompoundsAreEntries DEF ClassFound, Answer, Taken
  <2>3. Row("class", Len(rows) + 1, reply.of, reply.ver) \in RowType
    BY <2>2, XmlAssumption DEF Row, RowType
  <2> QED
    BY <1>5, <2>3 DEF ClassFound
<1>6. CASE Finish
  <2>1. Typedefs \in Seq(RowType)
    BY <1>6, SpaceIsRead DEF Finish
  <2> QED
    BY <1>6, <2>1 DEF Finish
<1>7. CASE Fails \/ Dies
  <2>1. rewritten' \in BOOLEAN
    BY <1>7, Zenon DEF Fails, Dies, Ends
  <2>2. space' = None /\ rows' = <<>> /\ pc' = "idle"
    BY <1>7 DEF Fails, Dies, Ends
  <2> QED
    BY <2>1, <2>2
<1>8. CASE Elsewhere
  BY <1>8 DEF Elsewhere
<1>9. CASE Doxygen
  <2>1. rewritten' \in BOOLEAN
    BY <1>9, Zenon DEF Doxygen
  <2> QED
    BY <1>9, <2>1 DEF Doxygen, tags
<1>10. CASE UNCHANGED tvars
  BY <1>10 DEF tvars, tags
<1> QED
  BY <1>1, <1>2, <1>3, <1>4, <1>5, <1>6, <1>7, <1>8, <1>9, <1>10 DEF TagsNext

\* A find that goes on is for the name it was begun with, and so is its answer.
LEMMA FindGoesOn ==
  ASSUME IndexInv, NEW name, AskedFor(name), Load \/ FindOwn \/ FindInner \/ FindNothing
  PROVE  AskedFor(name)' /\ stage' # "closed"
<1>1. CASE Load
  BY <1>1 DEF Load, find, AskedFor
<1>2. CASE FindOwn \/ FindInner \/ FindNothing
  <2>1. PICK r \in Replies : Reply(r) /\ r.q = query
    BY <1>2, ReplyIsTyped
  <2>2. query = name
    BY <1>2 DEF FindOwn, FindInner, FindNothing, AskedFor
  <2>3. stage' = "idle" /\ reply' = r /\ r # None
    BY <2>1, NoneAssumption DEF Reply
  <2> QED
    BY <2>1, <2>2, <2>3 DEF AskedFor
<1> QED
  BY <1>1, <1>2

\* A find that begins is for the name asked for.
LEMMA FindBegins ==
  ASSUME NEW q \in Queries, Ask(q)
  PROVE  AskedFor(q)' /\ stage' # "closed"
<1>1. CASE Find(q)
  BY <1>1 DEF Find, AskedFor
<1>2. CASE FindNoEntry(q)
  <2>1. Missing(q) \in Replies /\ Missing(q).q = q
    BY <1>2 DEF Missing, Answered, Replies
  <2> QED
    BY <1>2, <2>1, NoneAssumption DEF FindNoEntry, Reply, AskedFor
<1> QED
  BY <1>1, <1>2 DEF Ask

LEMMA PageInvNext ==
  ASSUME TagsInv, [TagsNext]_tvars PROVE PageInv'
<1> USE DEF TagsInv
<1>1. [Next]_vars
  BY TagsStep
<1>2. ASSUME stage # "closed", stage' # "closed"
      PROVE  /\ \A of, ver : Taken(of, ver) => Taken(of, ver)'
             /\ UNCHANGED space => \A k, r : IsClassRow(k, r) => IsClassRow(k, r)'
  BY <1>1, <1>2, IndexGrows, PageStays
<1>3. ASSUME UNCHANGED tags, pc # "idle" => stage # "closed" /\ stage' # "closed",
             pc = "namespace" /\ stage' = "idle" => reply' # None,
             pc = "class" => AskedFor(ClassName(Len(rows) + 1))'
      PROVE  PageInv'
  <2>1. UNCHANGED <<space, rows, pc>>
    BY <1>3 DEF tags
  <2>2. UNCHANGED <<ClassRefs, Typedefs>>
    BY <2>1 DEF ClassRefs, Typedefs
  <2>3. pc \in {"classes", "class", "done"} => Taken(space.of, space.ver)'
    BY <1>2, <1>3, <2>1 DEF PageInv
  <2>4. pc \in {"classes", "class"} => ClassRows(Len(rows))'
    BY <1>2, <1>3, <2>1 DEF PageInv, ClassRows
  <2>5. pc = "done" => ClassRows(Len(ClassRefs))'
    BY <1>2, <1>3, <2>1, <2>2 DEF PageInv, ClassRows
  <2> QED
    BY <1>3, <2>1, <2>2, <2>3, <2>4, <2>5 DEF PageInv
<1>4. ASSUME NEW q \in Spaces, Run(q) PROVE PageInv'
  <2>1. AskedFor(q)' /\ stage' # "closed"
    BY <1>4, FindBegins, TagsAssumption DEF Run
  <2> QED
    BY <1>4, <2>1 DEF Run, PageInv, AskedFor
<1>5. CASE Finding
  <2>1. UNCHANGED tags /\ UNCHANGED ClassName(Len(rows) + 1)
    BY <1>5 DEF Finding, tags, ClassName, ClassRefs
  <2>2. stage # "closed" /\ stage' # "closed"
    BY <1>5 DEF Finding, Load, find, FindOwn, FindInner, FindNothing, Reply
  <2>3. pc = "class" => AskedFor(ClassName(Len(rows) + 1))'
    BY <1>5, <2>1, FindGoesOn DEF Finding, PageInv, AskedFor
  <2>4. stage' = "idle" => reply' # None
    <3>1. Load => stage' # "idle"
      BY DEF Load, find
    <3>2. FindOwn \/ FindInner \/ FindNothing => reply' # None
      BY ReplyIsTyped, NoneAssumption DEF Reply
    <3> QED
      BY <1>5, <3>1, <3>2 DEF Finding
  <2> QED
    BY <1>3, <2>1, <2>2, <2>3, <2>4
<1>6. CASE NamespaceFound
  <2>1. UNCHANGED vars /\ space' = reply /\ rows' = <<>> /\ pc' = "classes" /\ stage = "idle"
    BY <1>6 DEF NamespaceFound, Answer, PageInv
  <2>2. reply # None /\ Taken(reply.of, reply.ver) /\ reply.ver \in Versions
    BY <1>6, CompoundsAreEntries DEF NamespaceFound, Answer, PageInv
  <2>3. Taken(space.of, space.ver)'
    BY <2>1, <2>2 DEF Taken, vars
  <2>4. ClassRefs' \in Seq(Compounds)
    BY <2>1, <2>2, TagsAssumption DEF ClassRefs, Taken
  <2>5. Len(rows') = 0 /\ ClassRows(0)' /\ Len(ClassRefs') \in Nat
    BY <2>1, <2>4 DEF ClassRows
  <2>6. stage' = "idle"
    BY <2>1 DEF vars, find
  <2> QED
    BY <2>1, <2>2, <2>3, <2>5, <2>6 DEF PageInv
<1>7. CASE NextClass
  <2>1. pc = "classes" /\ pc' = "class" /\ UNCHANGED <<space, rows>> /\ Len(rows) < Len(ClassRefs)
        /\ Ask(ClassName(Len(rows) + 1)) /\ UNCHANGED <<ClassRefs, Typedefs>>
    BY <1>7 DEF NextClass, ClassName, ClassRefs, Typedefs
  <2>2. ClassName(Len(rows) + 1) \in Queries
    <3>1. space.of \in Compounds /\ space.ver \in Versions /\ ClassRefs \in Seq(Compounds)
      BY <2>1, SpaceIsRead
    <3>2. Len(rows) + 1 \in DOMAIN ClassRefs
      BY <2>1, <3>1 DEF PageType
    <3> QED
      BY <3>1, <3>2, TagsAssumption DEF ClassName, ClassRefs
  <2>3. PICK q \in Queries : q = ClassName(Len(rows) + 1) /\ Ask(q)
    BY <2>1, <2>2
  <2>4. q = ClassName(Len(rows) + 1)'
    BY <2>1, <2>3 DEF ClassName
  <2>5. AskedFor(q)' /\ stage' # "closed"
    BY <2>3, FindBegins
  <2>6. AskedFor(ClassName(Len(rows) + 1))'
    BY <2>4, <2>5 DEF AskedFor
  <2>7. stage # "closed" /\ Taken(space.of, space.ver) /\ ClassRows(Len(rows)) /\ space # None
    BY <2>1 DEF PageInv
  <2>8. Taken(space.of, space.ver)' /\ ClassRows(Len(rows))'
    BY <1>2, <2>1, <2>5, <2>7 DEF ClassRows
  <2> QED
    BY <2>1, <2>5, <2>6, <2>7, <2>8 DEF PageInv
<1>8. CASE ClassFound
  <2>1. /\ pc = "class" /\ pc' = "classes" /\ UNCHANGED vars /\ UNCHANGED space
        /\ rows' = Append(rows, Row("class", Len(rows) + 1, reply.of, reply.ver))
        /\ stage = "idle" /\ reply.kind = "compound"
    BY <1>8 DEF ClassFound, Answer
  <2>2. reply # None /\ reply.q = ClassName(Len(rows) + 1)
    BY <2>1 DEF PageInv, AskedFor
  <2>3. UNCHANGED <<listed, tree, stage>> /\ UNCHANGED ClassRefs
    BY <2>1 DEF vars, find, ClassRefs
  <2> DEFINE r == Row("class", Len(rows) + 1, reply.of, reply.ver)
             n == Len(rows)
  <2>4. IsClassRow(n + 1, r)
    <3>1. IsEntry(listed, reply.q, reply.of) /\ Taken(reply.of, reply.ver)
      BY <2>1, <2>2, CompoundsAreEntries
    <3>2. r.of = reply.of /\ r.ver = reply.ver
      BY DEF Row
    <3> QED
      BY <2>2, <3>1, <3>2 DEF IsClassRow
  <2>5. ClassRefs \in Seq(Compounds) /\ n < Len(ClassRefs) /\ ClassRows(n) /\ n \in Nat
        /\ Taken(space.of, space.ver) /\ space # None
    BY <2>1, SpaceIsRead DEF PageInv, PageType
  <2>6. rows'[n + 1] = r /\ Len(rows') = n + 1 /\ \A k \in 1..n : rows'[k] = rows[k]
    BY <2>1 DEF PageType
  <2>7. \A k \in 1..n+1 : IsClassRow(k, rows'[k])
    <3> HIDE DEF n, r
    <3>1. ASSUME NEW k \in 1..n+1 PROVE IsClassRow(k, rows'[k])
      <4>1. CASE k \in 1..n
        BY <2>5, <2>6, <4>1 DEF ClassRows, n
      <4>2. CASE k = n + 1
        BY <2>4, <2>6, <4>2
      <4> QED
        BY <2>5, <4>1, <4>2
    <3> QED
      BY <3>1
  <2> HIDE DEF r
  <2>8. ClassRows(Len(rows))'
    <3>1. \A k, x : IsClassRow(k, x) => IsClassRow(k, x)'
      BY <1>2, <2>1, <2>3 DEF PageInv
    <3> QED
      BY <2>6, <2>7, <3>1 DEF ClassRows
  <2>9. Taken(space.of, space.ver)' /\ Len(rows') <= Len(ClassRefs')
    BY <2>1, <2>3, <2>5, <2>6 DEF Taken
  <2> QED
    BY <2>1, <2>3, <2>5, <2>8, <2>9 DEF PageInv
<1>9. CASE Finish
  <2>1. /\ pc = "classes" /\ pc' = "done" /\ UNCHANGED vars /\ UNCHANGED space
        /\ rows' = rows \o Typedefs /\ Len(rows) >= Len(ClassRefs)
    BY <1>9 DEF Finish
  <2>2. UNCHANGED <<listed, tree, stage>> /\ UNCHANGED <<ClassRefs, Typedefs>>
    BY <2>1 DEF vars, find, ClassRefs, Typedefs
  <2>3. ClassRefs \in Seq(Compounds) /\ Typedefs \in Seq(RowType) /\ rows \in Seq(RowType)
        /\ Len(rows) <= Len(ClassRefs) /\ ClassRows(Len(rows))
        /\ Taken(space.of, space.ver) /\ space # None /\ stage # "closed"
    BY <2>1, SpaceIsRead DEF PageInv, PageType
  <2>4. Len(rows) = Len(ClassRefs) /\ Len(rows') = Len(ClassRefs) + Len(Typedefs)
    <3>1. Len(rows) \in Nat /\ Len(ClassRefs) \in Nat
      BY <2>3
    <3>2. Len(rows \o Typedefs) = Len(rows) + Len(Typedefs)
      BY <2>3
    <3>3. Len(rows) >= Len(ClassRefs) /\ Len(rows) <= Len(ClassRefs)
      BY <2>1, <2>3
    <3>4. Len(rows) = Len(ClassRefs)
      BY <3>1, <3>3
    <3>5. rows' = rows \o Typedefs
      BY <2>1
    <3> QED
      BY <3>2, <3>4, <3>5
  <2>5. /\ \A k \in 1..Len(ClassRefs) : rows'[k] = rows[k]
        /\ \A j \in DOMAIN Typedefs : rows'[Len(ClassRefs) + j] = Typedefs[j]
    BY <2>1, <2>3, <2>4
  <2>6. ClassRows(Len(ClassRefs))'
    <3>1. \A k, x : IsClassRow(k, x) => IsClassRow(k, x)'
      BY <1>2, <2>1, <2>2, <2>3
    <3> QED
      BY <2>2, <2>3, <2>4, <2>5, <3>1 DEF ClassRows
  <2>7. Taken(space.of, space.ver)'
    BY <2>1, <2>2, <2>3 DEF Taken
  <2> QED
    BY <2>1, <2>2, <2>3, <2>4, <2>5, <2>6, <2>7 DEF PageInv
<1>10. CASE Fails \/ Dies \/ Elsewhere
  <2>1. pc' = "idle" /\ rows' = <<>>
    BY <1>10 DEF Fails, Dies, Elsewhere, Ends
  <2> QED
    BY <2>1 DEF PageInv
<1>11. CASE Doxygen \/ UNCHANGED tvars
  <2>1. UNCHANGED tags /\ UNCHANGED <<stage, query, reply>>
    BY <1>11 DEF Doxygen, Environment, WriteXml, WriteIndexXml, tvars, vars, find
  <2>2. UNCHANGED ClassName(Len(rows) + 1)
    BY <2>1 DEF tags, ClassName, ClassRefs
  <2> QED
    BY <1>3, <2>1, <2>2 DEF PageInv, AskedFor
<1> QED
  BY <1>4, <1>5, <1>6, <1>7, <1>8, <1>9, <1>10, <1>11 DEF TagsNext

LEMMA ReadInvNext ==
  ASSUME TagsInv, [TagsNext]_tvars PROVE ReadInv'
<1> USE DEF TagsInv, ReadInv
<1>1. ASSUME UNCHANGED disk, tree' = tree \/ tree' = NoTrees \/ Load,
             rewritten' = rewritten \/ tree' = NoTrees
      PROVE  ReadInv'
  <2>1. CASE tree' = NoTrees
    BY <2>1 DEF NoTrees
  <2>2. CASE tree' = tree /\ rewritten' = rewritten
    BY <1>1, <2>2
  <2>3. CASE Load /\ rewritten' = rewritten
    BY <1>1, <2>3 DEF Load, IndexInv, TypeOK
  <2> QED
    BY <1>1, <2>1, <2>2, <2>3
<1>2. \A q : Ask(q) => UNCHANGED <<disk, tree>>
  BY DEF Ask, Find, FindNoEntry, Reply, xmlFiles
<1>3. FindOwn \/ FindInner \/ FindNothing \/ Open => UNCHANGED <<disk, tree>>
  BY DEF FindOwn, FindInner, FindNothing, Open, Reply, xmlFiles
<1>4. LoadFails \/ Exit => UNCHANGED disk /\ tree' = NoTrees
  BY DEF LoadFails, Exit, Forget, xmlFiles
<1>5. Load => UNCHANGED disk
  BY DEF Load, xmlFiles
<1>6. CASE Doxygen
  <2>1. stage = "closed" => tree = NoTrees
    BY DEF IndexInv, FindInv
  <2>2. tree' = tree
    BY <1>6 DEF Doxygen, Environment, WriteXml, WriteIndexXml
  <2>3. stage # "closed" => rewritten'
    BY <1>6 DEF Doxygen
  <2> QED
    BY <2>1, <2>2, <2>3 DEF NoTrees
<1>7. (\E q \in Spaces : Run(q)) \/ NextClass => UNCHANGED <<disk, tree, rewritten>>
  BY <1>2 DEF Run, NextClass
<1>8. NamespaceFound \/ ClassFound \/ Finish \/ UNCHANGED tvars => UNCHANGED <<disk, tree, rewritten>>
  BY DEF NamespaceFound, ClassFound, Finish, tvars, vars, xmlFiles
<1>9. Finding \/ Elsewhere => UNCHANGED <<disk, rewritten>> /\ (tree' = tree \/ Load)
  BY <1>2, <1>3, <1>5 DEF Finding, Elsewhere
<1>10. Fails \/ Dies => UNCHANGED disk /\ tree' = NoTrees
  BY <1>4 DEF Fails, Dies
<1> QED
  BY <1>1, <1>6, <1>7, <1>8, <1>9, <1>10 DEF TagsNext

LEMMA TagsInvCorrect == TagsSpec => []TagsInv
<1>1. TagsInv /\ [TagsNext]_tvars => TagsInv'
  <2> SUFFICES ASSUME TagsInv, [TagsNext]_tvars PROVE TagsInv'
    OBVIOUS
  <2>1. IndexInv'
    BY TagsStep, TypeNext, FindInvNext, AnswerInvNext DEF IndexInv, TagsInv
  <2> QED
    BY <2>1, PageTypeNext, PageInvNext, ReadInvNext DEF TagsInv
<1> QED
  BY <1>1, TagsInvInit, PTL DEF TagsSpec

\* The page asks the index for nothing it does not promise: what is proved of Spec
\* holds while pages are made.
THEOREM PagesUseTheIndex == TagsSpec => Spec
<1>1. TagsInv /\ [TagsNext]_tvars => [Next]_vars
  BY TagsStep DEF TagsInv
<1>2. TagsInit => Init
  BY DEF TagsInit
<1> QED
  BY <1>1, <1>2, TagsInvCorrect, PTL DEF TagsSpec, Spec

\* The variables of the page keep their types, and a page is never written without
\* its namespace.
THEOREM TagsTypeCorrect == TagsSpec => []TagsTypeOK
<1>1. ASSUME TagsInv PROVE TagsTypeOK
  <2>1. \A j \in DOMAIN rows : rows[j] \in RowType
    BY <1>1 DEF TagsInv, PageType
  <2> QED
    BY <1>1, <2>1 DEF TagsInv, PageType, PageInv, IndexInv, TagsTypeOK, RowType
<1> QED
  BY <1>1, TagsInvCorrect, PTL

\* A page that mixes versions was made while doxygen rewrote the XML.
THEOREM VersionsAreOfOneDisk == TagsSpec => []MixedOnlyWhenRewritten
<1>1. ASSUME TagsInv PROVE MixedOnlyWhenRewritten
  <2> SUFFICES ASSUME pc = "done", ~rewritten
               PROVE  /\ space.ver = disk[space.of]
                      /\ \A j \in DOMAIN rows : rows[j].ver = disk[rows[j].of]
    BY DEF MixedOnlyWhenRewritten
  <2>1. \A of, ver : Taken(of, ver) => ver = disk[of]
    BY <1>1 DEF Taken, TagsInv, ReadInv
  <2>2. space.ver = disk[space.of]
    BY <1>1, <2>1 DEF TagsInv, PageInv
  <2>3. rows \in Seq(RowType) /\ Typedefs \in Seq(RowType) /\ ClassRefs \in Seq(Compounds)
        /\ Len(rows) = Len(ClassRefs) + Len(Typedefs)
    BY <1>1, SpaceIsRead DEF TagsInv, PageType, PageInv
  <2>4. ASSUME NEW j \in DOMAIN rows PROVE rows[j].ver = disk[rows[j].of]
    <3>1. CASE j \in 1..Len(ClassRefs)
      BY <1>1, <2>1, <3>1 DEF TagsInv, PageInv, ClassRows, IsClassRow
    <3>2. CASE j > Len(ClassRefs)
      <4>1. j - Len(ClassRefs) \in DOMAIN Typedefs
        BY <2>3, <3>2
      <4>2. rows[j] = Typedefs[j - Len(ClassRefs)]
        BY <1>1, <2>3, <4>1 DEF TagsInv, PageInv
      <4>3. PICK at_ : Typedefs[j - Len(ClassRefs)] = Row("typedef", at_, space.of, space.ver)
        BY <4>1, ZenonT(40) DEF Typedefs
      <4>4. rows[j].of = space.of /\ rows[j].ver = space.ver
        BY <4>2, <4>3 DEF Row
      <4> QED
        BY <2>2, <4>4
    <3> QED
      BY <2>3, <3>1, <3>2
  <2> QED
    BY <2>2, <2>4
<1> QED
  BY <1>1, TagsInvCorrect, PTL

\* A finished page is complete: each class, each typedef, in order and once.
THEOREM PagesAreComplete == TagsSpec => []PageIsComplete
<1>1. ASSUME TagsInv, pc = "done" PROVE PageIsComplete
  <2>1. /\ space.of \in Compounds /\ space.ver \in Versions
        /\ ClassRefs \in Seq(Compounds) /\ Typedefs \in Seq(RowType) /\ rows \in Seq(RowType)
    BY <1>1, SpaceIsRead DEF TagsInv, PageType
  <2>2. /\ Len(rows) = Len(ClassRefs) + Len(Typedefs) /\ ClassRows(Len(ClassRefs))
        /\ \A j \in DOMAIN Typedefs : rows[Len(ClassRefs) + j] = Typedefs[j]
    BY <1>1 DEF TagsInv, PageInv
  <2> DEFINE n == Len(ClassRefs)
             declared == Declared(space.of, space.ver)
             types == {j \in DOMAIN rows : rows[j].what = "typedef"}
  <2>3. /\ \A j \in DOMAIN Typedefs : Typedefs[j].what = "typedef"
        /\ {Typedefs[j].at : j \in DOMAIN Typedefs} = declared
        /\ \A j, k \in DOMAIN Typedefs : j < k => Typedefs[j].at < Typedefs[k].at
    BY <2>1, TypedefsListed
  <2>4. ASSUME NEW k \in DOMAIN ClassRefs
        PROVE  LET c == ClassRefs[k]
                   d == rows[k].of
               IN  /\ rows[k].what = "class"
                   /\ Transformed(RawName[d]) = Transformed(RawName[c])
                   /\ \/ d = c \/ c \notin listed \/ Kind[c] \notin AllowedKinds
                      \/ Position[d] > Position[c]
    <3> DEFINE c == ClassRefs[k]
               d == rows[k].of
    <3>1. IsClassRow(k, rows[k]) /\ c \in Compounds
      BY <2>1, <2>2 DEF ClassRows
    <3>2. d \in Compounds /\ IsEntry(listed, Transformed(RawName[c]), d)
      BY <3>1 DEF IsClassRow, Taken, ClassName
    <3>3. rows[k].what = "class"
      BY <3>1 DEF IsClassRow, Row
    <3> HIDE DEF c, d
    <3>4. Transformed(RawName[d]) = Transformed(RawName[c])
      BY <3>2 DEF IsEntry
    <3>5. c \in listed /\ Kind[c] \in AllowedKinds => Position[c] <= Position[d]
      BY <3>2 DEF IsEntry
    <3>6. Position[c] \in Nat /\ Position[d] \in Nat /\ (Position[c] = Position[d] => c = d)
      BY <3>1, <3>2, XmlAssumption
    <3>7. d = c \/ c \notin listed \/ Kind[c] \notin AllowedKinds \/ Position[d] > Position[c]
      BY <3>5, <3>6
    <3> QED
      BY <3>3, <3>4, <3>7 DEF c, d
  <2>5. ASSUME NEW j \in n+1..Len(rows)
        PROVE  j - n \in DOMAIN Typedefs /\ rows[j] = Typedefs[j - n]
    BY <2>1, <2>2
  <2>6. \A j \in 1..n : rows[j].what = "class"
    BY <2>1, <2>4
  <2>7. types = n+1..Len(rows)
    <3>1. \A j \in n+1..Len(rows) : j \in DOMAIN rows /\ rows[j].what = "typedef"
      BY <2>1, <2>3, <2>5
    <3>2. \A j \in DOMAIN rows : j \in 1..n \/ j \in n+1..Len(rows)
      BY <2>1
    <3> QED
      BY <2>6, <3>1, <3>2
  <2>8. {rows[j].at : j \in types} = declared
    <3>1. \A j \in types : rows[j].at \in declared
      BY <2>3, <2>5, <2>7
    <3>2. ASSUME NEW x \in declared PROVE \E j \in types : rows[j].at = x
      <4>1. PICK i \in DOMAIN Typedefs : Typedefs[i].at = x
        BY <2>3
      <4>2. n + i \in n+1..Len(rows) /\ rows[n + i] = Typedefs[i]
        BY <2>1, <2>2
      <4> QED
        BY <2>7, <4>1, <4>2
    <3> HIDE DEF types, declared
    <3> QED
      BY <3>1, <3>2
  <2>9. ASSUME NEW j \in types, NEW k \in types, j < k PROVE rows[j].at < rows[k].at
    <3>1. j \in n+1..Len(rows) /\ k \in n+1..Len(rows)
      BY <2>7
    <3>2. j - n < k - n
      BY <2>1, <2>9, <3>1
    <3> QED
      BY <2>3, <2>5, <3>1, <3>2
  <2> HIDE DEF types, n
  <2> QED
    BY <2>4, <2>7, <2>8, <2>9 DEF PageIsComplete, types, n, Declared
<1>2. pc # "done" => PageIsComplete
  BY DEF PageIsComplete
<1>3. TagsInv => PageIsComplete
  BY <1>1, <1>2
<1> QED
  BY <1>3, TagsInvCorrect, PTL
=============================================================================
