--------------------------- MODULE Listing_proofs ---------------------------
(***************************************************************************)
(* Proofs about Listing, for every header and every number of edits.       *)
(***************************************************************************)
EXTENDS Listing, Recursion_proofs

\* What e shows of the lines of c.
Shows(e, c) ==
  /\ e.ver = c.ver /\ e.blank = c.blank
  /\ e.at = IF e.remove THEN c.at \ c.blank ELSE c.at

LEMMA ShownShows == \A c, remove : Shows(Shown(c, remove), c)
  BY DEF Shows, Shown

\* A file is searched only while there is no content; once there is, every
\* excerpt shown comes from it -- but the empty ones shown before.
CacheInv ==
  /\ pc \in {"up", "end", "semicolon", "braces", "collect"} => content.at = {}
  /\ \A e \in shown : e.at # {} => Shows(e, content)

LEMMA CacheInvNext == CacheInv /\ [Next]_vars => CacheInv'
<1> SUFFICES ASSUME CacheInv, [Next]_vars PROVE CacheInv'
  OBVIOUS
<1> USE DEF CacheInv
<1>1. CASE Edit
  BY <1>1 DEF Edit, search
<1>2. ASSUME NEW remove \in BOOLEAN, Read(remove) PROVE CacheInv'
  BY <1>2 DEF Read
<1>3. ASSUME NEW remove \in BOOLEAN, ReadCached(remove) PROVE CacheInv'
  <2>1. content' = content /\ pc' = pc
    BY <1>3 DEF ReadCached
  <2>2. \A e \in shown' \ shown : Shows(e, content)
    BY <1>3, ShownShows DEF ReadCached, Answer
  <2> QED
    BY <2>1, <2>2 DEF Shows
<1>4. CASE Up
  BY <1>4 DEF Up
<1>5. CASE FindEnd
  BY <1>5 DEF FindEnd
<1>6. CASE Semicolon
  BY <1>6 DEF Semicolon
<1>7. CASE Braces
  BY <1>7 DEF Braces
<1>8. CASE Collect
  \* Nothing but empty excerpts has been shown.
  <2>1. \A e \in shown : e.at = {}
    BY <1>8 DEF Collect, Shows
  <2>2. \A e \in shown' \ shown : Shows(e, content')
    BY <1>8, ShownShows DEF Collect, Answer
  <2>3. pc' = "idle"
    BY <1>8 DEF Collect
  <2> QED
    BY <2>1, <2>2, <2>3 DEF Shows
<1>9. CASE Fail
  BY <1>9 DEF Fail
<1>10. CASE UNCHANGED vars
  BY <1>10 DEF vars
<1> QED
  BY <1>1, <1>2, <1>3, <1>4, <1>5, <1>6, <1>7, <1>8, <1>9, <1>10 DEF Next

\* Whatever is edited between the reads, all documents of a process show the
\* same lines of a declaration.
THEOREM ExcerptsAgree == Spec => []ReadsAgree
<1>1. Init => CacheInv
  BY DEF Init, CacheInv
<1>2. CacheInv => ReadsAgree
  BY DEF CacheInv, ReadsAgree, Shows
<1> QED
  BY <1>1, <1>2, CacheInvNext, PTL DEF Spec
-----------------------------------------------------------------------------
(* The depth of braces.                                                    *)

\* What a line adds to it.
Added(l) == IF Code(l) THEN Opens(l) - Closes(l) ELSE 0

LEMMA LineAdds ==
  \A l \in Lines : Added(l) \in Int /\ Opens(l) \in {0, 1} /\ Closes(l) \in {0, 1}
  BY DEF Added, Opens, Closes

\* Depth adds up what the lines add.
LEMMA DepthAddsUp ==
  ASSUME NEW n \in Nat, NEW s \in [0..n-1 -> Lines]
  PROVE  /\ Depth(s) \in [{-1} \cup 0..n-1 -> Int]
         /\ \A k \in 0..n-1 : Depth(s)[k] = Depth(s)[k - 1] + Added(s[k])
<1> DEFINE d == [k \in Nat |-> IF k < n THEN Added(s[k]) ELSE 0]
           places == {-1} \cup DOMAIN s
           Body(after) ==
             [k \in places |->
                IF k = -1 THEN 0
                ELSE IF Code(s[k]) THEN after[k - 1] + Opens(s[k]) - Closes(s[k])
                ELSE after[k - 1]]
<1>1. \A k \in 0..n-1 : s[k] \in Lines /\ k \in Nat /\ k < n /\ k-1 \in places /\ k \in places
  OBVIOUS
<1>2. d \in [Nat -> Int]
  <2>1. \A k \in Nat : k < n => Added(s[k]) \in Int
    BY LineAdds
  <2> QED
    BY <2>1
<1>3. PICK f \in [Nat -> Int] : f[0] = 0 /\ \A k \in Nat : f[k + 1] = f[k] + d[k]
  <2> HIDE DEF d
  <2> QED
    BY <1>2, Sums
<1> DEFINE g == [k \in places |-> f[k + 1]]
<1>4. ASSUME NEW k \in 0..n-1 PROVE g[k] = g[k - 1] + Added(s[k]) /\ g[k - 1] \in Int
  <2>1. g[k] = f[k + 1] /\ g[k - 1] = f[k]
    BY <1>1
  <2>2. d[k] = Added(s[k])
    BY <1>1
  <2> HIDE DEF d, g
  <2> QED
    BY <1>1, <1>3, <2>1, <2>2
<1>5. g = Body(g)
  <2>1. ASSUME NEW k \in places PROVE g[k] = Body(g)[k]
    <3>1. CASE k = -1
      <4>1. g[k] = 0
        BY <1>3, <3>1
      <4>2. Body(g)[k] = 0
        BY <3>1
      <4> HIDE DEF g, Body
      <4> QED
        BY <4>1, <4>2
    <3>2. CASE k \in 0..n-1
      <4>1. Body(g)[k] = IF Code(s[k]) THEN g[k - 1] + Opens(s[k]) - Closes(s[k]) ELSE g[k - 1]
        BY <3>2
      <4> HIDE DEF g, Body
      <4> QED
        BY <1>1, <1>4, <3>2, <4>1, LineAdds DEF Added
    <3> QED
      BY <3>1, <3>2
  <2> HIDE DEF d
  <2> QED
    BY <2>1
<1> DEFINE h == Depth(s)
<1>6. h = Body(h)
  <2>1. h = CHOOSE after : after = Body(after)
    BY DEF Depth
  <2> HIDE DEF Body, g
  <2> QED
    BY <1>5, <2>1
<1> HIDE DEF h
<1>7. ASSUME NEW k \in 0..n-1
      PROVE  h[k] = IF Code(s[k]) THEN h[k - 1] + Opens(s[k]) - Closes(s[k]) ELSE h[k - 1]
  BY <1>1, <1>6
<1>8. h \in [places -> Int]
  <2> DEFINE Ints == {k \in Nat : k <= n => h[k - 1] \in Int}
  <2>1. 0 \in Ints
    BY <1>6
  <2>2. ASSUME NEW k \in Ints PROVE k + 1 \in Ints
    <3>1. SUFFICES ASSUME k + 1 <= n PROVE h[k] \in Int
      OBVIOUS
    <3>2. h[k - 1] \in Int /\ k \in 0..n-1
      BY <3>1
    <3> QED
      BY <1>1, <1>7, <3>2, LineAdds, SMTT(30)
  <2> HIDE DEF Ints
  <2>3. Ints = Nat
    <3>1. Ints \in SUBSET Nat
      BY DEF Ints
    <3> QED
      BY <2>1, <2>2, <3>1, Induction
  <2>4. \A k \in places : h[k] \in Int
    <3> TAKE k \in places
    <3>1. k + 1 \in Ints
      BY <2>3
    <3> QED
      BY <3>1 DEF Ints
  <2> QED
    BY <1>6, <2>4
<1>9. ASSUME NEW k \in 0..n-1 PROVE h[k] = h[k - 1] + Added(s[k])
  BY <1>1, <1>7, <1>8, LineAdds DEF Added
<1> QED
  BY <1>8, <1>9 DEF h
-----------------------------------------------------------------------------
(* Types.                                                                  *)

\* A header has at most a line more for each edit; the location stays doxygen's.
HeaderInv ==
  /\ ver \in 0..MaxEdits
  /\ \E n \in 0..MaxLines+ver : lines \in [0..n-1 -> Texts]
  /\ loc.first \in Nat /\ loc.line \in Nat \ {0} /\ loc.last \in Nat
  /\ loc.bodyend \in Nat /\ loc.namespace \in BOOLEAN

ReaderTypes ==
  /\ flag \in BOOLEAN
  /\ pc \in {"idle", "up", "end", "semicolon", "braces", "collect", "failed"}
  /\ i \in Int /\ brace_counter \in Int
  /\ start_index \in Nat /\ end_index \in Nat
  /\ content.ver \in 0..MaxEdits
  /\ content.blank \subseteq content.at /\ content.at \subseteq Nat

ShownTypes ==
  shown \subseteq [remove : BOOLEAN, ver : 0..MaxEdits, at : SUBSET Nat, blank : SUBSET Nat]

TypeInv == HeaderInv /\ ReaderTypes /\ ShownTypes

LEMMA TypeInvIsTypeOK == TypeInv => TypeOK
<1> SUFFICES ASSUME TypeInv PROVE TypeOK
  OBVIOUS
<1>1. PICK n \in 0..MaxLines+ver : lines \in [0..n-1 -> Texts]
  BY DEF TypeInv, HeaderInv
<1>2. n \in 0..MaxLines+MaxEdits
  BY ListingAssumption DEF TypeInv, HeaderInv
<1> QED
  BY <1>1, <1>2 DEF TypeInv, HeaderInv, ReaderTypes, ShownTypes, TypeOK

LEMMA SizeIsLength ==
  ASSUME NEW n \in Nat, lines \in [0..n-1 -> Texts]
  PROVE  Size = n /\ DOMAIN lines = 0..n-1
  BY FS_Interval DEF Size

LEMMA TypeInvInit == Init => TypeInv
<1> SUFFICES ASSUME Init PROVE TypeInv
  OBVIOUS
<1>1. PICK n \in 0..MaxLines : lines \in [0..n-1 -> Texts]
  BY ListingAssumption DEF Init
<1>2. n \in 0..MaxLines+ver /\ ver \in 0..MaxEdits
  BY ListingAssumption DEF Init
<1>3. DOMAIN lines = 0..n-1
  BY <1>1
<1>4. /\ loc.first \in Nat /\ loc.line \in Nat \ {0} /\ loc.last \in Nat
      /\ loc.bodyend \in Nat /\ loc.namespace \in BOOLEAN
  <2>1. loc \in Locations(lines)
    BY DEF Init
  <2> QED
    BY <1>3, <2>1 DEF Locations
<1>5. ReaderTypes
  <2>1. flag \in BOOLEAN
    BY Zenon DEF Init
  <2>2. content.ver = 0 /\ content.blank = {} /\ content.at = {}
    BY DEF Init, Nothing, Excerpt
  <2> QED
    BY <2>1, <2>2, ListingAssumption DEF Init, ReaderTypes
<1>6. ShownTypes
  BY DEF Init, ShownTypes
<1> QED
  BY <1>1, <1>2, <1>4, <1>5, <1>6 DEF TypeInv, HeaderInv

LEMMA HeaderInvNext ==
  ASSUME HeaderInv, [Next]_vars PROVE HeaderInv'
<1>1. PICK n \in 0..MaxLines+ver : lines \in [0..n-1 -> Texts]
  BY DEF HeaderInv
<1>2. Size = n /\ DOMAIN lines = 0..n-1 /\ n \in Nat /\ ver \in Nat
  BY <1>1, SizeIsLength, ListingAssumption DEF HeaderInv
<1>3. ASSUME NEW m \in 0..n+1, lines' \in [0..m-1 -> Texts], Edit
      PROVE  HeaderInv'
  <2>1. ver' = ver + 1 /\ ver' \in 0..MaxEdits
    BY <1>2, <1>3, ListingAssumption DEF Edit
  <2>2. m \in 0..MaxLines+ver'
    BY <1>1, <1>2, <2>1, ListingAssumption
  <2>3. loc' = loc
    BY <1>3 DEF Edit
  <2> QED
    BY <1>3, <2>1, <2>2, <2>3 DEF HeaderInv
<1>4. ASSUME NEW p \in 0..Size, NEW l \in Texts, Edit,
             lines' = [j \in 0..Size |-> IF j < p THEN lines[j]
                                         ELSE IF j = p THEN l ELSE lines[j - 1]]
      PROVE  HeaderInv'
  <2>1. lines' \in [0..n+1-1 -> Texts] /\ n+1 \in 0..n+1
    BY <1>1, <1>2, <1>4
  <2> QED
    BY <1>3, <1>4, <2>1
<1>5. ASSUME NEW p \in DOMAIN lines, Edit,
             lines' = [j \in 0..Size-2 |-> IF j < p THEN lines[j] ELSE lines[j + 1]]
      PROVE  HeaderInv'
  <2>1. lines' \in [0..n-1-1 -> Texts] /\ n-1 \in 0..n+1
    BY <1>1, <1>2, <1>5
  <2> QED
    BY <1>3, <1>5, <2>1
<1>6. CASE Edit
  BY <1>4, <1>5, <1>6 DEF Edit
<1>7. CASE UNCHANGED <<lines, ver, loc>>
  BY <1>7 DEF HeaderInv
<1> QED
  BY <1>6, <1>7 DEF Next, Read, ReadCached, Up, FindEnd, Semicolon, Braces, Collect, Fail, vars

\* What a reader is shown is typed as the content is.
LEMMA ShownIsTyped ==
  ASSUME ShownTypes, NEW remove \in BOOLEAN, NEW c,
         c.ver \in 0..MaxEdits, c.blank \subseteq c.at, c.at \subseteq Nat,
         shown' = shown \cup {Shown(c, remove)}
  PROVE  ShownTypes'
<1>1. c.blank \in SUBSET Nat /\ c.at \in SUBSET Nat /\ (c.at \ c.blank) \in SUBSET Nat
  OBVIOUS
<1> QED
  BY <1>1 DEF Shown, ShownTypes

LEMMA TypeInvNext == TypeInv /\ [Next]_vars => TypeInv'
<1> SUFFICES ASSUME TypeInv, [Next]_vars PROVE ReaderTypes' /\ ShownTypes'
  BY HeaderInvNext DEF TypeInv
<1>1. PICK n \in 0..MaxLines+ver : lines \in [0..n-1 -> Texts]
  BY DEF TypeInv, HeaderInv
<1>2. n \in Nat /\ DOMAIN lines = 0..n-1 /\ ver \in 0..MaxEdits
  BY <1>1, ListingAssumption DEF TypeInv, HeaderInv
<1>3. \A l : Opens(l) \in {0, 1} /\ Closes(l) \in {0, 1}
  BY DEF Opens, Closes
<1>4. HeaderInv /\ ReaderTypes /\ ShownTypes
  BY DEF TypeInv
<1>5. shown' = shown => ShownTypes'
  BY <1>4 DEF ShownTypes
<1>6. CASE Edit
  BY <1>4, <1>5, <1>6 DEF Edit, search, ReaderTypes
<1>7. ASSUME NEW remove \in BOOLEAN, Read(remove) PROVE ReaderTypes' /\ ShownTypes'
  BY <1>4, <1>5, <1>7 DEF Read, ReaderTypes, HeaderInv
<1>8. ASSUME NEW remove \in BOOLEAN, ReadCached(remove) PROVE ReaderTypes' /\ ShownTypes'
  <2>1. ReaderTypes'
    BY <1>4, <1>8 DEF ReadCached, search, ReaderTypes
  <2> QED
    BY <1>4, <1>8, <2>1, ShownIsTyped DEF ReadCached, Answer, ReaderTypes
<1>9. CASE Up
  BY <1>2, <1>4, <1>5, <1>9 DEF Up, ReaderTypes
<1>10. CASE FindEnd
  BY <1>4, <1>5, <1>10, SMTT(30) DEF FindEnd, ReaderTypes, HeaderInv
<1>11. CASE Semicolon
  BY <1>2, <1>4, <1>5, <1>11 DEF Semicolon, ReaderTypes
<1>12. CASE Braces
  <2>1. Count(brace_counter, lines[i]) \in Int
    BY <1>3, <1>4 DEF Count, ReaderTypes
  <2> QED
    BY <1>2, <1>4, <1>5, <1>12, <2>1 DEF Braces, ReaderTypes
<1>13. CASE Collect
  <2> DEFINE at == {j \in start_index..end_index : ~Comment(lines[j])}
             blank == {j \in at : lines[j] = "blank"}
  <2>1. content' = Excerpt(ver, at, blank)
    BY <1>13 DEF Collect, Kept
  <2>2. at \subseteq Nat /\ blank \subseteq at
    BY <1>4 DEF ReaderTypes
  <2>3. content'.ver = ver /\ content'.at = at /\ content'.blank = blank
    BY <2>1 DEF Excerpt
  <2>4. shown' = shown \cup {Shown(content', flag)}
    BY <1>13 DEF Collect, Answer
  <2> HIDE DEF at, blank
  <2>5. ShownTypes'
    BY <1>2, <1>4, <2>2, <2>3, <2>4, ShownIsTyped DEF ReaderTypes
  <2> QED
    BY <1>2, <1>4, <1>13, <2>2, <2>3, <2>5 DEF Collect, search, ReaderTypes
<1>14. CASE Fail
  BY <1>4, <1>5, <1>14 DEF Fail, search, ReaderTypes
<1>15. CASE UNCHANGED vars
  BY <1>4, <1>5, <1>15 DEF vars, search, ReaderTypes
<1> QED
  BY <1>6, <1>7, <1>8, <1>9, <1>10, <1>11, <1>12, <1>13, <1>14, <1>15 DEF Next

\* Type correctness, for every set of headers.
THEOREM ListingTypeCorrect == Spec => []TypeOK
<1>1. TypeInv => TypeOK
  BY TypeInvIsTypeOK
<1> QED
  BY <1>1, TypeInvInit, TypeInvNext, PTL DEF Spec
-----------------------------------------------------------------------------
(* The excerpt is the declaration.                                         *)

\* d declares something in the header s, of n lines, and nothing looks like its
\* end: Plain, of any header and location.
PlainIn(s, d) ==
  d.bodyend = 0 =>
    IF d.namespace
    THEN \A j \in d.first..d.last :
           /\ s[j] \notin {"comment_open", "comment_close"}
           /\ s[j] = "close_open" => Lowest(s, j) > Depth(s)[d.first - 1]
    ELSE \A j \in d.line-1..d.last : s[j] # "comment_semi"

Lies(s, d, n) ==
  /\ s \in [0..n-1 -> Lines]
  /\ d.first \in Nat /\ d.line \in Nat \ {0} /\ d.last \in 0..n-1
  /\ d.bodyend \in Nat /\ d.namespace \in BOOLEAN
  /\ Declares(s, d)

\* At line k, _find_namespace_end has counted c: nothing until the first brace,
\* on line o, and then the depth within it.
Counted(s, d, o, k, c) ==
  \/ k <= o /\ c = 0 /\ Depth(s)[k - 1] = Depth(s)[d.first - 1]
  \/ /\ k > o /\ s[o] = "open" /\ Depth(s)[o - 1] = Depth(s)[d.first - 1]
     /\ c > 0 /\ c = Depth(s)[k - 1] - Depth(s)[o - 1]

LEMMA BracesStep ==
  ASSUME NEW n \in Nat, NEW s, NEW d, Lies(s, d, n), PlainIn(s, d),
         d.bodyend = 0, d.namespace,
         NEW o \in d.line-1..d.last, BlockFrom(s, d, o),
         NEW k \in d.first..d.last, NEW c \in Int, Counted(s, d, o, k, c)
  PROVE  IF c + Opens(s[k]) > 0 /\ Count(c, s[k]) <= 0
         THEN k = d.last
         ELSE k < d.last /\ Counted(s, d, o, k + 1, Count(c, s[k]))
<1> DEFINE D == Depth(s)
<1>1. s \in [0..n-1 -> Lines] /\ d.first \in Nat /\ d.line \in Nat /\ d.last \in 0..n-1 /\ d.first < d.line
  BY DEF Lies, Declares
<1> USE <1>1
<1>2. D \in [{-1} \cup 0..n-1 -> Int] /\ \A j \in 0..n-1 : D[j] = D[j - 1] + Added(s[j])
  BY DepthAddsUp
<1>3. /\ k \in 0..n-1 /\ o \in 0..n-1 /\ s[k] \in Lines /\ s[o] \in Lines
      /\ D[k] \in Int /\ D[k - 1] \in Int /\ D[o - 1] \in Int /\ D[d.first - 1] \in Int /\ D[o] \in Int
  <2>1. k \in 0..n-1 /\ o \in 0..n-1 /\ d.first \in 0..n-1
    OBVIOUS
  <2>2. {k, k - 1, o, o - 1, d.first - 1} \subseteq {-1} \cup 0..n-1
    BY <2>1
  <2> HIDE DEF D
  <2> QED
    BY <1>2, <2>1, <2>2
<1>4. D[k] = D[k - 1] + Added(s[k]) /\ k + 1 - 1 = k
  BY <1>2, <1>3
<1>5. s[k] \notin {"comment_open", "comment_close"} /\ (s[k] = "close_open" => Lowest(s, k) > D[d.first - 1])
  BY DEF PlainIn
<1>6. Lowest(s, k) = D[k - 1] - (IF s[k] \in {"close", "close_open"} THEN 1 ELSE 0)
  BY DEF Lowest
<1>7. Lowest(s, o) = D[o - 1] - (IF s[o] \in {"close", "close_open"} THEN 1 ELSE 0)
  BY DEF Lowest
<1> HIDE DEF D
<1>8. CASE k < o
  <2>1. s[k] = "code" \/ ~Code(s[k])
    BY <1>8 DEF BlockFrom
  <2>2. s[k] \in {"code", "blank", "comment", "comment_semi"}
    BY <1>3, <1>5, <2>1 DEF Code, Comment, Lines
  <2>3. Opens(s[k]) = 0 /\ Closes(s[k]) = 0 /\ Added(s[k]) = 0
    BY <2>2 DEF Opens, Closes, Added
  <2>4. c = 0 /\ D[k - 1] = D[d.first - 1]
    BY <1>3, <1>8 DEF Counted, D
  <2>5. Count(c, s[k]) = 0
    BY <2>3, <2>4 DEF Count
  <2>6. D[k] = D[d.first - 1]
    BY <1>3, <1>4, <2>3, <2>4
  <2> QED
    BY <1>3, <1>4, <1>8, <2>3, <2>4, <2>5, <2>6 DEF Counted, D
<1>9. CASE k = o
  <2>1. c = 0 /\ D[k - 1] = D[d.first - 1]
    BY <1>3, <1>9 DEF Counted, D
  <2>2. s[k] \in {"open", "open_close"}
    BY <1>3, <1>5, <1>6, <1>9, <2>1 DEF BlockFrom
  <2>3. CASE s[k] = "open_close"
    BY <1>9, <2>1, <2>3 DEF BlockFrom, Opens, Closes, Count
  <2>4. CASE s[k] = "open"
    <3>1. d.last # k
      BY <1>9, <2>4 DEF BlockFrom
    <3>2. Opens(s[k]) = 1 /\ Closes(s[k]) = 0 /\ Added(s[k]) = 1
      BY <2>4 DEF Opens, Closes, Added, Code, Comment
    <3>3. Count(c, s[k]) = 1
      BY <2>1, <3>2 DEF Count
    <3> QED
      BY <1>3, <1>4, <1>9, <2>1, <2>4, <3>1, <3>2, <3>3 DEF Counted, D
  <2> QED
    BY <2>2, <2>3, <2>4
<1>10. CASE k > o
  <2>1. /\ s[o] = "open" /\ D[o - 1] = D[d.first - 1]
        /\ c > 0 /\ c = D[k - 1] - D[o - 1]
    BY <1>3, <1>10 DEF Counted, D
  <2>2. Lowest(s, o) = D[o - 1]
    BY <1>3, <1>7, <2>1
  <2>3. Opens(s[k]) \in {0, 1} /\ Closes(s[k]) \in {0, 1} /\ Added(s[k]) = Opens(s[k]) - Closes(s[k])
    BY <1>3, <1>5, LineAdds, SMTT(30) DEF Added, Code, Comment, Opens, Closes, Lines
  <2>4. Count(c, s[k]) = D[k] - D[o - 1]
    <3>1. Count(c, s[k]) = c + Opens(s[k]) - Closes(s[k])
      BY <2>1, <2>3 DEF Count
    <3>2. D[k] = D[k - 1] + (Opens(s[k]) - Closes(s[k]))
      BY <1>4, <2>3
    <3>3. c = D[k - 1] - D[o - 1] /\ D[k - 1] \in Int /\ D[o - 1] \in Int
      BY <1>3, <2>1
    <3>4. Opens(s[k]) \in Int /\ Closes(s[k]) \in Int
      BY <2>3
    <3> QED
      BY <3>1, <3>2, <3>3, <3>4, SMTT(30)
  <2>5. CASE k < d.last
    <3>1. Lowest(s, k) > D[o - 1]
      BY <1>10, <2>2, <2>5 DEF BlockFrom
    <3>2. D[k] >= Lowest(s, k)
      BY <1>3, <1>4, <1>6, SMTT(30) DEF Added, Opens, Closes, Lines, Code, Comment
    <3>3. Count(c, s[k]) > 0
      BY <1>3, <1>6, <2>4, <3>1, <3>2, SMTT(30)
    <3> QED
      BY <1>3, <1>4, <1>10, <2>1, <2>4, <2>5, <3>3 DEF Counted, D
  <2>6. CASE k = d.last
    <3>1. Lowest(s, k) = D[o - 1]
      BY <1>10, <2>2, <2>6 DEF BlockFrom
    <3>2. s[k] = "close" /\ D[k - 1] = D[o - 1] + 1
      BY <1>3, <1>5, <1>6, <2>1, <3>1, SMTT(30)
    <3>3. Opens(s[k]) = 0 /\ Closes(s[k]) = 1
      BY <3>2 DEF Opens, Closes
    <3> QED
      BY <1>3, <2>1, <2>6, <3>2, <3>3 DEF Count
  <2> QED
    BY <1>3, <2>5, <2>6
<1> QED
  BY <1>3, <1>8, <1>9, <1>10

\* _find_line_index stops at the declaration's semicolon.
LEMMA SemicolonStep ==
  ASSUME NEW n \in Nat, NEW s, NEW d, Lies(s, d, n), PlainIn(s, d),
         d.bodyend = 0, ~d.namespace, NEW k \in d.first..d.last
  PROVE  k \in 0..n-1 /\ (Ends(s[k]) <=> k = d.last)
<1>1. s \in [0..n-1 -> Lines] /\ d.first \in Nat /\ d.line \in Nat /\ d.last \in 0..n-1 /\ d.first < d.line
  BY DEF Lies, Declares
<1>2. k \in 0..n-1
  BY <1>1
<1>3. s[d.last] = "semi" /\ \A j \in d.first..d.last-1 : s[j] = "code" \/ ~Code(s[j])
  BY DEF Lies, Declares
<1>4. ASSUME k # d.last PROVE ~Ends(s[k])
  <2>1. s[k] = "code" \/ ~Code(s[k])
    BY <1>1, <1>2, <1>3, <1>4
  <2>2. CASE k <= d.line - 1
    <3>1. Code(s[k])
      BY <1>1, <2>2 DEF Lies, Declares
    <3> QED
      BY <2>1, <3>1 DEF Ends
  <2>3. CASE k > d.line - 1
    <3>1. s[k] # "comment_semi"
      BY <1>1, <2>3 DEF PlainIn
    <3> QED
      BY <2>1, <3>1 DEF Ends, Code, Comment
  <2> QED
    BY <1>1, <1>2, <2>2, <2>3
<1> QED
  BY <1>2, <1>3, <1>4 DEF Ends
\* The header is as doxygen saw it, and the declaration stands apart.
Undisturbed == ver = 0 /\ Separated /\ Plain

\* Where the search is: it began at the first line of the declaration and will
\* stop at its last.
SearchOK ==
  /\ pc # "failed"
  /\ pc = "up" => loc.first > 0 /\ i \in loc.first-1..loc.line-1
  /\ pc \in {"end", "semicolon", "braces", "collect"} => start_index = loc.first
  /\ pc \in {"semicolon", "braces"} => loc.bodyend = 0 /\ i \in loc.first..loc.last
  /\ pc = "semicolon" => ~loc.namespace
  /\ pc = "braces" =>
       /\ loc.namespace
       /\ \E o \in loc.line-1..loc.last :
            BlockFrom(lines, loc, o) /\ Counted(lines, loc, o, i, brace_counter)
  /\ pc = "collect" => end_index = loc.last

Whole == {j \in loc.first..loc.last : ~Comment(lines[j])}

Declaration(remove) ==
  {j \in loc.first..loc.last : Code(lines[j]) \/ (lines[j] = "blank" /\ ~remove)}

\* What is kept, and what was shown, is the declaration.
ContentOK ==
  /\ \/ content.at = {}
     \/ content.at = Whole /\ content.blank = {j \in Whole : lines[j] = "blank"}
  /\ \A e \in shown : e.at = Declaration(e.remove)

ExcerptInv ==
  /\ ver = 0 => \E n \in Nat : Lies(lines, loc, n)
  /\ Undisturbed => SearchOK /\ ContentOK

LEMMA PlainIsPlainIn == Plain => PlainIn(lines, loc)
  BY DEF Plain, PlainIn

LEMMA ExcerptInvInit == Init => ExcerptInv
<1> SUFFICES ASSUME Init PROVE ExcerptInv
  OBVIOUS
<1>1. PICK n \in 0..MaxLines : lines \in [0..n-1 -> Texts]
  BY ListingAssumption DEF Init
<1>2. n \in Nat /\ lines \in [0..n-1 -> Lines] /\ DOMAIN lines = 0..n-1
  BY <1>1, ListingAssumption
<1>3. loc \in Locations(lines) /\ Declares(lines, loc)
  BY DEF Init
<1>4. Lies(lines, loc, n)
  <2>1. /\ loc.first \in DOMAIN lines /\ loc.line \in {j + 1 : j \in DOMAIN lines}
        /\ loc.last \in DOMAIN lines /\ loc.namespace \in BOOLEAN
        /\ loc.bodyend \in {0} \cup {j + 1 : j \in DOMAIN lines}
    BY <1>3 DEF Locations
  <2>2. loc.line \in Nat \ {0} /\ loc.bodyend \in Nat
    BY <1>2, <2>1
  <2> QED
    BY <1>2, <1>3, <2>1, <2>2 DEF Lies
<1>5. SearchOK
  BY DEF Init, SearchOK
<1>6. content.at = {} /\ shown = {}
  BY DEF Init, Nothing, Excerpt
<1> QED
  BY <1>2, <1>4, <1>5, <1>6 DEF ExcerptInv, ContentOK

\* The steps of a reader.
LEMMA ExcerptStep ==
  ASSUME TypeInv, Undisturbed, NEW n \in Nat, Lies(lines, loc, n), SearchOK, ContentOK,
         Next, ~Edit
  PROVE  SearchOK' /\ ContentOK'
<1>1. lines' = lines /\ loc' = loc /\ ver' = ver
  BY DEF Next, Read, ReadCached, Up, FindEnd, Semicolon, Braces, Collect, Fail
<1>2. /\ lines \in [0..n-1 -> Lines] /\ DOMAIN lines = 0..n-1
      /\ loc.first \in Nat /\ loc.line \in Nat \ {0} /\ loc.last \in 0..n-1
      /\ loc.bodyend \in Nat /\ loc.namespace \in BOOLEAN
      /\ loc.first < loc.line /\ loc.line <= loc.last + 1
  BY DEF Lies, Declares
<1>3. PlainIn(lines, loc)
  BY PlainIsPlainIn DEF Undisturbed
<1>4. content' = content /\ shown' = shown => ContentOK'
  BY <1>1 DEF ContentOK, Whole, Declaration
<1>5. ASSUME NEW remove \in BOOLEAN, Read(remove) PROVE SearchOK' /\ ContentOK'
  <2>1. CASE loc.line = 1
    <3>1. loc.first = 0
      BY <1>2, <2>1
    <3> QED
      BY <1>1, <1>4, <1>5, <2>1, <3>1 DEF Read, SearchOK
  <2>2. CASE loc.line > 1
    <3>1. loc.first > 0
      BY <1>2, <2>2 DEF Undisturbed, Separated
    <3>2. pc' = "up" /\ i' = loc.line - 1 /\ content' = content /\ shown' = shown
      BY <1>5, <2>2 DEF Read
    <3> QED
      BY <1>1, <1>2, <1>4, <3>1, <3>2 DEF SearchOK
  <2> QED
    BY <1>2, <2>1, <2>2
<1>6. ASSUME NEW remove \in BOOLEAN, ReadCached(remove) PROVE SearchOK' /\ ContentOK'
  <2>1. SearchOK'
    BY <1>1, <1>6 DEF ReadCached, search, SearchOK
  <2>2. content.at = Whole /\ content.blank = {j \in Whole : lines[j] = "blank"}
    BY <1>6 DEF ReadCached, ContentOK
  <2>3. Shown(content, remove).at = Declaration(remove) /\ Shown(content, remove).remove = remove
    BY <2>2 DEF Shown, Whole, Declaration, Code, Comment
  <2>4. shown' = shown \cup {Shown(content, remove)} /\ content' = content
    BY <1>6 DEF ReadCached, Answer
  <2> QED
    BY <1>1, <2>1, <2>3, <2>4 DEF ContentOK, Whole, Declaration
<1>7. CASE Up
  <2>1. content' = content /\ shown' = shown /\ pc = "up"
    BY <1>7 DEF Up
  <2>2. loc.first > 0 /\ i \in loc.first-1..loc.line-1
    BY <2>1 DEF SearchOK
  <2>3. Code(lines[i]) <=> i # loc.first - 1
    <3>1. ~Code(lines[loc.first - 1])
      BY <2>2 DEF Undisturbed, Separated
    <3>2. \A j \in loc.first..loc.line-1 : Code(lines[j])
      BY DEF Lies, Declares
    <3> QED
      BY <1>2, <2>2, <3>1, <3>2
  <2>4. CASE Code(lines[i])
    <3>1. pc' = "up" /\ i' = i - 1
      BY <1>7, <2>1, <2>4 DEF Up
    <3> QED
      BY <1>1, <1>2, <1>4, <2>1, <2>2, <2>3, <2>4, <3>1 DEF SearchOK
  <2>5. CASE ~Code(lines[i])
    <3>1. pc' = "end" /\ start_index' = i + 1 /\ i = loc.first - 1
      BY <1>7, <2>3, <2>5 DEF Up
    <3>2. start_index' = loc.first
      BY <1>2, <3>1
    <3> QED
      BY <1>1, <1>4, <2>1, <3>1, <3>2 DEF SearchOK
  <2> QED
    BY <2>4, <2>5
<1>8. CASE FindEnd
  <2>1. content' = content /\ shown' = shown /\ start_index = loc.first /\ start_index' = loc.first
    BY <1>8 DEF FindEnd, SearchOK
  <2>2. CASE loc.bodyend > start_index
    <3>1. loc.bodyend = loc.last + 1
      BY <1>2, <2>1, <2>2 DEF Lies, Declares
    <3>2. pc' = "collect" /\ end_index' = loc.last
      BY <1>2, <1>8, <2>1, <2>2, <3>1 DEF FindEnd
    <3> QED
      BY <1>1, <1>4, <2>1, <3>2 DEF SearchOK
  <2>3. CASE loc.bodyend <= start_index
    <3>1. loc.bodyend = 0
      BY <1>2, <2>1, <2>3 DEF Lies, Declares
    <3>2. /\ pc' = IF loc.namespace THEN "braces" ELSE "semicolon"
          /\ i' = loc.first /\ brace_counter' = 0
      BY <1>2, <1>8, <2>1, <2>3 DEF FindEnd
    <3>3. ASSUME loc.namespace
          PROVE  \E o \in loc.line-1..loc.last :
                   BlockFrom(lines, loc, o) /\ Counted(lines, loc, o, loc.first, 0)
      <4>1. PICK o \in loc.line-1..loc.last : BlockFrom(lines, loc, o)
        BY <3>3 DEF Lies, Declares, Block
      <4> QED
        BY <1>2, <4>1 DEF Counted
    <3>4. loc.first \in loc.first..loc.last
      BY <1>2
    <3>5. loc.namespace => (\E o \in loc.line-1..loc.last :
                   BlockFrom(lines, loc, o) /\ Counted(lines, loc, o, i, brace_counter))'
      BY <1>1, <3>2, <3>3
    <3> QED
      BY <1>1, <1>2, <1>4, <2>1, <3>1, <3>2, <3>4, <3>5 DEF SearchOK
  <2> QED
    BY <1>2, <2>1, <2>2, <2>3
<1>9. CASE Semicolon
  <2>1. /\ content' = content /\ shown' = shown /\ pc = "semicolon"
        /\ start_index' = start_index /\ start_index = loc.first
        /\ loc.bodyend = 0 /\ ~loc.namespace /\ i \in loc.first..loc.last
    BY <1>9 DEF Semicolon, SearchOK
  <2>2. Ends(lines[i]) <=> i = loc.last
    BY <1>3, <2>1, SemicolonStep
  <2>3. CASE i = loc.last
    BY <1>1, <1>4, <1>9, <2>1, <2>2, <2>3 DEF Semicolon, SearchOK
  <2>4. CASE i # loc.last
    <3>1. pc' = "semicolon" /\ i' = i + 1
      BY <1>9, <2>1, <2>2, <2>4 DEF Semicolon
    <3>2. i + 1 \in loc.first..loc.last
      BY <1>2, <2>1, <2>4
    <3> QED
      BY <1>1, <1>4, <2>1, <3>1, <3>2 DEF SearchOK
  <2> QED
    BY <2>3, <2>4
<1>10. CASE Braces
  <2>1. /\ content' = content /\ shown' = shown /\ pc = "braces"
        /\ start_index' = start_index /\ start_index = loc.first
        /\ loc.bodyend = 0 /\ loc.namespace /\ i \in loc.first..loc.last
        /\ brace_counter' = Count(brace_counter, lines[i])
    BY <1>10 DEF Braces, SearchOK
  <2>2. PICK o \in loc.line-1..loc.last :
          BlockFrom(lines, loc, o) /\ Counted(lines, loc, o, i, brace_counter)
    BY <2>1 DEF SearchOK
  <2>3. brace_counter \in Int
    BY DEF TypeInv, ReaderTypes
  <2>4. IF brace_counter + Opens(lines[i]) > 0 /\ Count(brace_counter, lines[i]) <= 0
        THEN i = loc.last
        ELSE i < loc.last /\ Counted(lines, loc, o, i + 1, Count(brace_counter, lines[i]))
    BY <1>3, <2>1, <2>2, <2>3, BracesStep
  <2>5. CASE brace_counter + Opens(lines[i]) > 0 /\ Count(brace_counter, lines[i]) <= 0
    <3>1. pc' = "collect" /\ end_index' = loc.last
      BY <1>10, <2>1, <2>4, <2>5 DEF Braces
    <3> QED
      BY <1>1, <1>4, <2>1, <3>1 DEF SearchOK
  <2>6. CASE ~(brace_counter + Opens(lines[i]) > 0 /\ Count(brace_counter, lines[i]) <= 0)
    <3>1. pc' = "braces" /\ i' = i + 1
      BY <1>10, <2>1, <2>6 DEF Braces
    <3>2. i + 1 \in loc.first..loc.last
      BY <1>2, <2>1, <2>4, <2>6
    <3>3. Counted(lines, loc, o, i', brace_counter')
      BY <2>1, <2>4, <2>6, <3>1
    <3>4. (\E p \in loc.line-1..loc.last :
             BlockFrom(lines, loc, p) /\ Counted(lines, loc, p, i, brace_counter))'
      BY <1>1, <2>2, <3>3
    <3> QED
      BY <1>1, <1>4, <2>1, <3>1, <3>2, <3>4 DEF SearchOK
  <2> QED
    BY <2>5, <2>6
<1>11. CASE Collect
  <2> DEFINE at == {j \in start_index..end_index : ~Comment(lines[j])}
             blank == {j \in at : lines[j] = "blank"}
  <2>1. start_index = loc.first /\ end_index = loc.last
    BY <1>11 DEF Collect, SearchOK
  <2>2. content' = Excerpt(ver, at, blank) /\ shown' = shown \cup {Shown(content', flag)}
    BY <1>11 DEF Collect, Kept, Answer
  <2>3. content'.at = Whole /\ content'.blank = {j \in Whole : lines[j] = "blank"}
    BY <2>1, <2>2 DEF Excerpt, Whole
  <2>4. Shown(content', flag).at = Declaration(flag) /\ Shown(content', flag).remove = flag
    BY <2>3 DEF Shown, Whole, Declaration, Code, Comment
  <2>5. SearchOK'
    BY <1>11 DEF Collect, SearchOK
  <2> QED
    BY <1>1, <2>2, <2>3, <2>4, <2>5 DEF ContentOK, Whole, Declaration
<1>12. CASE Fail
  <2>1. pc = "up" => i \in DOMAIN lines
    BY <1>2 DEF SearchOK
  <2>2. pc \in {"semicolon", "braces"} => i \in DOMAIN lines
    BY <1>2 DEF SearchOK
  <2>3. pc = "collect" => start_index..end_index \subseteq DOMAIN lines
    BY <1>2 DEF SearchOK
  <2> QED
    BY <1>12, <2>1, <2>2, <2>3 DEF Fail
<1> QED
  BY <1>5, <1>6, <1>7, <1>8, <1>9, <1>10, <1>11, <1>12 DEF Next

LEMMA ExcerptInvNext == TypeInv /\ ExcerptInv /\ [Next]_vars => ExcerptInv'
<1> SUFFICES ASSUME TypeInv, ExcerptInv, [Next]_vars PROVE ExcerptInv'
  OBVIOUS
<1>1. CASE Edit
  <2>1. ver' # 0
    BY <1>1 DEF Edit, TypeInv, HeaderInv
  <2> QED
    BY <2>1 DEF ExcerptInv, Undisturbed
<1>2. ASSUME lines' = lines, loc' = loc, ver' = ver, Undisturbed => SearchOK' /\ ContentOK'
      PROVE  ExcerptInv'
  <2>1. Undisturbed' <=> Undisturbed
    BY <1>2 DEF Undisturbed, Separated, Plain
  <2>2. ver' = 0 => \E n \in Nat : Lies(lines', loc', n)
    BY <1>2 DEF ExcerptInv
  <2> QED
    BY <1>2, <2>1, <2>2 DEF ExcerptInv
<1>3. CASE Next /\ ~Edit
  <2>1. lines' = lines /\ loc' = loc /\ ver' = ver
    BY <1>3 DEF Next, Read, ReadCached, Up, FindEnd, Semicolon, Braces, Collect, Fail
  <2>2. ASSUME Undisturbed PROVE SearchOK' /\ ContentOK'
    <3>1. PICK n \in Nat : Lies(lines, loc, n)
      BY <2>2 DEF ExcerptInv, Undisturbed
    <3> QED
      BY <1>3, <2>2, <3>1, ExcerptStep DEF ExcerptInv
  <2> QED
    BY <1>2, <2>1, <2>2
<1>4. CASE UNCHANGED vars
  <2>1. SearchOK /\ ContentOK => SearchOK' /\ ContentOK'
    BY <1>4 DEF vars, search, SearchOK, ContentOK, Whole, Declaration
  <2> QED
    BY <1>2, <1>4, <2>1 DEF vars, ExcerptInv
<1> QED
  BY <1>1, <1>3, <1>4

\* In every header as doxygen saw it, of any length, the reader finds every
\* declaration that stands apart, and shows its lines and no other.
THEOREM ExcerptsAreDeclarations == Spec => []ExcerptIsDeclaration
<1>1. ExcerptInv => ExcerptIsDeclaration
  BY DEF ExcerptInv, ExcerptIsDeclaration, Undisturbed, SearchOK, ContentOK, Declaration
<1>2. Init => TypeInv /\ ExcerptInv
  BY TypeInvInit, ExcerptInvInit
<1>3. TypeInv /\ ExcerptInv /\ [Next]_vars => (TypeInv /\ ExcerptInv)'
  BY TypeInvNext, ExcerptInvNext
<1> QED
  BY <1>1, <1>2, <1>3, PTL DEF Spec
=============================================================================
