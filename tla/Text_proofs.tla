---------------------------- MODULE Text_proofs ----------------------------
(***************************************************************************)
(* Proofs about the roles (Roles), for texts of any length, and about the  *)
(* texts of comments (Description), for any number of pieces and tokens.   *)
(***************************************************************************)
EXTENDS Roles, Description, Recursion_proofs, SequenceTheorems

-----------------------------------------------------------------------------
(* Places in a sequence.                                                   *)

\* The last of some places in a list of n.
LEMMA LastPlaceIs ==
  ASSUME NEW n \in Nat, NEW S \in SUBSET (1..n)
  PROVE  /\ LastPlace(S) \in 0..n
         /\ S # {} => LastPlace(S) \in S
         /\ S = {} => LastPlace(S) = 0
         /\ \A k \in S : k <= LastPlace(S)
<1>1. CASE S = {}
  BY <1>1 DEF LastPlace
<1>2. CASE S # {}
  <2> DEFINE fromEnd == {n - k : k \in S}
  <2>0. \A k \in S : k \in Nat /\ n - k \in Nat
    OBVIOUS
  <2>1. fromEnd \in SUBSET Nat /\ fromEnd # {}
    BY <1>2, <2>0
  <2>2. PICK x \in fromEnd : \A y \in fromEnd : x <= y
    <3> HIDE DEF fromEnd
    <3> QED
      BY <2>1, LeastNatural
  <2>3. PICK j \in S : x = n - j
    BY <2>2
  <2>4. ASSUME NEW k \in S PROVE k <= j
    <3>1. n - k \in fromEnd
      OBVIOUS
    <3>2. n - j <= n - k
      BY <2>2, <2>3, <3>1
    <3> QED
      BY <2>0, <3>2
  <2>5. LastPlace(S) = CHOOSE l \in S : \A k \in S : k <= l
    BY <1>2 DEF LastPlace
  <2>6. LastPlace(S) \in S /\ \A k \in S : k <= LastPlace(S)
    BY <2>4, <2>5
  <2>7. LastPlace(S) \in 1..n
    BY <2>6
  <2> QED
    BY <1>2, <2>6, <2>7
<1> QED
  BY <1>1, <1>2

\* The first of some places in a list of n.
LEMMA FirstPlaceIs ==
  ASSUME NEW n \in Nat, NEW S \in SUBSET (1..n), S # {}
  PROVE  FirstPlace(S) \in S /\ \A k \in S : FirstPlace(S) <= k
<1>1. S \in SUBSET Nat
  OBVIOUS
<1>2. PICK x \in S : \A y \in S : x <= y
  BY <1>1, LeastNatural
<1> QED
  BY <1>2 DEF FirstPlace

\* Something is first, and something is last, in what is not empty.
LEMMA NotEmpty ==
  ASSUME NEW T, NEW s \in Seq(T), s # <<>>
  PROVE  Len(s) \in Nat /\ Len(s) >= 1 /\ 1 \in 1..Len(s) /\ Len(s) \in 1..Len(s)
<1>1. Len(s) \in Nat /\ Len(s) >= 1
  OBVIOUS
<1> QED
  BY <1>1

\* A part of a sequence.
LEMMA PartLists ==
  ASSUME NEW T, NEW s \in Seq(T), NEW m \in Nat, NEW n \in Nat, 1 <= m, n <= Len(s)
  PROVE  /\ SubSeq(s, m, n) \in Seq(T)
         /\ Len(SubSeq(s, m, n)) = IF m <= n THEN n - m + 1 ELSE 0
         /\ \A i \in 1..Len(SubSeq(s, m, n)) :
              m + i - 1 \in m..n /\ SubSeq(s, m, n)[i] = s[m + i - 1]
<1>1. \A i \in m..n : s[i] \in T
  OBVIOUS
<1>2. m \in Int /\ n \in Int
  OBVIOUS
<1>3. /\ SubSeq(s, m, n) \in Seq(T)
      /\ Len(SubSeq(s, m, n)) = IF m <= n THEN n - m + 1 ELSE 0
      /\ \A i \in 1..n-m+1 : SubSeq(s, m, n)[i] = s[m + i - 1]
  BY <1>1, <1>2, SubSeqProperties
<1>4. PICK u : u = SubSeq(s, m, n)
  OBVIOUS
<1>5. \A i \in 1..Len(u) : m + i - 1 \in m..n /\ u[i] = s[m + i - 1]
  <2>1. CASE m <= n
    BY <1>3, <1>4, <2>1
  <2>2. CASE ~(m <= n)
    BY <1>3, <1>4, <2>2
  <2> QED
    BY <2>1, <2>2
<1> QED
  BY <1>3, <1>4, <1>5

\* What is left when what stands before and after some places is dropped.
LEMMA TrimmedLists ==
  ASSUME NEW T, NEW s \in Seq(T), NEW S \in SUBSET (1..Len(s))
  PROVE  /\ Trimmed(s, S) \in Seq(T)
         /\ S = {} <=> Trimmed(s, S) = <<>>
         /\ S # {} => /\ Trimmed(s, S)[1] = s[FirstPlace(S)]
                      /\ Trimmed(s, S)[Len(Trimmed(s, S))] = s[LastPlace(S)]
         /\ \A i \in 1..Len(Trimmed(s, S)) :
              /\ FirstPlace(S) + i - 1 \in 1..Len(s)
              /\ Trimmed(s, S)[i] = s[FirstPlace(S) + i - 1]
         /\ 1 \in S /\ Len(s) \in S => Trimmed(s, S) = s
<1>0. Len(s) \in Nat
  OBVIOUS
<1>1. CASE S = {}
  BY <1>1 DEF Trimmed
<1>2. CASE S # {}
  <2> DEFINE f == FirstPlace(S)
             l == LastPlace(S)
             u == Trimmed(s, S)
  <2>1. f \in S /\ l \in S /\ f \in 1..Len(s) /\ l \in 1..Len(s)
        /\ \A k \in S : f <= k /\ k <= l
    BY <1>0, <1>2, FirstPlaceIs, LastPlaceIs
  <2>2. u = SubSeq(s, f, l)
    BY <1>2 DEF Trimmed
  <2> HIDE DEF f, l
  <2>3. f \in Nat /\ l \in Nat /\ 1 <= f /\ l <= Len(s) /\ f <= l
    BY <1>0, <2>1
  <2>4. /\ u \in Seq(T) /\ Len(u) = l - f + 1
        /\ \A i \in 1..Len(u) : f + i - 1 \in f..l /\ u[i] = s[f + i - 1]
    BY <2>2, <2>3, PartLists
  <2>5. u # <<>> /\ u[1] = s[f] /\ u[Len(u)] = s[l]
    <3> HIDE DEF u
    <3>1. Len(u) \in Nat /\ 1 \in 1..Len(u) /\ Len(u) \in 1..Len(u)
      BY <2>3, <2>4
    <3>2. f + 1 - 1 = f /\ f + Len(u) - 1 = l
      BY <2>3, <2>4
    <3> QED
      BY <2>4, <3>1, <3>2
  <2>6. \A i \in 1..Len(u) : f + i - 1 \in 1..Len(s) /\ u[i] = s[f + i - 1]
    BY <2>3, <2>4
  <2>7. 1 \in S /\ Len(s) \in S => u = s
    <3> HAVE 1 \in S /\ Len(s) \in S
    <3>1. f = 1 /\ l = Len(s)
      BY <1>0, <2>1
    <3> HIDE DEF u
    <3>2. Len(u) = Len(s) /\ \A i \in 1..Len(u) : u[i] = s[i]
      BY <1>0, <2>4, <3>1
    <3> QED
      BY <2>4, <3>2, SameElements
  <2> QED
    BY <1>2, <2>4, <2>5, <2>6, <2>7 DEF f, l
<1> QED
  BY <1>1, <1>2

-----------------------------------------------------------------------------
(* Texts of roles: sequences of Characters.                                *)

\* A text that does not end with a blank, and one that does not begin or end
\* with one.
EndsSolid(s) == s = <<>> \/ s[Len(s)] # " "
IsTrim(s)    == s = <<>> \/ (s[1] # " " /\ s[Len(s)] # " ")

\* No `<` is in a text.
HasNoOpening(s) == \A k \in 1..Len(s) : s[k] # "<"

\* What changing the case of a letter leaves alone.
LEMMA CasesOfCharacters ==
  ASSUME NEW c \in Characters
  PROVE  /\ Lower(c) \in Characters /\ Upper(c) \in Characters
         /\ Lower(Lower(c)) = Lower(c) /\ Lower(Upper(c)) = Lower(c)
         /\ (Lower(c) = " " <=> c = " ") /\ (Upper(c) = " " <=> c = " ")
         /\ (Lower(c) = "<" <=> c = "<") /\ (Upper(c) = "<" <=> c = "<")
  BY DEF Characters, Lower, Upper

\* A text in lower case ...
LEMMA LowerLists ==
  ASSUME NEW s \in Seq(Characters)
  PROVE  /\ LowerAll(s) \in Seq(Characters) /\ Len(LowerAll(s)) = Len(s)
         /\ \A k \in 1..Len(s) : LowerAll(s)[k] = Lower(s[k])
         /\ LowerAll(LowerAll(s)) = LowerAll(s)
         /\ IsTrim(s) => IsTrim(LowerAll(s))
<1> DEFINE u == LowerAll(s)
<1>1. Len(s) \in Nat /\ DOMAIN s = 1..Len(s) /\ \A k \in 1..Len(s) : s[k] \in Characters
  OBVIOUS
<1>2. u = [k \in 1..Len(s) |-> Lower(s[k])]
  BY <1>1 DEF LowerAll
<1> HIDE DEF u
<1>3. \A k \in 1..Len(s) : Lower(s[k]) \in Characters
  BY <1>1, CasesOfCharacters
<1>4. u \in Seq(Characters) /\ Len(u) = Len(s) /\ DOMAIN u = 1..Len(s)
      /\ \A k \in 1..Len(s) : u[k] = Lower(s[k])
  BY <1>1, <1>2, <1>3
<1>5. \A k \in 1..Len(s) : Lower(u[k]) = u[k]
  <2> TAKE k \in 1..Len(s)
  <2>1. s[k] \in Characters /\ u[k] = Lower(s[k])
    BY <1>1, <1>4
  <2> QED
    BY <2>1, CasesOfCharacters
<1>6. LowerAll(u) = u
  <2>1. LowerAll(u) = [k \in 1..Len(s) |-> Lower(u[k])]
    BY <1>4 DEF LowerAll
  <2>2. u = [k \in 1..Len(s) |-> u[k]]
    BY <1>2, <1>4
  <2> QED
    BY <1>5, <2>1, <2>2
<1>7. IsTrim(s) => IsTrim(u)
  <2> HAVE IsTrim(s)
  <2>1. CASE s = <<>>
    BY <1>4, <2>1 DEF IsTrim
  <2>2. CASE s # <<>> /\ s[1] # " " /\ s[Len(s)] # " "
    <3>1. 1 \in 1..Len(s) /\ Len(s) \in 1..Len(s)
      BY <2>2, NotEmpty
    <3>2. \A k \in 1..Len(s) : Lower(s[k]) = " " <=> s[k] = " "
      <4> TAKE k \in 1..Len(s)
      <4>1. s[k] \in Characters
        BY <1>1
      <4> QED
        BY <4>1, CasesOfCharacters
    <3> QED
      BY <1>4, <2>2, <3>1, <3>2 DEF IsTrim
  <2> QED
    BY <2>1, <2>2 DEF IsTrim
<1> QED
  BY <1>4, <1>6, <1>7 DEF u

\* ... and with a capital, which a comparison in lower case does not see.
LEMMA CapitalizedLists ==
  ASSUME NEW s \in Seq(Characters)
  PROVE  /\ Capitalized(s) \in Seq(Characters) /\ Len(Capitalized(s)) = Len(s)
         /\ LowerAll(Capitalized(s)) = LowerAll(s)
         /\ IsTrim(s) => IsTrim(Capitalized(s))
         /\ HasNoOpening(s) => HasNoOpening(Capitalized(s))
<1> DEFINE u == Capitalized(s)
<1>1. Len(s) \in Nat /\ DOMAIN s = 1..Len(s) /\ \A k \in 1..Len(s) : s[k] \in Characters
  OBVIOUS
<1>2. u = [k \in 1..Len(s) |-> IF k = 1 THEN Upper(s[k]) ELSE Lower(s[k])]
  BY <1>1 DEF Capitalized
<1> HIDE DEF u
<1>3. \A k \in 1..Len(s) : Lower(s[k]) \in Characters /\ Upper(s[k]) \in Characters
  BY <1>1, CasesOfCharacters
<1>4. u \in Seq(Characters) /\ Len(u) = Len(s) /\ DOMAIN u = 1..Len(s)
      /\ \A k \in 1..Len(s) : u[k] = IF k = 1 THEN Upper(s[k]) ELSE Lower(s[k])
  BY <1>1, <1>2, <1>3
<1>5. \A k \in 1..Len(s) : /\ Lower(u[k]) = Lower(s[k])
                           /\ u[k] = " " <=> s[k] = " "
                           /\ u[k] = "<" <=> s[k] = "<"
  <2> TAKE k \in 1..Len(s)
  <2>1. PICK c \in Characters : c = s[k]
    BY <1>1
  <2>2. u[k] = Upper(c) \/ u[k] = Lower(c)
    BY <1>4, <2>1
  <2>3. CASE u[k] = Upper(c)
    BY <2>1, <2>3, CasesOfCharacters
  <2>4. CASE u[k] = Lower(c)
    BY <2>1, <2>4, CasesOfCharacters
  <2> QED
    BY <2>2, <2>3, <2>4
<1>6. LowerAll(u) = LowerAll(s)
  <2>1. LowerAll(u) = [k \in 1..Len(s) |-> Lower(u[k])]
    BY <1>4 DEF LowerAll
  <2>2. LowerAll(s) = [k \in 1..Len(s) |-> Lower(s[k])]
    BY <1>1 DEF LowerAll
  <2> QED
    BY <1>5, <2>1, <2>2
<1>7. IsTrim(s) => IsTrim(u)
  <2> HAVE IsTrim(s)
  <2>1. CASE s = <<>>
    BY <1>4, <2>1 DEF IsTrim
  <2>2. CASE s # <<>> /\ s[1] # " " /\ s[Len(s)] # " "
    <3>1. 1 \in 1..Len(s) /\ Len(s) \in 1..Len(s)
      BY <2>2, NotEmpty
    <3> QED
      BY <1>4, <1>5, <2>2, <3>1 DEF IsTrim
  <2> QED
    BY <2>1, <2>2 DEF IsTrim
<1>8. HasNoOpening(s) => HasNoOpening(u)
  BY <1>4, <1>5 DEF HasNoOpening
<1> QED
  BY <1>4, <1>6, <1>7, <1>8 DEF u

\* What strip leaves.
LEMMA StripLists ==
  ASSUME NEW s \in Seq(Characters)
  PROVE  /\ Solid(s) \in SUBSET (1..Len(s))
         /\ Strip(s) \in Seq(Characters) /\ IsTrim(Strip(s))
         /\ IsTrim(s) => Strip(s) = s
         /\ HasNoOpening(s) => HasNoOpening(Strip(s))
         /\ Strip(s) = <<>> <=> \A k \in 1..Len(s) : s[k] = " "
<1> DEFINE S == Solid(s)
           u == Strip(s)
<1>1. Len(s) \in Nat /\ DOMAIN s = 1..Len(s)
  OBVIOUS
<1>2. S \in SUBSET (1..Len(s)) /\ \A k \in 1..Len(s) : k \in S <=> s[k] # " "
  BY <1>1 DEF Solid
<1>3. u = Trimmed(s, S)
  BY DEF Strip
<1> HIDE DEF S, u
<1>4. /\ u \in Seq(Characters)
      /\ S = {} <=> u = <<>>
      /\ S # {} => u[1] = s[FirstPlace(S)] /\ u[Len(u)] = s[LastPlace(S)]
      /\ \A i \in 1..Len(u) : FirstPlace(S) + i - 1 \in 1..Len(s) /\ u[i] = s[FirstPlace(S) + i - 1]
      /\ 1 \in S /\ Len(s) \in S => u = s
  BY <1>2, <1>3, TrimmedLists
<1>5. IsTrim(u)
  <2>1. CASE S = {}
    BY <1>4, <2>1 DEF IsTrim
  <2>2. CASE S # {}
    <3>1. FirstPlace(S) \in S /\ LastPlace(S) \in S
      BY <1>1, <1>2, <2>2, FirstPlaceIs, LastPlaceIs
    <3> QED
      BY <1>2, <1>4, <2>2, <3>1 DEF IsTrim
  <2> QED
    BY <2>1, <2>2
<1>6. IsTrim(s) => u = s
  <2> HAVE IsTrim(s)
  <2>1. CASE s = <<>>
    <3>1. S = {}
      BY <1>2, <2>1
    <3> QED
      BY <1>4, <2>1, <3>1
  <2>2. CASE s # <<>> /\ s[1] # " " /\ s[Len(s)] # " "
    <3>1. 1 \in 1..Len(s) /\ Len(s) \in 1..Len(s)
      BY <2>2, NotEmpty
    <3> QED
      BY <1>2, <1>4, <2>2, <3>1
  <2> QED
    BY <2>1, <2>2 DEF IsTrim
<1>7. HasNoOpening(s) => HasNoOpening(u)
  BY <1>4 DEF HasNoOpening
<1>8. u = <<>> <=> \A k \in 1..Len(s) : s[k] = " "
  BY <1>2, <1>4
<1> QED
  BY <1>2, <1>4, <1>5, <1>6, <1>7, <1>8 DEF S, u

\* Stripping and lowering a text can be done in either order.
LEMMA StripLower ==
  ASSUME NEW s \in Seq(Characters)
  PROVE  Strip(LowerAll(s)) = LowerAll(Strip(s))
<1> DEFINE t == LowerAll(s)
           S == Solid(s)
           u == Strip(s)
           v == Strip(t)
<1>1. Len(s) \in Nat /\ DOMAIN s = 1..Len(s) /\ \A k \in 1..Len(s) : s[k] \in Characters
  OBVIOUS
<1>2. t \in Seq(Characters) /\ Len(t) = Len(s) /\ \A k \in 1..Len(s) : t[k] = Lower(s[k])
  BY LowerLists
<1> HIDE DEF t
<1>3. S \in SUBSET (1..Len(s)) /\ u \in Seq(Characters) /\ v \in Seq(Characters)
  BY <1>2, StripLists
<1>4. Solid(t) = S
  <2>1. ASSUME NEW k \in 1..Len(s) PROVE t[k] = " " <=> s[k] = " "
    <3>1. s[k] \in Characters /\ t[k] = Lower(s[k])
      BY <1>1, <1>2
    <3> QED
      BY <3>1, CasesOfCharacters
  <2>2. DOMAIN t = 1..Len(s)
    BY <1>2
  <2> QED
    BY <1>1, <2>1, <2>2 DEF Solid
<1>5. u = Trimmed(s, S) /\ v = Trimmed(t, S)
  BY <1>4 DEF Strip
<1> HIDE DEF S, u, v
<1>6. CASE S = {}
  <2>1. u = <<>> /\ v = <<>>
    BY <1>5, <1>6 DEF Trimmed
  <2>2. LowerAll(u) = <<>>
    BY <2>1 DEF LowerAll
  <2> QED
    BY <2>1, <2>2 DEF t, u, v
<1>7. CASE S # {}
  <2> DEFINE f == FirstPlace(S)
             l == LastPlace(S)
  <2>1. f \in S /\ l \in S
    BY <1>1, <1>3, <1>7, FirstPlaceIs, LastPlaceIs
  <2>2. u = SubSeq(s, f, l) /\ v = SubSeq(t, f, l)
    BY <1>5, <1>7 DEF Trimmed
  <2> HIDE DEF f, l
  <2>3. f \in Nat /\ l \in Nat /\ 1 <= f /\ l <= Len(s)
    BY <1>1, <1>3, <2>1
  <2>4. /\ Len(u) = IF f <= l THEN l - f + 1 ELSE 0
        /\ \A i \in 1..Len(u) : f + i - 1 \in f..l /\ u[i] = s[f + i - 1]
    BY <2>2, <2>3, PartLists
  <2>5. /\ Len(v) = IF f <= l THEN l - f + 1 ELSE 0
        /\ \A i \in 1..Len(v) : f + i - 1 \in f..l /\ v[i] = t[f + i - 1]
    BY <1>2, <2>2, <2>3, PartLists
  <2>6. /\ LowerAll(u) \in Seq(Characters) /\ Len(LowerAll(u)) = Len(u)
        /\ \A k \in 1..Len(u) : LowerAll(u)[k] = Lower(u[k])
    BY <1>3, LowerLists
  <2>7. Len(v) = Len(u)
    BY <2>4, <2>5
  <2>8. \A i \in 1..Len(u) : f + i - 1 \in 1..Len(s)
    BY <2>3, <2>4
  <2>9. \A i \in 1..Len(u) : v[i] = LowerAll(u)[i]
    BY <1>2, <2>4, <2>5, <2>6, <2>7, <2>8
  <2>10. v = LowerAll(u)
    BY <1>3, <2>6, <2>7, <2>9, SameElements
  <2> QED
    BY <2>10 DEF t, u, v
<1> QED
  BY <1>6, <1>7

\* t is s with a blank behind it.
WithBlank(t, s) ==
  /\ Len(t) = Len(s) + 1
  /\ \A k \in 1..Len(s) : t[k] = s[k]
  /\ t[Len(s) + 1] = " "

\* A blank behind a text that does not end with one goes again.
LEMMA BlankGoes ==
  ASSUME NEW s \in Seq(Characters), EndsSolid(s),
         NEW t \in Seq(Characters), WithBlank(t, s)
  PROVE  RightStripped(t) = s
<1> DEFINE S == Solid(t)
<1>0. PICK n \in Nat : n = Len(s)
  OBVIOUS
<1>1. Len(t) = n + 1 /\ DOMAIN t = 1..n+1
  <2>1. Len(t) = n + 1
    BY <1>0, Zenon DEF WithBlank
  <2>2. DOMAIN t = 1..Len(t)
    OBVIOUS
  <2> QED
    BY <2>1, <2>2, Zenon
<1>2. S \in SUBSET (1..n) /\ \A k \in 1..n : k \in S <=> s[k] # " "
  <2>1. \A k \in 1..n+1 : k \in 1..n \/ k = n + 1
    OBVIOUS
  <2>2. \A k \in 1..n : k \in 1..n+1
    OBVIOUS
  <2>3. t[n + 1] = " " /\ \A k \in 1..n : t[k] = s[k]
    BY <1>0 DEF WithBlank
  <2>4. \A k : k \in S <=> k \in 1..n+1 /\ t[k] # " "
    BY <1>1 DEF Solid
  <2> HIDE DEF S
  <2> QED
    BY <2>1, <2>2, <2>3, <2>4, Zenon
<1> HIDE DEF S
<1>3. LastPlace(S) = n
  <2>1. LastPlace(S) \in 0..n /\ (S = {} => LastPlace(S) = 0) /\ \A k \in S : k <= LastPlace(S)
    BY <1>2, LastPlaceIs
  <2>2. CASE s = <<>>
    <3>1. n = 0
      BY <1>0, <2>2
    <3> QED
      BY <2>1, <3>1
  <2>3. CASE s # <<>> /\ s[Len(s)] # " "
    <3>1. n \in 1..n
      BY <1>0, <2>3, NotEmpty
    <3>2. n \in S
      BY <1>0, <1>2, <2>3, <3>1, Zenon
    <3>3. n <= LastPlace(S)
      BY <2>1, <3>2
    <3> QED
      BY <2>1, <3>3
  <2> QED
    BY <2>2, <2>3 DEF EndsSolid
<1> DEFINE u == SubSeq(t, 1, n)
<1>4. RightStripped(t) = u
  BY <1>3 DEF RightStripped, S
<1>5. u \in Seq(Characters) /\ Len(u) = n /\ \A k \in 1..n : u[k] = t[k]
  <2>1. n <= n + 1
    OBVIOUS
  <2>2. /\ u \in Seq(Characters) /\ Len(u) = IF 1 <= n THEN n - 1 + 1 ELSE 0
        /\ \A k \in 1..Len(u) : 1 + k - 1 \in 1..n /\ u[k] = t[1 + k - 1]
    BY <1>1, <2>1, PartLists
  <2> HIDE DEF u
  <2>3. Len(u) = n
    BY <2>2
  <2>4. \A k \in 1..n : 1 + k - 1 = k
    OBVIOUS
  <2> QED
    BY <2>2, <2>3, <2>4
<1> HIDE DEF u
<1>6. \A k \in 1..n : t[k] = s[k]
  BY <1>0 DEF WithBlank
<1>7. u = s
  <2>1. Len(u) = Len(s) /\ \A k \in 1..Len(u) : u[k] = s[k]
    BY <1>0, <1>5, <1>6, Zenon
  <2> QED
    BY <1>5, <2>1, SameElements
<1> QED
  BY <1>4, <1>7

\* Two elements.
LEMMA TwoElements ==
  ASSUME NEW l, NEW m
  PROVE  /\ Len(<<l, m>>) = 2 /\ <<l, m>>[1] = l /\ <<l, m>>[2] = m
         /\ \A T : l \in T /\ m \in T => <<l, m>> \in Seq(T)
OBVIOUS

\* e is a title of n characters, a blank, and a target of m between brackets.
AreParts(e, n, m) ==
  /\ e[n + 1] = " " /\ e[n + 2] = "<" /\ e[n + m + 3] = ">"

\* What Explicit makes.
LEMMA ExplicitLists ==
  ASSUME NEW T \in Seq(Characters), NEW R \in Seq(Characters),
         NEW n \in Nat, NEW m \in Nat, n = Len(T), m = Len(R),
         NEW e, e = Explicit(T, R)
  PROVE  /\ e \in Seq(Characters) /\ Len(e) = n + m + 3
         /\ \A k \in 1..n : e[k] = T[k]
         /\ \A k \in 1..m : e[n + 2 + k] = R[k]
         /\ AreParts(e, n, m)
<1>0. " " \in Characters /\ "<" \in Characters /\ ">" \in Characters
  BY DEF Characters
<1>1. PICK a : a = <<" ", "<">>
  OBVIOUS
<1>2. a \in Seq(Characters) /\ Len(a) = 2
  <2>1. <<" ", "<">> \in Seq(Characters) /\ Len(<<" ", "<">>) = 2
    BY <1>0, TwoElements, Zenon
  <2> QED
    BY <1>1, <2>1, Zenon
<1>3. a[1] = " " /\ a[2] = "<"
  <2>1. <<" ", "<">>[1] = " " /\ <<" ", "<">>[2] = "<"
    BY TwoElements, Zenon
  <2> QED
    BY <1>1, <2>1, Zenon
<1>4. PICK b : b = <<">">>
  OBVIOUS
<1>5. b \in Seq(Characters) /\ Len(b) = 1
  <2>1. <<">">> \in Seq(Characters) /\ Len(<<">">>) = 1
    BY <1>0, OneElement, Zenon
  <2> QED
    BY <1>4, <2>1, Zenon
<1>6. b[1] = ">"
  <2>1. <<">">>[1] = ">"
    BY OneElement, Zenon
  <2> QED
    BY <1>4, <2>1, Zenon
<1> DEFINE u == T \o a
           v == u \o R
           w == v \o b
<1>7. e = w
  BY <1>1, <1>4, Zenon DEF Explicit
<1>8. /\ u \in Seq(Characters) /\ Len(u) = n + 2
      /\ \A k \in 1..n : u[k] = T[k]
      /\ \A k \in 1..2 : u[n + k] = a[k]
  BY <1>2, JoinedElements, SMTT(30)
<1> HIDE DEF u
<1>9. /\ v \in Seq(Characters) /\ Len(v) = n + 2 + m
      /\ \A k \in 1..n+2 : v[k] = u[k]
      /\ \A k \in 1..m : v[n + 2 + k] = R[k]
  <2>1. /\ v \in Seq(Characters) /\ Len(v) = Len(u) + Len(R)
        /\ \A k \in 1..Len(u) : v[k] = u[k]
        /\ \A k \in 1..Len(R) : v[Len(u) + k] = R[k]
    <3>1. u \in Seq(Characters)
      BY <1>8
    <3> QED
      BY <3>1, JoinedElements
  <2> QED
    BY <1>8, <2>1, Zenon
<1> HIDE DEF v
<1>10. /\ w \in Seq(Characters) /\ Len(w) = n + 2 + m + 1
       /\ \A k \in 1..n+2+m : w[k] = v[k]
       /\ \A k \in 1..1 : w[n + 2 + m + k] = b[k]
  <2>1. /\ w \in Seq(Characters) /\ Len(w) = Len(v) + Len(b)
        /\ \A k \in 1..Len(v) : w[k] = v[k]
        /\ \A k \in 1..Len(b) : w[Len(v) + k] = b[k]
    <3>1. v \in Seq(Characters) /\ b \in Seq(Characters)
      BY <1>5, <1>9
    <3> QED
      BY <3>1, JoinedElements
  <2> QED
    BY <1>5, <1>9, <2>1, Zenon
<1> HIDE DEF w
<1>11. n + 2 + m + 1 = n + m + 3
  OBVIOUS
<1>12. ASSUME NEW k \in 1..n PROVE w[k] = T[k]
  <2>1. k \in 1..n+2 /\ k \in 1..n+2+m
    OBVIOUS
  <2> QED
    BY <1>8, <1>9, <1>10, <2>1
<1>13. ASSUME NEW k \in 1..m PROVE w[n + 2 + k] = R[k]
  <2>1. n + 2 + k \in 1..n+2+m
    OBVIOUS
  <2> QED
    BY <1>9, <1>10, <2>1
<1>14. w[n + 1] = " " /\ w[n + 2] = "<"
  <2>1. /\ 1 \in 1..2 /\ 2 \in 1..2
        /\ n + 1 \in 1..n+2 /\ n + 2 \in 1..n+2
        /\ n + 1 \in 1..n+2+m /\ n + 2 \in 1..n+2+m
    OBVIOUS
  <2>2. w[n + 1] = a[1] /\ w[n + 2] = a[2]
    BY <1>8, <1>9, <1>10, <2>1
  <2> QED
    BY <1>3, <2>2, Zenon
<1>15. w[n + m + 3] = ">"
  <2>1. 1 \in 1..1
    OBVIOUS
  <2>2. w[n + 2 + m + 1] = b[1]
    BY <1>10, <2>1
  <2> QED
    BY <1>6, <1>11, <2>2, Zenon
<1>16. AreParts(w, n, m)
  BY <1>14, <1>15, Zenon DEF AreParts
<1> QED
  BY <1>7, <1>10, <1>11, <1>12, <1>13, <1>16, Zenon

\* Sphinx takes apart what Explicit puts together.
LEMMA ExplicitSplits ==
  ASSUME NEW T \in Seq(Characters), NEW R \in Seq(Characters),
         EndsSolid(T), HasNoOpening(R), NEW e, e = Explicit(T, R),
         NEW n \in Nat, n = Len(T)
  PROVE  /\ e \in Seq(Characters) /\ SplitAt(e) = {n + 2}
         /\ RightStripped(SubSeq(e, 1, n + 2 - 1)) = T
         /\ SubSeq(e, n + 2 + 1, Len(e) - 1) = R
<1>1. PICK m \in Nat : m = Len(R)
  OBVIOUS
<1>2. e \in Seq(Characters) /\ Len(e) = n + m + 3
  BY <1>1, ExplicitLists
<1>3. \A k \in 1..n : e[k] = T[k]
  BY <1>1, ExplicitLists
<1>4. \A k \in 1..m : e[n + 2 + k] = R[k]
  BY <1>1, ExplicitLists
<1>5. AreParts(e, n, m)
  BY <1>1, ExplicitLists, Zenon
<1>6. Last(e) = ">"
  BY <1>2, <1>5, Zenon DEF Last, AreParts
<1>7. ASSUME NEW k \in n+3..n+m+3 PROVE e[k] # "<"
  <2>1. CASE k = n + m + 3
    BY <1>5, <2>1, Zenon DEF AreParts
  <2>2. CASE k # n + m + 3
    <3>1. PICK l \in 1..m : n + 2 + l = k
      <4>1. k - n - 2 \in 1..m /\ n + 2 + (k - n - 2) = k
        BY <2>2
      <4> QED
        BY <4>1
    <3>2. e[k] = R[l]
      BY <1>4, <3>1
    <3>3. R[l] # "<"
      BY <1>1 DEF HasNoOpening
    <3> QED
      BY <3>2, <3>3
  <2> QED
    BY <2>1, <2>2
<1>8. SplitAt(e) = {n + 2}
  <2>1. e[n + 2] = "<"
    BY <1>5, Zenon DEF AreParts
  <2>2. /\ n + 2 \in 2..Len(e)-1
        /\ \A k \in n+2+1..Len(e) : k \in n+3..n+m+3
    BY <1>2
  <2>3. \A k \in n+2+1..Len(e) : e[k] # "<"
    BY <1>7, <2>2, Zenon
  <2>4. n + 2 \in SplitAt(e)
    BY <1>6, <2>1, <2>2, <2>3, Zenon DEF SplitAt
  <2>5. ASSUME NEW i \in SplitAt(e) PROVE i = n + 2
    <3>1. i \in 2..Len(e)-1 /\ e[i] = "<" /\ \A k \in i+1..Len(e) : e[k] # "<"
      BY Zenon DEF SplitAt
    <3>2. i \notin n+3..n+m+3
      BY <1>7, <3>1, Zenon
    <3>3. n + 2 \notin i+1..Len(e)
      BY <2>1, <3>1, Zenon
    <3>4. i \in 2..n+m+2 /\ n + 2 \notin i+1..n+m+3
      <4>1. PICK l : l = Len(e)
        OBVIOUS
      <4>2. i \in 2..l-1 /\ n + 2 \notin i+1..l /\ l = n + m + 3
        BY <1>2, <3>1, <3>3, <4>1, Zenon
      <4> QED
        BY <4>2
    <3> QED
      BY <3>2, <3>4
  <2> HIDE DEF SplitAt
  <2> QED
    BY <2>4, <2>5, Zenon
<1> DEFINE t == SubSeq(e, 1, n + 2 - 1)
           r == SubSeq(e, n + 2 + 1, Len(e) - 1)
<1>9. RightStripped(t) = T
  <2>1. t = SubSeq(e, 1, n + 1)
    <3>1. n + 2 - 1 = n + 1
      OBVIOUS
    <3> QED
      BY <3>1, Zenon
  <2>2. n + 1 \in Nat /\ n + 1 <= n + m + 3 /\ 1 <= n + 1 /\ n + 1 - 1 + 1 = n + 1
    OBVIOUS
  <2>3. /\ t \in Seq(Characters) /\ Len(t) = n + 1
        /\ \A k \in 1..Len(t) : 1 + k - 1 \in 1..n+1 /\ t[k] = e[1 + k - 1]
    BY <1>2, <2>1, <2>2, PartLists
  <2> HIDE DEF t
  <2>4. \A k \in 1..n+1 : t[k] = e[k]
    <3>1. \A k \in 1..n+1 : 1 + k - 1 = k
      OBVIOUS
    <3> QED
      BY <2>3, <3>1
  <2>5. n + 1 \in 1..n+1 /\ \A k \in 1..n : k \in 1..n+1
    OBVIOUS
  <2>6. t[n + 1] = " "
    BY <1>5, <2>4, <2>5, Zenon DEF AreParts
  <2>7. \A k \in 1..n : t[k] = T[k]
    BY <1>3, <2>4, <2>5, Zenon
  <2>8. WithBlank(t, T)
    BY <2>3, <2>6, <2>7, Zenon DEF WithBlank
  <2> QED
    BY <2>3, <2>8, BlankGoes
<1>10. r = R
  <2>1. r = SubSeq(e, n + 3, n + m + 2)
    <3>1. PICK l : l = Len(e)
      OBVIOUS
    <3>2. n + 2 + 1 = n + 3 /\ l - 1 = n + m + 2
      <4>1. l = n + m + 3
        BY <1>2, <3>1, Zenon
      <4> QED
        BY <4>1
    <3> QED
      BY <3>1, <3>2, Zenon
  <2>2. /\ n + 3 \in Nat /\ n + m + 2 \in Nat /\ 1 <= n + 3 /\ n + m + 2 <= n + m + 3
        /\ (IF n + 3 <= n + m + 2 THEN n + m + 2 - (n + 3) + 1 ELSE 0) = m
    OBVIOUS
  <2>3. /\ r \in Seq(Characters) /\ Len(r) = m
        /\ \A k \in 1..Len(r) : n + 3 + k - 1 \in n+3..n+m+2 /\ r[k] = e[n + 3 + k - 1]
    BY <1>2, <2>1, <2>2, PartLists
  <2> HIDE DEF r
  <2>4. \A k \in 1..m : n + 3 + k - 1 = n + 2 + k
    OBVIOUS
  <2>5. \A k \in 1..m : r[k] = R[k]
    BY <1>4, <2>3, <2>4, Zenon
  <2>6. Len(r) = Len(R) /\ \A k \in 1..Len(r) : r[k] = R[k]
    BY <1>1, <2>3, <2>5, Zenon
  <2> QED
    BY <2>3, <2>6, SameElements
<1> QED
  BY <1>2, <1>8, <1>9, <1>10

\* The words of a label are stripped.
LEMMA WordsLists ==
  ASSUME NEW s \in Seq(Characters)
  PROVE  Words(s) \in Seq(Characters) /\ IsTrim(Words(s))
<1> DEFINE t == [k \in DOMAIN s |-> IF s[k] = "-" THEN " " ELSE s[k]]
<1>1. " " \in Characters
  BY DEF Characters
<1>2. DOMAIN s = 1..Len(s) /\ Len(s) \in Nat /\ \A k \in 1..Len(s) : s[k] \in Characters
  OBVIOUS
<1>3. t \in Seq(Characters)
  <2>1. \A k \in 1..Len(s) : t[k] \in Characters
    BY <1>1, <1>2
  <2>2. t = [k \in 1..Len(s) |-> t[k]]
    BY <1>2
  <2> HIDE DEF t
  <2> QED
    BY <1>2, <2>1, <2>2
<1>4. Words(s) = Strip(t)
  BY DEF Words
<1> HIDE DEF t
<1> QED
  BY <1>3, <1>4, StripLists, ZenonT(60)

\* What make_term_text shows is the words of the label and the suffix, but for
\* the case of a letter, and does not end with a blank.
LEMMA TermTextShows ==
  ASSUME NEW W \in Seq(Characters), W # <<>>, IsTrim(W),
         NEW S \in Seq(Characters), EndsSolid(S),
         NEW T, T = <<Lower(Head(W))>> \o Tail(W) \o S
  PROVE  T \in Seq(Characters) /\ EndsSolid(T) /\ LowerAll(T) = LowerAll(W \o S)
<1>1. PICK n \in Nat : n = Len(W) /\ n >= 1
  BY NotEmpty
<1>2. PICK m \in Nat : m = Len(S)
  OBVIOUS
<1>3. PICK l \in Characters : l = Lower(Head(W))
  <2>1. Head(W) \in Characters
    OBVIOUS
  <2> QED
    BY <2>1, CasesOfCharacters
<1>4. l = Lower(W[1]) /\ W[1] \in Characters /\ Lower(l) = Lower(W[1])
  <2>1. PICK c \in Characters : c = W[1] /\ c = Head(W)
    <3>1. Head(W) = W[1] /\ W[1] \in Characters
      OBVIOUS
    <3> QED
      BY <3>1, Zenon
  <2>2. l = Lower(c)
    BY <1>3, <2>1, Zenon
  <2>3. Lower(l) = Lower(c)
    BY <2>2, CasesOfCharacters
  <2> QED
    BY <2>1, <2>2, <2>3, Zenon
<1> DEFINE R == Tail(W)
           a == <<Lower(Head(W))>>
           h == a \o R
           t == h \o S
           v == W \o S
<1>5. /\ R \in Seq(Characters) /\ Len(R) = n - 1
      /\ \A k \in 2..n : k - 1 \in 1..Len(R) /\ R[k - 1] = W[k]
  BY <1>1, FirstAndRest
<1>6. a \in Seq(Characters) /\ Len(a) = 1 /\ a[1] = l
  <2>1. a = <<l>>
    BY <1>3, Zenon
  <2> QED
    BY <2>1, OneElement, Zenon
<1> HIDE DEF a, R
<1>7. /\ h \in Seq(Characters) /\ Len(h) = Len(a) + Len(R)
      /\ \A k \in 1..Len(a) : h[k] = a[k]
      /\ \A k \in 1..Len(R) : h[Len(a) + k] = R[k]
  <2>1. a \in Seq(Characters) /\ R \in Seq(Characters)
    BY <1>5, <1>6
  <2> QED
    BY <2>1, JoinedElements
<1>8. Len(h) = n
  <2>1. Len(h) = 1 + (n - 1)
    BY <1>5, <1>6, <1>7, Zenon
  <2> QED
    BY <2>1
<1>9. h[1] = l
  <2>1. 1 \in 1..1
    OBVIOUS
  <2> QED
    BY <1>6, <1>7, <2>1, Zenon
<1>10. ASSUME NEW k \in 2..n PROVE h[k] = W[k]
  <2>1. 1 + (k - 1) = k
    OBVIOUS
  <2>2. h[1 + (k - 1)] = R[k - 1]
    BY <1>5, <1>6, <1>7, Zenon
  <2> QED
    BY <1>5, <2>1, <2>2, Zenon
<1> HIDE DEF h
<1>11. /\ t \in Seq(Characters) /\ Len(t) = n + m
       /\ \A k \in 1..n : t[k] = h[k]
       /\ \A k \in 1..m : t[n + k] = S[k]
  <2>1. h \in Seq(Characters)
    BY <1>7
  <2>2. /\ t \in Seq(Characters) /\ Len(t) = Len(h) + Len(S)
        /\ \A k \in 1..Len(h) : t[k] = h[k]
        /\ \A k \in 1..Len(S) : t[Len(h) + k] = S[k]
    BY <2>1, JoinedElements
  <2> QED
    BY <1>2, <1>8, <2>2, Zenon
<1>12. /\ v \in Seq(Characters) /\ Len(v) = n + m
       /\ \A k \in 1..n : v[k] = W[k]
       /\ \A k \in 1..m : v[n + k] = S[k]
       /\ \A k \in 1..n+m : k \in 1..n \/ k - n \in 1..m
  <2>1. /\ v \in Seq(Characters) /\ Len(v) = Len(W) + Len(S)
        /\ \A k \in 1..Len(W) : v[k] = W[k]
        /\ \A k \in 1..Len(S) : v[Len(W) + k] = S[k]
    BY JoinedElements
  <2>2. \A k \in 1..n+m : k \in 1..n \/ k - n \in 1..m
    BY <1>1, <1>2
  <2> QED
    BY <1>1, <1>2, <2>1, <2>2, Zenon
<1>13. T = t
  BY DEF a, h, R
<1> HIDE DEF t, v
<1>14. ASSUME NEW k \in 1..n+m PROVE Lower(t[k]) = Lower(v[k])
  <2>1. CASE k = 1
    <3>1. 1 \in 1..n
      BY <1>1
    <3>2. t[1] = l /\ v[1] = W[1]
      BY <1>9, <1>11, <1>12, <3>1, Zenon
    <3> QED
      BY <1>4, <2>1, <3>2
  <2>2. CASE k \in 2..n
    <3>1. k \in 1..n
      BY <2>2
    <3> QED
      BY <1>10, <1>11, <1>12, <2>2, <3>1, Zenon
  <2>3. CASE k - n \in 1..m
    <3>1. n + (k - n) = k
      OBVIOUS
    <3> QED
      BY <1>11, <1>12, <2>3, <3>1, Zenon
  <2>4. k = 1 \/ k \in 2..n \/ k - n \in 1..m
    OBVIOUS
  <2> QED
    BY <2>1, <2>2, <2>3, <2>4
<1>15. LowerAll(t) = LowerAll(v)
  <2>1. DOMAIN t = 1..n+m /\ DOMAIN v = 1..n+m
    <3>1. DOMAIN t = 1..Len(t) /\ DOMAIN v = 1..Len(v)
      BY <1>11, <1>12
    <3> QED
      BY <1>11, <1>12, <3>1, Zenon
  <2>2. LowerAll(t) = [k \in 1..n+m |-> Lower(t[k])] /\ LowerAll(v) = [k \in 1..n+m |-> Lower(v[k])]
    BY <2>1 DEF LowerAll
  <2> QED
    BY <1>14, <2>2
<1>16. EndsSolid(t)
  <2>1. CASE m # 0
    <3>1. S # <<>> /\ m \in 1..m
      BY <1>2, <2>1
    <3>2. S[m] # " "
      BY <1>2, <3>1, Zenon DEF EndsSolid
    <3>3. t[Len(t)] = S[m]
      BY <1>11, <3>1, Zenon
    <3> QED
      BY <3>2, <3>3, Zenon DEF EndsSolid
  <2>2. CASE m = 0
    <3>0. n + m = n
      BY <2>2
    <3>1. W[1] # " " /\ W[n] # " " /\ n \in 1..n
      BY <1>1, Zenon, NotEmpty DEF IsTrim
    <3>2. t[Len(t)] = h[n]
      BY <1>11, <3>0, <3>1, Zenon
    <3>3. h[n] # " "
      <4>1. CASE n = 1
        <5>1. l # " "
          BY <1>4, <3>1, CasesOfCharacters
        <5> QED
          BY <1>9, <4>1, <5>1, Zenon
      <4>2. CASE n # 1
        <5>1. n \in 2..n
          BY <1>1, <4>2
        <5> QED
          BY <1>10, <3>1, <5>1, Zenon
      <4> QED
        BY <4>1, <4>2
    <3> QED
      BY <3>2, <3>3, Zenon DEF EndsSolid
  <2> QED
    BY <2>1, <2>2
<1> QED
  BY <1>11, <1>13, <1>15, <1>16, Zenon DEF v

-----------------------------------------------------------------------------
(* What an author wrote.                                                   *)

\* The text of a role has no blank at its ends.
AuthorText ==
  /\ role \in {"capterm", "txtref"}
  /\ text \in Seq(Characters) /\ text # <<>> /\ IsTrim(text)

\* The last brackets of a text.
LEMMA LastBrackets ==
  ASSUME text \in Seq(Characters)
  PROVE  /\ Opening \in 0..Len(text) /\ Closing \in 0..Len(text)
         /\ Opening # 0 => text[Opening] = "<"
         /\ Closing # 0 => text[Closing] = ">"
         /\ \A k \in 1..Len(text) : text[k] = "<" => k <= Opening
         /\ \A k \in 1..Len(text) : text[k] = ">" => k <= Closing
<1>1. PICK n \in Nat : n = Len(text)
  OBVIOUS
<1>2. DOMAIN text = 1..n
  BY <1>1
<1> DEFINE L == {k \in 1..n : text[k] = "<"}
           G == {k \in 1..n : text[k] = ">"}
<1>3. Opening = LastPlace(L) /\ Closing = LastPlace(G)
  BY <1>2, Zenon DEF Opening, Closing
<1>4. L \in SUBSET (1..n) /\ G \in SUBSET (1..n)
  OBVIOUS
<1>5. /\ \A k \in L : text[k] = "<" 
      /\ \A k \in 1..n : text[k] = "<" => k \in L
      /\ \A k \in G : text[k] = ">"
      /\ \A k \in 1..n : text[k] = ">" => k \in G
  OBVIOUS
<1> HIDE DEF L, G
<1>6. /\ Opening \in 0..n /\ (L # {} => Opening \in L) /\ (L = {} => Opening = 0)
      /\ \A k \in L : k <= Opening
  BY <1>3, <1>4, LastPlaceIs
<1>7. /\ Closing \in 0..n /\ (G # {} => Closing \in G) /\ (G = {} => Closing = 0)
      /\ \A k \in G : k <= Closing
  BY <1>3, <1>4, LastPlaceIs
<1> QED
  BY <1>1, <1>5, <1>6, <1>7, Zenon

\* The parts of a text.
LEMMA PartsOfText ==
  ASSUME text \in Seq(Characters)
  PROVE  /\ InFront \in Seq(Characters) /\ Enclosed \in Seq(Characters)
         /\ Behind \in Seq(Characters)
         /\ Opening <= 1 => InFront = <<>>
         /\ ~(Closing > Opening + 1) => Enclosed = <<>>
         /\ HasNoOpening(Enclosed)
<1>1. PICK n \in Nat : n = Len(text)
  OBVIOUS
<1>2. /\ Opening \in 0..n /\ Closing \in 0..n
      /\ \A k \in 1..n : text[k] = "<" => k <= Opening
  BY <1>1, LastBrackets, Zenon
<1>3. PICK o \in 0..n : o = Opening
  BY <1>2
<1>4. PICK c \in 0..n : c = Closing
  BY <1>2
<1>5. InFront = SubSeq(text, 1, o - 1) /\ Enclosed = SubSeq(text, o + 1, c - 1)
      /\ Behind = SubSeq(text, c + 1, n)
  BY <1>1, <1>3, <1>4, Zenon DEF InFront, Enclosed, Behind
<1>6. /\ InFront \in Seq(Characters)
      /\ o <= 1 => InFront = <<>>
  <2>1. CASE o <= 1
    <3>1. o - 1 < 1 /\ o - 1 \in Int
      BY <2>1
    <3>2. InFront = <<>>
      BY <1>5, <3>1, SubSeqEmpty
    <3> QED
      BY <3>2
  <2>2. CASE ~(o <= 1)
    <3>1. o - 1 \in Nat /\ o - 1 <= n /\ 1 \in Nat /\ 1 <= 1
      BY <2>2
    <3>2. SubSeq(text, 1, o - 1) \in Seq(Characters)
      BY <1>1, <3>1, PartLists
    <3> QED
      BY <1>5, <2>2, <3>2
  <2> QED
    BY <2>1, <2>2
<1>7. /\ Enclosed \in Seq(Characters)
      /\ ~(c > o + 1) => Enclosed = <<>>
      /\ HasNoOpening(Enclosed)
  <2>1. CASE ~(c > o + 1)
    <3>1. c - 1 < o + 1 /\ c - 1 \in Int /\ o + 1 \in Int
      BY <2>1
    <3>2. Enclosed = <<>>
      BY <1>5, <3>1, SubSeqEmpty
    <3> QED
      BY <3>2 DEF HasNoOpening
  <2>2. CASE c > o + 1
    <3>1. c - 1 \in Nat /\ c - 1 <= n /\ o + 1 \in Nat /\ 1 <= o + 1
      BY <2>2
    <3> DEFINE e == SubSeq(text, o + 1, c - 1)
    <3>2. /\ e \in Seq(Characters)
          /\ \A k \in 1..Len(e) : o + 1 + k - 1 \in o+1..c-1 /\ e[k] = text[o + 1 + k - 1]
      BY <1>1, <3>1, PartLists
    <3> HIDE DEF e
    <3>3. ASSUME NEW k \in 1..Len(e) PROVE e[k] # "<"
      <4>1. PICK l \in o+1..c-1 : l = o + 1 + k - 1
        BY <3>2
      <4>2. l \in 1..n /\ ~(l <= o)
        OBVIOUS
      <4>3. e[k] = text[l]
        BY <3>2, <4>1, Zenon
      <4> QED
        BY <1>2, <1>3, <4>2, <4>3, Zenon
    <3>4. HasNoOpening(e)
      BY <3>3 DEF HasNoOpening
    <3> QED
      BY <1>5, <2>2, <3>2, <3>4 DEF e
  <2> QED
    BY <2>1, <2>2
<1>8. Behind \in Seq(Characters)
  <2>1. c + 1 \in Nat /\ n \in Nat /\ n <= n /\ 1 <= c + 1
    OBVIOUS
  <2>2. SubSeq(text, c + 1, n) \in Seq(Characters)
    BY <1>1, <2>1, PartLists
  <2> QED
    BY <1>5, <2>2, Zenon
<1> QED
  BY <1>3, <1>4, <1>6, <1>7, <1>8, Zenon

\* Where the author wrote a label the code finds it, and only there.
LEMMA LabelIsFound ==
  ASSUME text \in Seq(Characters), NEW least \in {0, 1}
  PROVE  /\ IsPlain => Brackets(text, least) = {}
         /\ HasLabel /\ (least = 1 => role = "capterm") =>
              /\ Opening \in 1..Len(text) /\ Closing \in 1..Len(text)
              /\ Opening + 1 < Closing /\ ~IsPlain
              /\ Brackets(text, least) # {}
              /\ \A i, j : AreBrackets(text, least, i, j) => i = Opening /\ j = Closing
<1>1. PICK n \in Nat : n = Len(text)
  OBVIOUS
<1>2. DOMAIN text = 1..n
  BY <1>1
<1>3. PICK o \in 0..n : o = Opening
  BY <1>1, LastBrackets, Zenon
<1>4. PICK c \in 0..n : c = Closing
  BY <1>1, LastBrackets, Zenon
<1>5. /\ o # 0 => text[o] = "<"
      /\ c # 0 => text[c] = ">"
      /\ \A k \in 1..n : text[k] = "<" => k <= o
      /\ \A k \in 1..n : text[k] = ">" => k <= c
  BY <1>1, <1>3, <1>4, LastBrackets, Zenon
<1> DEFINE B == Brackets(text, least)
<1>6. ASSUME NEW p \in B
      PROVE  /\ p = <<p[1], p[2]>> /\ p[1] \in 1..n /\ p[2] \in 1..n
             /\ p[1] <= o /\ p[2] <= c
             /\ p[1] > least /\ p[2] > p[1] + 1
  <2>1. p \in (1..n) \X (1..n) /\ text[p[1]] = "<" /\ text[p[2]] = ">"
        /\ p[1] > least /\ p[2] > p[1] + 1
    BY <1>2 DEF Brackets
  <2>2. p = <<p[1], p[2]>> /\ p[1] \in 1..n /\ p[2] \in 1..n
    BY <2>1
  <2> QED
    BY <1>5, <2>1, <2>2, Zenon
<1>7. IsPlain => B = {}
  <2> HAVE IsPlain
  <2>1. o = 0
    BY <1>3 DEF IsPlain
  <2> SUFFICES ASSUME NEW p \in B PROVE FALSE
    OBVIOUS
  <2>2. p[1] \in 1..n /\ p[1] <= o
    BY <1>6
  <2> QED
    BY <2>1, <2>2
<1>8. ASSUME HasLabel, least = 1 => role = "capterm"
      PROVE  o > least /\ o + 1 < c /\ o \in 1..n /\ c \in 1..n
  <2>1. Strip(<<>>) = <<>>
    <3>1. <<>> \in Seq(Characters) /\ IsTrim(<<>>)
      BY DEF IsTrim
    <3> QED
      BY <3>1, StripLists, Zenon
  <2>2. o > 0 /\ Strip(Enclosed) # <<>> /\ (role = "capterm" => Strip(InFront) # <<>>)
    BY <1>3, <1>8, Zenon DEF HasLabel
  <2>3. o + 1 < c
    <3>1. ~(c > o + 1) => Enclosed = <<>>
      BY <1>3, <1>4, PartsOfText, Zenon
    <3>2. c > o + 1
      BY <2>1, <2>2, <3>1, Zenon
    <3> QED
      BY <3>2
  <2>4. o > least
    <3>1. CASE least = 0
      BY <2>2, <3>1
    <3>2. CASE least = 1
      <4>1. ~(o <= 1)
        <5>1. o <= 1 => InFront = <<>>
          BY <1>3, PartsOfText, Zenon
        <5> QED
          BY <1>8, <2>1, <2>2, <3>2, <5>1, Zenon
      <4> QED
        BY <3>2, <4>1
    <3> QED
      BY <3>1, <3>2
  <2> QED
    BY <2>2, <2>3, <2>4
<1>9. ASSUME HasLabel, least = 1 => role = "capterm"
      PROVE  /\ <<o, c>> \in B /\ ~IsPlain
             /\ \A i, j : AreBrackets(text, least, i, j) => i = o /\ j = c
  <2>1. o > least /\ c > o + 1 /\ o \in 1..n /\ c \in 1..n /\ o # 0 /\ c # 0
    BY <1>8, <1>9
  <2>2. text[o] = "<" /\ text[c] = ">"
    BY <1>5, <2>1, Zenon
  <2>3. PICK p : p = <<o, c>>
    OBVIOUS
  <2>4. p[1] = o /\ p[2] = c /\ p \in (1..n) \X (1..n)
    BY <2>1, <2>3
  <2>5. p \in B
    BY <1>2, <2>1, <2>2, <2>4, Zenon DEF Brackets
  <2>6. ASSUME NEW i, NEW j, AreBrackets(text, least, i, j)
        PROVE  i = o /\ j = c
    <3>1. PICK q \in B : q = <<i, j>>
      BY <2>6, Zenon DEF AreBrackets
    <3>2. q[1] = i /\ q[2] = j
      BY <3>1
    <3>3. p[1] <= i /\ (p[1] = i => p[2] <= j)
      BY <2>5, <2>6, Zenon DEF AreBrackets
    <3>4. i \in 1..n /\ j \in 1..n /\ i <= o /\ j <= c
      BY <1>6, <3>2, Zenon
    <3>5. i = o
      BY <2>4, <3>3, <3>4
    <3>6. c <= j
      BY <2>4, <3>3, <3>5
    <3> QED
      BY <3>4, <3>5, <3>6
  <2>7. ~IsPlain
    BY <1>3, <2>1, Zenon DEF IsPlain
  <2> QED
    BY <2>3, <2>5, <2>6, <2>7, Zenon
<1> HIDE DEF B
<1>10. ASSUME HasLabel, least = 1 => role = "capterm"
       PROVE  /\ Opening \in 1..Len(text) /\ Closing \in 1..Len(text)
              /\ Opening + 1 < Closing /\ ~IsPlain /\ B # {}
              /\ \A i, j : AreBrackets(text, least, i, j) => i = Opening /\ j = Closing
  <2>1. o + 1 < c /\ o \in 1..n /\ c \in 1..n
    BY <1>8, <1>10
  <2>2. <<o, c>> \in B /\ ~IsPlain
        /\ \A i, j : AreBrackets(text, least, i, j) => i = o /\ j = c
    BY <1>9, <1>10
  <2> QED
    BY <1>1, <1>3, <1>4, <2>1, <2>2, Zenon
<1> QED
  BY <1>7, <1>10, Zenon DEF B

\* What Sphinx shall make of what it is handed: a title that is shown, and a
\* target that is the label, but for the case of letters.
Means(T, R) ==
  /\ EndsSolid(T) /\ IsTrim(R) /\ HasNoOpening(R)
  /\ LowerAll(T) = LowerAll(Meant)
  /\ LowerAll(R) = LowerAll(Strip(Label))

\* s says so: it has a title and a target, or is what the author wrote.
Says(s) ==
  \/ \E T, R \in Seq(Characters) : Means(T, R) /\ s = Explicit(T, R)
  \/ /\ role = "txtref" /\ HasLabel
     /\ Opening > 1 /\ Closing = Len(text) /\ s = text

\* The invariant: what is handed to Sphinx says what the author meant.
RolesInv ==
  /\ AuthorText /\ RolesTypeOK
  /\ state = "fixed" /\ (IsPlain \/ HasLabel) => Says(fixed)
  /\ AuthorsAreUnderstood

\* A part of a sequence is a sequence, also if it is empty.
LEMMA PartIsSeq ==
  ASSUME NEW T, NEW s \in Seq(T), NEW m \in Nat, NEW n \in Int, 1 <= m, n <= Len(s)
  PROVE  SubSeq(s, m, n) \in Seq(T)
<1>1. CASE n \in Nat
  BY <1>1, PartLists
<1>2. CASE n \notin Nat
  <2>1. n < m /\ m \in Int
    BY <1>2
  <2>2. SubSeq(s, m, n) = <<>>
    BY <2>1, SubSeqEmpty
  <2> QED
    BY <2>2
<1> QED
  BY <1>1, <1>2

\* The parts the code takes.
LEMMA PartsAreTexts ==
  ASSUME AuthorText, NEW least, NEW i, NEW j, AreBrackets(text, least, i, j)
  PROVE  /\ i \in 1..Len(text) /\ j \in 1..Len(text) /\ i + 1 < j
         /\ SubSeq(text, 1, i - 1) \in Seq(Characters)
         /\ SubSeq(text, i + 1, j - 1) \in Seq(Characters)
         /\ SubSeq(text, j + 1, Len(text)) \in Seq(Characters)
         /\ EndsSolid(SubSeq(text, j + 1, Len(text)))
<1>1. PICK n \in Nat : n = Len(text)
  BY DEF AuthorText
<1>2. text \in Seq(Characters) /\ DOMAIN text = 1..n /\ n \in 1..n /\ text[n] # " "
  <2>1. text \in Seq(Characters) /\ text # <<>> /\ text[Len(text)] # " "
    BY DEF AuthorText, IsTrim
  <2>2. Len(text) \in 1..Len(text)
    BY <2>1, NotEmpty, Zenon
  <2>3. DOMAIN text = 1..Len(text)
    <3>1. text \in Seq(Characters)
      BY <2>1
    <3> QED
      BY <3>1
  <2> QED
    BY <1>1, <2>1, <2>2, <2>3, Zenon
<1>3. i \in 1..n /\ j \in 1..n /\ j > i + 1
  <2>1. PICK p : p = <<i, j>>
    OBVIOUS
  <2>2. p[1] = i /\ p[2] = j
    BY <2>1
  <2>3. p \in Brackets(text, least)
    BY <2>1, Zenon DEF AreBrackets
  <2>4. p \in (1..n) \X (1..n) /\ p[2] > p[1] + 1
    BY <1>2, <2>3, Zenon DEF Brackets
  <2> QED
    BY <2>2, <2>4
<1>4. /\ 1 \in Nat /\ 1 <= 1 /\ i - 1 \in Int /\ i - 1 <= n
      /\ i + 1 \in Nat /\ 1 <= i + 1 /\ j - 1 \in Int /\ j - 1 <= n
      /\ j + 1 \in Nat /\ 1 <= j + 1 /\ n \in Int /\ n <= n
  BY <1>3
<1>5. /\ SubSeq(text, 1, i - 1) \in Seq(Characters)
      /\ SubSeq(text, i + 1, j - 1) \in Seq(Characters)
      /\ SubSeq(text, j + 1, n) \in Seq(Characters)
  BY <1>1, <1>2, <1>4, PartIsSeq
<1> DEFINE b == SubSeq(text, j + 1, n)
<1>6. EndsSolid(b)
  <2>1. /\ Len(b) = IF j + 1 <= n THEN n - (j + 1) + 1 ELSE 0
        /\ \A k \in 1..Len(b) : b[k] = text[j + 1 + k - 1]
    <3>1. text \in Seq(Characters)
      BY <1>2
    <3>2. j + 1 \in Nat /\ 1 <= j + 1 /\ n <= Len(text)
      BY <1>1, <1>4
    <3> QED
      BY <3>1, <3>2, PartLists
  <2>2. b \in Seq(Characters)
    BY <1>5
  <2> HIDE DEF b
  <2> SUFFICES ASSUME b # <<>> PROVE b[Len(b)] # " "
    BY DEF EndsSolid
  <2>3. PICK l \in Nat : l = Len(b) /\ l >= 1 /\ l \in 1..l
    BY <2>2, NotEmpty
  <2>4. j + 1 + l - 1 = n
    <3>1. l = IF j + 1 <= n THEN n - (j + 1) + 1 ELSE 0
      BY <2>1, <2>3, Zenon
    <3> QED
      BY <1>3, <2>3, <3>1
  <2> QED
    BY <1>2, <2>1, <2>3, <2>4, Zenon
<1> QED
  <2>1. i + 1 < j
    BY <1>3
  <2> QED
    BY <1>1, <1>3, <1>5, <1>6, <2>1, Zenon

\* What Explicit makes is a text.
LEMMA ExplicitIsText ==
  ASSUME NEW T \in Seq(Characters), NEW R \in Seq(Characters)
  PROVE  Explicit(T, R) \in Seq(Characters) /\ Explicit(T, R) # <<>>
<1>1. PICK n \in Nat : n = Len(T)
  OBVIOUS
<1>2. PICK m \in Nat : m = Len(R)
  OBVIOUS
<1>3. PICK e : e = Explicit(T, R)
  OBVIOUS
<1>4. e \in Seq(Characters) /\ Len(e) = n + m + 3
  BY <1>1, <1>2, <1>3, ExplicitLists
<1>5. n + m + 3 # 0
  OBVIOUS
<1>6. Len(<<>>) = 0
  OBVIOUS
<1> QED
  BY <1>3, <1>4, <1>5, <1>6, Zenon

\* capterm with a label.
LEMMA CaptermExplicitSays ==
  ASSUME AuthorText, NEW i, NEW j, CaptermExplicit(i, j)
  PROVE  /\ fixed' \in Seq(Characters) /\ fixed' # <<>>
         /\ IsPlain \/ HasLabel => Says(fixed')
<1>1. role = "capterm" /\ AreBrackets(text, 1, i, j) /\ text \in Seq(Characters)
  BY Zenon DEF CaptermExplicit, AuthorText
<1> DEFINE T == Strip(SubSeq(text, 1, i - 1))
           S == Strip(SubSeq(text, i + 1, j - 1))
           R == Capitalized(S)
<1>2. fixed' = Explicit(T, R)
  BY Zenon DEF CaptermExplicit, Fixed
<1>3. SubSeq(text, 1, i - 1) \in Seq(Characters) /\ SubSeq(text, i + 1, j - 1) \in Seq(Characters)
  BY <1>1, PartsAreTexts
<1>4. T \in Seq(Characters) /\ IsTrim(T) /\ S \in Seq(Characters) /\ IsTrim(S)
      /\ (HasNoOpening(SubSeq(text, i + 1, j - 1)) => HasNoOpening(S))
  BY <1>3, StripLists
<1>5. R \in Seq(Characters) /\ LowerAll(R) = LowerAll(S) /\ IsTrim(R)
      /\ (HasNoOpening(S) => HasNoOpening(R))
  BY <1>4, CapitalizedLists
<1>6. ASSUME IsPlain \/ HasLabel PROVE Says(fixed')
  <2>0. 1 \in {0, 1}
    OBVIOUS
  <2>1. ~IsPlain
    <3>1. Brackets(text, 1) # {}
      BY <1>1, Zenon DEF AreBrackets
    <3> QED
      BY <1>1, <2>0, <3>1, LabelIsFound, Zenon
  <2>2. i = Opening /\ j = Closing
    BY <1>1, <1>6, <2>0, <2>1, LabelIsFound, Zenon
  <2>3. T = Meant /\ S = Strip(Label)
    BY <1>1, <2>1, <2>2, Zenon DEF Meant, Label, InFront, Enclosed
  <2>4. HasNoOpening(SubSeq(text, i + 1, j - 1))
    BY <1>1, <2>2, PartsOfText, Zenon DEF Enclosed
  <2>5. EndsSolid(T)
    BY <1>4, Zenon DEF EndsSolid, IsTrim
  <2> HIDE DEF T, S, R
  <2>6. Means(T, R)
    BY <1>4, <1>5, <2>3, <2>4, <2>5, Zenon DEF Means
  <2> QED
    BY <1>2, <1>4, <1>5, <2>6, Zenon DEF Says
<1> HIDE DEF T, S, R
<1> QED
  BY <1>2, <1>4, <1>5, <1>6, ExplicitIsText

\* capterm without one.
LEMMA CaptermPlainSays ==
  ASSUME AuthorText, CaptermPlain
  PROVE  /\ fixed' \in Seq(Characters) /\ fixed' # <<>>
         /\ IsPlain \/ HasLabel => Says(fixed')
<1>1. role = "capterm" /\ Brackets(text, 1) = {} /\ text \in Seq(Characters) /\ IsTrim(text)
  BY Zenon DEF CaptermPlain, AuthorText
<1> DEFINE R == Capitalized(text)
<1>2. Strip(text) = text
  BY <1>1, StripLists
<1>3. fixed' = Explicit(text, R)
  BY <1>2, Zenon DEF CaptermPlain, Fixed
<1>4. R \in Seq(Characters) /\ LowerAll(R) = LowerAll(text) /\ IsTrim(R)
      /\ (HasNoOpening(text) => HasNoOpening(R))
  BY <1>1, CapitalizedLists
<1>5. ASSUME IsPlain \/ HasLabel PROVE Says(fixed')
  <2>0. 1 \in {0, 1}
    OBVIOUS
  <2>1. IsPlain
    BY <1>1, <1>5, <2>0, LabelIsFound, Zenon
  <2>2. Meant = text /\ Label = text
    BY <1>1, <2>1, Zenon DEF Meant, Label
  <2>3. HasNoOpening(text)
    <3>1. \A k \in 1..Len(text) : text[k] = "<" => k <= Opening
      BY <1>1, LastBrackets, Zenon
    <3>2. \A k \in 1..Len(text) : ~(k <= Opening)
      BY <2>1 DEF IsPlain
    <3> QED
      BY <3>1, <3>2, Zenon DEF HasNoOpening
  <2>4. EndsSolid(text)
    BY <1>1, Zenon DEF EndsSolid, IsTrim
  <2> HIDE DEF R
  <2>5. Means(text, R)
    BY <1>2, <1>4, <2>2, <2>3, <2>4, Zenon DEF Means
  <2> QED
    BY <1>1, <1>3, <1>4, <2>5, Zenon DEF Says
<1> HIDE DEF R
<1> QED
  BY <1>1, <1>3, <1>4, <1>5, ExplicitIsText

\* txtref with a label and a suffix.
LEMMA TxtrefSuffixSays ==
  ASSUME AuthorText, NEW j, TxtrefSuffix(j)
  PROVE  /\ fixed' \in Seq(Characters) /\ fixed' # <<>>
         /\ IsPlain \/ HasLabel => Says(fixed')
<1>1. role = "txtref" /\ AreBrackets(text, 0, 1, j) /\ text \in Seq(Characters)
  BY Zenon DEF TxtrefSuffix, AuthorText
<1>2. role # "capterm"
  BY <1>1
<1> DEFINE ref == SubSeq(text, 2, j - 1)
           W == Words(ref)
           S == SubSeq(text, j + 1, Len(text))
           T == <<Lower(Head(W))>> \o Tail(W) \o S
           R == Strip(ref)
<1>3. W # <<>> /\ fixed' = Explicit(T, R)
  BY Zenon DEF TxtrefSuffix, Fixed, MakeTermText
<1>4. ref \in Seq(Characters) /\ S \in Seq(Characters) /\ EndsSolid(S)
  <2>1. 1 + 1 = 2
    OBVIOUS
  <2> QED
    BY <1>1, <2>1, PartsAreTexts, Zenon
<1>5. W \in Seq(Characters) /\ IsTrim(W)
  BY <1>4, WordsLists
<1>6. T \in Seq(Characters) /\ EndsSolid(T) /\ LowerAll(T) = LowerAll(W \o S)
  BY <1>3, <1>4, <1>5, TermTextShows
<1>7. R \in Seq(Characters) /\ IsTrim(R) /\ (HasNoOpening(ref) => HasNoOpening(R))
  BY <1>4, StripLists
<1>8. ASSUME IsPlain \/ HasLabel PROVE Says(fixed')
  <2>0. 0 \in {0, 1} /\ 0 # 1
    OBVIOUS
  <2>1. ~IsPlain
    <3>1. Brackets(text, 0) # {}
      BY <1>1, Zenon DEF AreBrackets
    <3> QED
      BY <1>1, <2>0, <3>1, LabelIsFound, Zenon
  <2>2. 1 = Opening /\ j = Closing
    BY <1>1, <1>8, <2>0, <2>1, LabelIsFound, Zenon
  <2>3. ref = Enclosed /\ S = Behind
    <3>1. 1 + 1 = 2
      OBVIOUS
    <3> QED
      BY <2>2, <3>1, Zenon DEF Enclosed, Behind
  <2>4. InFront = <<>>
    <3>1. Opening <= 1
      BY <2>2
    <3> QED
      BY <1>1, <3>1, PartsOfText, Zenon
  <2>5. Meant = W \o S /\ R = Strip(Label)
    BY <1>2, <2>1, <2>3, <2>4, Zenon DEF Meant, Label
  <2>6. HasNoOpening(ref)
    BY <1>1, <2>3, PartsOfText, Zenon
  <2> HIDE DEF T, S, R, W, ref
  <2>7. Means(T, R)
    BY <1>6, <1>7, <2>5, <2>6, Zenon DEF Means
  <2> QED
    BY <1>3, <1>6, <1>7, <2>7, Zenon DEF Says
<1> HIDE DEF T, S, R, W, ref
<1> QED
  BY <1>3, <1>6, <1>7, <1>8, ExplicitIsText

\* txtref with an alias and a label.
LEMMA TxtrefAliasSays ==
  ASSUME AuthorText, NEW i, TxtrefAlias(i)
  PROVE  /\ fixed' \in Seq(Characters) /\ fixed' # <<>>
         /\ IsPlain \/ HasLabel => Says(fixed')
<1>1. role = "txtref" /\ AreBrackets(text, 0, i, Len(text)) /\ i > 1 /\ fixed' = text
  BY Zenon DEF TxtrefAlias, Fixed
<1>2. text \in Seq(Characters) /\ text # <<>>
  BY Zenon DEF AuthorText
<1>3. ASSUME IsPlain \/ HasLabel PROVE Says(fixed')
  <2>0. 0 \in {0, 1} /\ 0 # 1
    OBVIOUS
  <2>1. ~IsPlain
    <3>1. Brackets(text, 0) # {}
      BY <1>1, Zenon DEF AreBrackets
    <3> QED
      BY <1>2, <2>0, <3>1, LabelIsFound, Zenon
  <2>2. i = Opening /\ Len(text) = Closing
    BY <1>1, <1>2, <1>3, <2>0, <2>1, LabelIsFound, Zenon
  <2> QED
    BY <1>1, <1>3, <2>1, <2>2, Zenon DEF Says
<1> QED
  BY <1>1, <1>2, <1>3, Zenon

\* txtref without a label.
LEMMA TxtrefPlainSays ==
  ASSUME AuthorText, TxtrefPlain
  PROVE  /\ fixed' \in Seq(Characters) /\ fixed' # <<>>
         /\ IsPlain \/ HasLabel => Says(fixed')
<1>1. role = "txtref" /\ Brackets(text, 0) = {} /\ text \in Seq(Characters)
  BY Zenon DEF TxtrefPlain, AuthorText
<1>2. role # "capterm" /\ <<>> \in Seq(Characters) /\ EndsSolid(<<>>)
  BY <1>1 DEF EndsSolid
<1> DEFINE W == Words(text)
           T == <<Lower(Head(W))>> \o Tail(W) \o <<>>
           R == Strip(text)
<1>3. W # <<>> /\ fixed' = Explicit(T, R)
  BY Zenon DEF TxtrefPlain, Fixed, MakeTermText
<1>4. W \in Seq(Characters) /\ IsTrim(W)
  BY <1>1, WordsLists
<1>5. T \in Seq(Characters) /\ EndsSolid(T) /\ LowerAll(T) = LowerAll(W)
  <2>1. PICK nothing \in Seq(Characters) : nothing = <<>> /\ EndsSolid(nothing)
    BY <1>2, Zenon
  <2>2. T = <<Lower(Head(W))>> \o Tail(W) \o nothing
    BY <2>1, Zenon
  <2> HIDE DEF T
  <2>3. T \in Seq(Characters) /\ EndsSolid(T) /\ LowerAll(T) = LowerAll(W \o nothing)
    BY <1>3, <1>4, <2>1, <2>2, TermTextShows, Zenon
  <2>4. W \o nothing = W
    BY <1>4, <2>1, ConcatEmptySeq, Zenon
  <2> QED
    BY <2>3, <2>4, Zenon
<1>6. R \in Seq(Characters) /\ IsTrim(R) /\ (HasNoOpening(text) => HasNoOpening(R))
  BY <1>1, StripLists
<1>7. ASSUME IsPlain \/ HasLabel PROVE Says(fixed')
  <2>0. 0 \in {0, 1} /\ 0 # 1
    OBVIOUS
  <2>1. IsPlain
    BY <1>1, <1>7, <2>0, LabelIsFound, Zenon
  <2>2. Meant = W /\ R = Strip(Label)
    BY <1>2, <2>1, Zenon DEF Meant, Label
  <2>3. HasNoOpening(text)
    <3>1. \A k \in 1..Len(text) : text[k] = "<" => k <= Opening
      BY <1>1, LastBrackets, Zenon
    <3>2. \A k \in 1..Len(text) : ~(k <= Opening)
      BY <2>1 DEF IsPlain
    <3> QED
      BY <3>1, <3>2, Zenon DEF HasNoOpening
  <2> HIDE DEF T, R, W
  <2>4. Means(T, R)
    BY <1>5, <1>6, <2>2, <2>3, Zenon DEF Means
  <2> QED
    BY <1>3, <1>5, <1>6, <2>4, Zenon DEF Says
<1> HIDE DEF T, R, W
<1> QED
  BY <1>3, <1>5, <1>6, <1>7, ExplicitIsText

\* How a text is read does not change.
LEMMA SameReading ==
  ASSUME role' = role, text' = text
  PROVE  /\ IsPlain' <=> IsPlain
         /\ HasLabel' <=> HasLabel
         /\ Label' = Label /\ Meant' = Meant
         /\ InFront' = InFront /\ Opening' = Opening /\ Closing' = Closing
         /\ AuthorText' <=> AuthorText
<1>1. Opening' = Opening /\ Closing' = Closing
  BY DEF Opening, Closing
<1>2. InFront' = InFront /\ Enclosed' = Enclosed /\ Behind' = Behind
  BY <1>1 DEF InFront, Enclosed, Behind
<1>3. IsPlain' <=> IsPlain
  BY <1>1, Zenon DEF IsPlain
<1>4. HasLabel' <=> HasLabel
  BY <1>1, <1>2, Zenon DEF HasLabel
<1>5. Label' = Label
  BY <1>2, <1>3, Zenon DEF Label
<1>6. Meant' = Meant
  <2>1. role' = role /\ text' = text
    OBVIOUS
  <2> QED
    BY <1>2, <1>3, <2>1, Zenon DEF Meant
<1>7. AuthorText' <=> AuthorText
  BY DEF AuthorText
<1> QED
  BY <1>1, <1>2, <1>3, <1>4, <1>5, <1>6, <1>7, Zenon

\* A text that is handed to Sphinx says what it should: RolesInv holds of it.
LEMMA FixedSays ==
  ASSUME RolesInv, state = "written", state' = "fixed",
         UNCHANGED <<role, text, title, target>>,
         fixed' \in Seq(Characters), fixed' # <<>>,
         IsPlain \/ HasLabel => Says(fixed')
  PROVE  RolesInv'
<1>1. /\ AuthorText /\ title \in Seq(Characters) /\ target \in Seq(Characters)
  BY Zenon DEF RolesInv, RolesTypeOK
<1>2. role' = role /\ text' = text /\ title' = title /\ target' = target
  OBVIOUS
<1>3. /\ IsPlain' <=> IsPlain
      /\ HasLabel' <=> HasLabel
      /\ Label' = Label /\ Meant' = Meant
      /\ InFront' = InFront /\ Opening' = Opening /\ Closing' = Closing
      /\ AuthorText'
  BY <1>1, <1>2, SameReading, Zenon
<1>4. RolesTypeOK'
  <2>1. state' \in {"fixed", "done"} /\ state' \in {"written", "fixed", "done", "raised"}
    OBVIOUS
  <2>2. fixed' \in Seq(Characters) /\ fixed' # <<>>
    OBVIOUS
  <2> QED
    BY <1>1, <1>2, <2>1, <2>2, Zenon DEF RolesTypeOK
<1>5. (IsPlain \/ HasLabel)' => Says(fixed)'
  <2> HAVE (IsPlain \/ HasLabel)'
  <2>1. Says(fixed')
    BY <1>3, Zenon
  <2>2. CASE \E T, R \in Seq(Characters) : Means(T, R) /\ fixed' = Explicit(T, R)
    <3>1. PICK T \in Seq(Characters), R \in Seq(Characters) : Means(T, R) /\ fixed' = Explicit(T, R)
      BY <2>2, Zenon
    <3>2. Means(T, R)'
      BY <1>3, <3>1, Zenon DEF Means
    <3> QED
      BY <3>1, <3>2, Zenon DEF Says
  <2>3. CASE /\ role = "txtref" /\ HasLabel
             /\ Opening > 1 /\ Closing = Len(text) /\ fixed' = text
    BY <1>2, <1>3, <2>3, Zenon DEF Says
  <2> QED
    BY <2>1, <2>2, <2>3, Zenon DEF Says
<1>6. AuthorsAreUnderstood'
  <2>1. state' # "done"
    OBVIOUS
  <2> QED
    BY <2>1, Zenon DEF AuthorsAreUnderstood, TargetIsTheLabel, ShowsWhatIsWritten
<1> QED
  BY <1>3, <1>4, <1>5, <1>6, Zenon DEF RolesInv

\* What RightStripped leaves is a text.
LEMMA RightStrippedIsText ==
  ASSUME NEW s \in Seq(Characters)
  PROVE  RightStripped(s) \in Seq(Characters)
<1>1. PICK n \in Nat : n = Len(s)
  OBVIOUS
<1>2. LastPlace(Solid(s)) \in 0..n
  <2>1. Solid(s) \in SUBSET (1..n)
    BY <1>1, StripLists
  <2> QED
    BY <2>1, LastPlaceIs
<1>3. PICK l \in 0..n : l = LastPlace(Solid(s))
  BY <1>2
<1>4. 1 \in Nat /\ l \in Int /\ 1 <= 1 /\ l <= n
  OBVIOUS
<1>5. SubSeq(s, 1, l) \in Seq(Characters)
  BY <1>1, <1>4, PartIsSeq
<1> QED
  BY <1>3, <1>5, Zenon DEF RightStripped

\* Sphinx makes texts of a text.
LEMMA ResolveTypes ==
  ASSUME fixed \in Seq(Characters), Resolve
  PROVE  title' \in Seq(Characters) /\ target' \in Seq(Characters)
<1> DEFINE cased(s) == IF role = "txtref" THEN LowerAll(s) ELSE s
<1>0. \A s \in Seq(Characters) : cased(s) \in Seq(Characters)
  BY LowerLists
<1>1. ASSUME NEW i \in SplitAt(fixed)
      PROVE  /\ RightStripped(SubSeq(fixed, 1, i - 1)) \in Seq(Characters)
             /\ cased(SubSeq(fixed, i + 1, Len(fixed) - 1)) \in Seq(Characters)
  <2>1. PICK n \in Nat : n = Len(fixed)
    OBVIOUS
  <2>2. i \in 2..n-1
    BY <2>1, Zenon DEF SplitAt
  <2>3. /\ 1 \in Nat /\ 1 <= 1 /\ i - 1 \in Int /\ i - 1 <= n
        /\ i + 1 \in Nat /\ 1 <= i + 1 /\ n - 1 \in Int /\ n - 1 <= n
    BY <2>2
  <2>4. SubSeq(fixed, 1, i - 1) \in Seq(Characters) /\ SubSeq(fixed, i + 1, n - 1) \in Seq(Characters)
    BY <2>1, <2>3, PartIsSeq
  <2> HIDE DEF cased
  <2> QED
    BY <1>0, <2>1, <2>4, RightStrippedIsText, Zenon
<1>2. \/ \E i \in SplitAt(fixed) :
           /\ title' = RightStripped(SubSeq(fixed, 1, i - 1))
           /\ target' = cased(SubSeq(fixed, i + 1, Len(fixed) - 1))
      \/ title' = fixed /\ target' = cased(fixed)
  BY Zenon DEF Resolve
<1> HIDE DEF cased
<1> QED
  BY <1>0, <1>1, <1>2, Zenon

\* Sphinx takes a title and a target apart as they were meant.
LEMMA ResolveSays ==
  ASSUME AuthorText, Resolve, IsPlain \/ HasLabel, Says(fixed)
  PROVE  /\ LowerAll(title') = LowerAll(Meant)
         /\ LowerAll(Strip(target')) = LowerAll(Strip(Label))
         /\ Strip(target') = target' \/ (role = "txtref" /\ InFront # <<>>)
<1> DEFINE cased(s) == IF role = "txtref" THEN LowerAll(s) ELSE s
<1>0. \/ \E i \in SplitAt(fixed) :
           /\ title' = RightStripped(SubSeq(fixed, 1, i - 1))
           /\ target' = cased(SubSeq(fixed, i + 1, Len(fixed) - 1))
      \/ SplitAt(fixed) = {} /\ title' = fixed /\ target' = cased(fixed)
  BY Zenon DEF Resolve
<1>1. \A s \in Seq(Characters) :
        /\ cased(s) \in Seq(Characters)
        /\ LowerAll(cased(s)) = LowerAll(s)
        /\ IsTrim(s) => IsTrim(cased(s))
  BY LowerLists
<1>2. CASE \E T, R \in Seq(Characters) : Means(T, R) /\ fixed = Explicit(T, R)
  <2>1. PICK T \in Seq(Characters), R \in Seq(Characters) :
          Means(T, R) /\ fixed = Explicit(T, R)
    BY <1>2, Zenon
  <2>2. PICK n \in Nat : n = Len(T)
    OBVIOUS
  <2>3. EndsSolid(T) /\ HasNoOpening(R) /\ IsTrim(R)
    BY <2>1, Zenon DEF Means
  <2>4. /\ SplitAt(fixed) = {n + 2}
        /\ RightStripped(SubSeq(fixed, 1, n + 2 - 1)) = T
        /\ SubSeq(fixed, n + 2 + 1, Len(fixed) - 1) = R
    BY <2>1, <2>2, <2>3, ExplicitSplits
  <2> HIDE DEF cased
  <2>5. title' = T /\ target' = cased(R)
    <3>1. n + 2 \in SplitAt(fixed) /\ \A i \in SplitAt(fixed) : i = n + 2
      BY <2>4
    <3>2. SplitAt(fixed) # {}
      BY <3>1
    <3>3. PICK i \in SplitAt(fixed) :
            /\ title' = RightStripped(SubSeq(fixed, 1, i - 1))
            /\ target' = cased(SubSeq(fixed, i + 1, Len(fixed) - 1))
      BY <1>0, <3>2, Zenon
    <3>4. i = n + 2
      BY <3>1
    <3>5. /\ title' = RightStripped(SubSeq(fixed, 1, n + 2 - 1))
          /\ target' = cased(SubSeq(fixed, n + 2 + 1, Len(fixed) - 1))
      BY <3>3, <3>4
    <3> QED
      BY <2>4, <3>5, Zenon
  <2>6. target' \in Seq(Characters) /\ IsTrim(target') /\ LowerAll(target') = LowerAll(R)
    BY <1>1, <2>3, <2>5, Zenon
  <2>7. Strip(target') = target'
    BY <2>6, StripLists, Zenon
  <2> QED
    BY <2>1, <2>5, <2>6, <2>7, Zenon DEF Means
<1>3. CASE /\ role = "txtref" /\ HasLabel
           /\ Opening > 1 /\ Closing = Len(text) /\ fixed = text
  <2>1. text \in Seq(Characters) /\ text # <<>>
    BY Zenon DEF AuthorText
  <2>2. PICK n \in Nat : n = Len(text)
    BY <2>1
  <2>3. /\ Opening \in 1..n /\ n \in 1..n /\ Opening + 1 < n
        /\ text[Opening] = "<" /\ text[n] = ">"
        /\ \A k \in 1..n : text[k] = "<" => k <= Opening
        /\ ~IsPlain
    <3>1. 0 \in {0, 1} /\ 0 # 1
      OBVIOUS
    <3>2. Opening \in 1..n /\ Closing \in 1..n /\ Opening + 1 < Closing /\ ~IsPlain
      BY <1>3, <2>1, <2>2, <3>1, LabelIsFound, Zenon
    <3>3. Opening # 0 /\ Closing # 0
      BY <3>2
    <3>4. /\ text[Opening] = "<" /\ text[Closing] = ">"
          /\ \A k \in 1..n : text[k] = "<" => k <= Opening
      BY <2>1, <2>2, <3>3, LastBrackets, Zenon
    <3> QED
      BY <1>3, <2>2, <3>2, <3>4, Zenon
  <2>4. PICK o \in 1..n : o = Opening
    BY <2>3
  <2>5. o \in 2..n-1 /\ o + 1 < n
    <3>1. o > 1 /\ o + 1 < n
      BY <1>3, <2>3, <2>4
    <3> QED
      BY <3>1
  <2>6. SplitAt(text) = {o}
    <3>1. Last(text) = ">"
      BY <2>2, <2>3, Zenon DEF Last
    <3>2. \A k \in o+1..n : text[k] # "<"
      <4> TAKE k \in o+1..n
      <4>1. k \in 1..n /\ ~(k <= o)
        OBVIOUS
      <4> QED
        BY <2>3, <2>4, <4>1, Zenon
    <3>3. o \in SplitAt(text)
      BY <2>2, <2>3, <2>4, <2>5, <3>1, <3>2, Zenon DEF SplitAt
    <3>4. ASSUME NEW i \in SplitAt(text) PROVE i = o
      <4>1. i \in 2..n-1 /\ text[i] = "<" /\ \A k \in i+1..n : text[k] # "<"
        BY <2>2, Zenon DEF SplitAt
      <4>2. i \in 1..n
        BY <4>1
      <4>3. i <= o /\ o \notin i+1..n
        BY <2>3, <2>4, <4>1, <4>2, Zenon
      <4> QED
        BY <4>2, <4>3
    <3> QED
      BY <3>3, <3>4, Zenon
  <2> HIDE DEF cased
  <2>7. /\ title' = RightStripped(SubSeq(text, 1, o - 1))
        /\ target' = cased(SubSeq(text, o + 1, n - 1))
    BY <1>0, <1>3, <2>2, <2>6, Zenon
  <2>8. title' = RightStripped(InFront) /\ target' = cased(Enclosed)
    BY <1>3, <2>2, <2>4, <2>7, Zenon DEF InFront, Enclosed
  <2>9. InFront # <<>>
    <3>1. o - 1 \in Nat /\ 1 \in Nat /\ o - 1 <= n /\ 1 <= 1 /\ 1 <= o - 1 /\ o - 1 - 1 + 1 # 0
      BY <2>5
    <3> DEFINE f == SubSeq(text, 1, o - 1)
    <3>2. Len(f) = o - 1 - 1 + 1
      BY <2>1, <2>2, <3>1, PartLists
    <3>3. Len(<<>>) = 0 /\ f = InFront
      BY <2>4, Zenon, EmptySeq DEF InFront
    <3> HIDE DEF f
    <3> QED
      BY <3>1, <3>2, <3>3, Zenon
  <2>10. Meant = RightStripped(InFront) /\ Label = Enclosed
    <3>1. role # "capterm"
      BY <1>3
    <3> QED
      BY <2>3, <2>9, <3>1, Zenon DEF Meant, Label
  <2>11. LowerAll(Strip(target')) = LowerAll(Strip(Enclosed))
    <3>1. Enclosed \in Seq(Characters)
      BY <2>1, PartsOfText, Zenon
    <3>2. target' = LowerAll(Enclosed)
      BY <1>3, <2>8, Zenon DEF cased
    <3>3. Strip(target') = LowerAll(Strip(Enclosed))
      BY <3>1, <3>2, StripLower, Zenon
    <3>4. Strip(Enclosed) \in Seq(Characters)
      BY <3>1, StripLists, Zenon
    <3> QED
      BY <3>3, <3>4, LowerLists, Zenon
  <2> QED
    BY <1>3, <2>8, <2>9, <2>10, <2>11, Zenon
<1> QED
  BY <1>2, <1>3, Zenon DEF Says

\* RolesInv holds at first ...
LEMMA RolesInvInit == RolesInit => RolesInv
<1> SUFFICES ASSUME RolesInit PROVE RolesInv
  OBVIOUS
<1>1. PICK n \in 1..MaxLen : text \in [1..n -> Characters]
  BY DEF RolesInit
<1>2. text \in Seq(Characters) /\ Len(text) = n /\ n \in Nat /\ n >= 1
  BY <1>1, RolesAssumption
<1>3. text # <<>> /\ Head(text) = text[1] /\ Last(text) = text[Len(text)]
  BY <1>2 DEF Last
<1>4. AuthorText
  BY <1>2, <1>3, Zenon DEF RolesInit, AuthorText, IsTrim
<1>5. RolesTypeOK
  <2>1. fixed = <<>> /\ title = <<>> /\ target = <<>> /\ state = "written"
    BY Zenon DEF RolesInit
  <2>2. state \notin {"fixed", "done"} /\ state \in {"written", "fixed", "done", "raised"}
    BY <2>1
  <2>3. <<>> \in Seq(Characters)
    OBVIOUS
  <2> QED
    BY <2>1, <2>2, <2>3, Zenon DEF RolesTypeOK
<1>6. state # "done" /\ state # "fixed"
  BY DEF RolesInit
<1> QED
  BY <1>4, <1>5, <1>6, Zenon
     DEF RolesInv, AuthorsAreUnderstood, TargetIsTheLabel, ShowsWhatIsWritten

\* ... every step keeps it ...
LEMMA RolesInvNext == RolesInv /\ [RolesNext]_rolesVars => RolesInv'
<1> SUFFICES ASSUME RolesInv, [RolesNext]_rolesVars PROVE RolesInv'
  OBVIOUS
<1>0. AuthorText
  BY Zenon DEF RolesInv
<1>1. ASSUME NEW i \in DOMAIN text, NEW j \in DOMAIN text, CaptermExplicit(i, j) PROVE RolesInv'
  <2>1. state = "written" /\ state' = "fixed" /\ UNCHANGED <<role, text, title, target>>
    BY <1>1, Zenon DEF CaptermExplicit, Fixed
  <2> QED
    BY <1>0, <1>1, <2>1, CaptermExplicitSays, FixedSays, Zenon
<1>2. CASE CaptermPlain
  <2>1. state = "written" /\ state' = "fixed" /\ UNCHANGED <<role, text, title, target>>
    BY <1>2, Zenon DEF CaptermPlain, Fixed
  <2> QED
    BY <1>0, <1>2, <2>1, CaptermPlainSays, FixedSays, Zenon
<1>3. ASSUME NEW i \in DOMAIN text, TxtrefSuffix(i) PROVE RolesInv'
  <2>1. state = "written" /\ state' = "fixed" /\ UNCHANGED <<role, text, title, target>>
    BY <1>3, Zenon DEF TxtrefSuffix, Fixed
  <2> QED
    BY <1>0, <1>3, <2>1, TxtrefSuffixSays, FixedSays, Zenon
<1>4. ASSUME NEW i \in DOMAIN text, TxtrefAlias(i) PROVE RolesInv'
  <2>1. state = "written" /\ state' = "fixed" /\ UNCHANGED <<role, text, title, target>>
    BY <1>4, Zenon DEF TxtrefAlias, Fixed
  <2> QED
    BY <1>0, <1>4, <2>1, TxtrefAliasSays, FixedSays, Zenon
<1>5. CASE TxtrefPlain
  <2>1. state = "written" /\ state' = "fixed" /\ UNCHANGED <<role, text, title, target>>
    BY <1>5, Zenon DEF TxtrefPlain, Fixed
  <2> QED
    BY <1>0, <1>5, <2>1, TxtrefPlainSays, FixedSays, Zenon
<1>6. CASE TxtrefRaises
  <2>1. /\ state = "written" /\ state' = "raised" /\ role' = role /\ text' = text
        /\ fixed' = fixed /\ title' = title /\ target' = target
    BY <1>6, Zenon DEF TxtrefRaises
  <2>2. AuthorText'
    BY <1>0, <2>1, SameReading, Zenon
  <2>3. state' # "done" /\ state' # "fixed" /\ state # "done" /\ state # "fixed"
    BY <2>1
  <2>4. RolesTypeOK'
    BY <2>1, <2>3 DEF RolesInv, RolesTypeOK
  <2> QED
    BY <2>2, <2>3, <2>4, Zenon
       DEF RolesInv, AuthorsAreUnderstood, TargetIsTheLabel, ShowsWhatIsWritten
<1>7. CASE Resolve
  <2>1. state = "fixed" /\ state' = "done" /\ role' = role /\ text' = text /\ fixed' = fixed
    BY <1>7, Zenon DEF Resolve
  <2>2. fixed \in Seq(Characters) /\ fixed # <<>>
    BY <2>1 DEF RolesInv, RolesTypeOK
  <2>3. /\ AuthorText' /\ (IsPlain' <=> IsPlain) /\ (HasLabel' <=> HasLabel)
        /\ Label' = Label /\ Meant' = Meant /\ InFront' = InFront
    BY <1>0, <2>1, SameReading, Zenon
  <2>4. RolesTypeOK'
    <3>1. title' \in Seq(Characters) /\ target' \in Seq(Characters)
      BY <1>7, <2>2, ResolveTypes, Zenon
    <3> QED
      BY <2>1, <2>2, <3>1 DEF RolesTypeOK
  <2>5. AuthorsAreUnderstood'
    <3> SUFFICES ASSUME IsPlain \/ HasLabel
                 PROVE  /\ LowerAll(title') = LowerAll(Meant)
                        /\ LowerAll(Strip(target')) = LowerAll(Strip(Label))
                        /\ Strip(target') = target' \/ (role = "txtref" /\ InFront # <<>>)
      BY <2>1, <2>3, Zenon DEF AuthorsAreUnderstood, TargetIsTheLabel, ShowsWhatIsWritten
    <3>1. Says(fixed)
      BY <2>1, Zenon DEF RolesInv
    <3> QED
      BY <1>0, <1>7, <3>1, ResolveSays, Zenon
  <2>6. state' # "fixed"
    BY <2>1
  <2> QED
    BY <2>3, <2>4, <2>5, <2>6, Zenon DEF RolesInv
<1>8. CASE UNCHANGED rolesVars
  <2>1. /\ role' = role /\ text' = text /\ fixed' = fixed /\ title' = title
        /\ target' = target /\ state' = state
    BY <1>8, Zenon DEF rolesVars
  <2> QED
    BY <2>1
       DEF RolesInv, AuthorText, RolesTypeOK, Says, Means, AuthorsAreUnderstood,
           TargetIsTheLabel, ShowsWhatIsWritten, IsPlain, HasLabel, Label, Meant,
           InFront, Enclosed, Behind, Opening, Closing
<1> QED
  BY <1>1, <1>2, <1>3, <1>4, <1>5, <1>6, <1>7, <1>8, Zenon DEF RolesNext

\* ... so it always holds.
THEOREM RolesInvCorrect == RolesSpec => []RolesInv
  BY RolesInvInit, RolesInvNext, PTL DEF RolesSpec

\* The variables of the roles keep their types.
THEOREM RolesTypeCorrect == RolesSpec => []RolesTypeOK
<1>1. RolesInv => RolesTypeOK
  BY Zenon DEF RolesInv
<1> QED
  BY <1>1, RolesInvCorrect, PTL

\* Of any text, however many brackets are in it, both roles refer to the label
\* and show what is written around it.
THEOREM RolesAreUnderstood == RolesSpec => []AuthorsAreUnderstood
<1>1. RolesInv => AuthorsAreUnderstood
  BY Zenon DEF RolesInv
<1> QED
  BY <1>1, RolesInvCorrect, PTL

-----------------------------------------------------------------------------
(* Texts of comments: places of tokens.                                    *)

RunType == [kind : {"text", "math", "code"}, content : Seq(Nat \X Nat), directive : BOOLEAN]

\* The numbers of the tokens of piece p.
TokensOf(p) == 1..Len(content[p].value)

\* t has places in piece p, in their order.
Picks(t, p) ==
  /\ t \in Seq({p} \X TokensOf(p))
  /\ \A x, y \in 1..Len(t) : x < y => t[x][2] < t[y][2]

\* The places of all tokens of a piece.
LEMMA PlacePicks ==
  ASSUME NEW p, content[p].value \in Seq(Tokens)
  PROVE  /\ Picks(Place(p), p) /\ Len(Place(p)) = Len(content[p].value)
         /\ DOMAIN Place(p) = TokensOf(p)
         /\ \A k \in TokensOf(p) : Place(p)[k] = <<p, k>>
<1>1. PICK n \in Nat : n = Len(content[p].value)
  OBVIOUS
<1>2. DOMAIN content[p].value = 1..n
  BY <1>1
<1> DEFINE t == [k \in 1..n |-> <<p, k>>]
<1>3. Place(p) = t
  BY <1>2 DEF Place
<1>4. t \in Seq({p} \X (1..n)) /\ Len(t) = n
  <2>1. PICK T : T = {p} \X (1..n)
    OBVIOUS
  <2>2. \A k \in 1..n : <<p, k>> \in T
    BY <2>1
  <2>3. t \in Seq(T) /\ Len(t) = n
    BY <2>2
  <2> QED
    BY <2>1, <2>3
<1>5. \A k \in 1..n : t[k] = <<p, k>> /\ t[k][2] = k
  OBVIOUS
<1> HIDE DEF t
<1>6. \A x, y \in 1..n : x < y => t[x][2] < t[y][2]
  BY <1>5, Zenon
<1>7. DOMAIN t = 1..n
  BY <1>4
<1>8. TokensOf(p) = 1..n
  BY <1>1 DEF TokensOf
<1>9. Picks(t, p)
  BY <1>4, <1>6, <1>8 DEF Picks
<1> QED
  BY <1>1, <1>3, <1>4, <1>5, <1>7, <1>8, <1>9, Zenon

\* What Those picks of places.
LEMMA ThosePicks ==
  ASSUME NEW p, NEW t, Picks(t, p), NEW S \in SUBSET (1..Len(t))
  PROVE  /\ Picks(Those(t, S), p)
         /\ \A j \in 1..Len(Those(t, S)) : \E k \in S : Those(t, S)[j] = t[k]
         /\ \A k \in S : \E j \in 1..Len(Those(t, S)) : Those(t, S)[j] = t[k]
<1>1. PICK T : T = {p} \X TokensOf(p)
  OBVIOUS
<1>2. t \in Seq(T) /\ \A x, y \in 1..Len(t) : x < y => t[x][2] < t[y][2]
  BY <1>1, Zenon DEF Picks
<1>3. PICK u : u = Those(t, S)
  OBVIOUS
<1>4. /\ Those(t, S) \in Seq(T)
      /\ \E at \in [1..Len(Those(t, S)) -> S] : PickedBy(Those(t, S), t, at, S)
  BY <1>2, ThoseLists
<1>5. PICK at \in [1..Len(u) -> S] :
              /\ \A j \in 1..Len(u) : u[j] = t[at[j]]
              /\ \A j, k \in 1..Len(u) : j < k => at[j] < at[k]
              /\ \A n \in S : \E j \in 1..Len(u) : at[j] = n
  BY <1>3, <1>4, Zenon DEF PickedBy
<1>6. \A j \in 1..Len(u) : at[j] \in S /\ at[j] \in 1..Len(t)
  BY <1>5
<1>7. \A x, y \in 1..Len(u) : x < y => u[x][2] < u[y][2]
  BY <1>2, <1>5, <1>6, Zenon
<1>8. Picks(u, p)
  BY <1>1, <1>3, <1>4, <1>7 DEF Picks
<1>9. \A j \in 1..Len(u) : \E k \in S : u[j] = t[k]
  BY <1>5, <1>6, Zenon
<1>10. \A k \in S : \E j \in 1..Len(u) : u[j] = t[k]
  BY <1>5, ZenonT(40)
<1> QED
  BY <1>3, <1>8, <1>9, <1>10, Zenon

\* What is left of places when some in front and some behind are dropped.
LEMMA TrimmedPicks ==
  ASSUME NEW p, NEW t, Picks(t, p), NEW S \in SUBSET (1..Len(t))
  PROVE  /\ Picks(Trimmed(t, S), p)
         /\ \A j \in 1..Len(Trimmed(t, S)) : \E k \in 1..Len(t) : Trimmed(t, S)[j] = t[k]
         /\ \A k \in S : \E j \in 1..Len(Trimmed(t, S)) : Trimmed(t, S)[j] = t[k]
<1>1. t \in Seq({p} \X TokensOf(p)) /\ \A x, y \in 1..Len(t) : x < y => t[x][2] < t[y][2]
  BY Zenon DEF Picks
<1>0. Len(t) \in Nat
  BY <1>1
<1>2. CASE S = {}
  <2>1. Trimmed(t, S) = <<>>
    BY <1>2 DEF Trimmed
  <2>2. Len(<<>>) = 0 /\ 1..0 = {} /\ <<>> \in Seq({p} \X TokensOf(p))
    OBVIOUS
  <2> QED
    BY <1>2, <2>1, <2>2, Zenon DEF Picks
<1>3. CASE S # {}
  <2>1. PICK f : f = FirstPlace(S)
    OBVIOUS
  <2>2. PICK l : l = LastPlace(S)
    OBVIOUS
  <2>3. PICK u : u = Trimmed(t, S)
    OBVIOUS
  <2>4. f \in S /\ l \in S /\ \A k \in S : f <= k /\ k <= l
    BY <1>0, <1>3, <2>1, <2>2, FirstPlaceIs, LastPlaceIs
  <2>5. u = SubSeq(t, f, l)
    BY <1>3, <2>1, <2>2, <2>3 DEF Trimmed
  <2>6. f \in Nat /\ l \in Nat /\ 1 <= f /\ l <= Len(t) /\ f <= l
    BY <1>0, <2>4
  <2>7. /\ u \in Seq({p} \X TokensOf(p)) /\ Len(u) = l - f + 1
        /\ \A i \in 1..Len(u) : f + i - 1 \in f..l /\ u[i] = t[f + i - 1]
    BY <1>1, <2>5, <2>6, PartLists
  <2>8. PICK n \in Nat : n = Len(u) /\ n = l - f + 1
    BY <2>6, <2>7
  <2>9. \A i \in 1..n : f + i - 1 \in 1..Len(t) /\ u[i] = t[f + i - 1]
    BY <1>0, <2>6, <2>7, <2>8
  <2>10. ASSUME NEW x \in 1..n, NEW y \in 1..n, x < y PROVE u[x][2] < u[y][2]
    <3>1. f + x - 1 < f + y - 1
      BY <2>6, <2>10
    <3> QED
      BY <1>1, <2>9, <3>1, Zenon
  <2>11. ASSUME NEW k \in S PROVE \E j \in 1..n : u[j] = t[k]
    <3>1. k - f + 1 \in 1..n /\ f + (k - f + 1) - 1 = k
      BY <1>0, <2>4, <2>6, <2>8
    <3> QED
      BY <2>9, <3>1
  <2>12. \A j \in 1..n : \E k \in 1..Len(t) : u[j] = t[k]
    BY <2>9, Zenon
  <2>13. Picks(u, p)
    BY <2>7, <2>8, <2>10, Zenon DEF Picks
  <2> QED
    BY <2>3, <2>8, <2>11, <2>12, <2>13, Zenon
<1> QED
  BY <1>2, <1>3
-----------------------------------------------------------------------------
(* What the builder makes of one piece.                                    *)

\* A place of a token that has to be in a run: outside of code and formulas
\* spaces have, too.
Kept(a) ==
  /\ content[a[1]].name # "other" /\ At(a) # "$"
  /\ content[a[1]].name = "" \/ At(a) # "space"

\* Run r is cut from piece p.
CutFrom(r, p) ==
  /\ r \in RunType /\ ~r.directive /\ Picks(r.content, p)
  /\ r.kind = "code" <=> content[p].name = "computeroutput"
  /\ \A x \in 1..Len(r.content) : r.kind = "math" <=> IsMath(r.content[x])
  /\ content[p].name # "other"
  /\ content[p].name = ""
       => r.content # <<>> /\ \A x \in 1..Len(r.content) : At(r.content[x]) # "$"

Has(r, a) == \E x \in 1..Len(r.content) : r.content[x] = a

\* All of r is before all of s.
Before(r, s) ==
  \A x \in 1..Len(r.content), y \in 1..Len(s.content) : r.content[x][2] < s.content[y][2]

\* The runs rs are what is in piece p.
PieceRuns(rs, p) ==
  /\ rs \in Seq(RunType)
  /\ \A i \in 1..Len(rs) : CutFrom(rs[i], p)
  /\ \A i, j \in 1..Len(rs) : i < j => Before(rs[i], rs[j]) /\ content[p].name = ""
  /\ \A k \in TokensOf(p) : Kept(<<p, k>>) => \E i \in 1..Len(rs) : Has(rs[i], <<p, k>>)
  /\ content[p].name \in {"computeroutput", "formula"} => 1 \in 1..Len(rs)

\* What a place in a list of them is.
LEMMA PicksType ==
  ASSUME NEW p \in Nat, NEW t, Picks(t, p)
  PROVE  /\ t \in Seq(Nat \X Nat)
         /\ \A x \in 1..Len(t) : t[x][1] = p /\ t[x][2] \in TokensOf(p) /\ t[x] = <<p, t[x][2]>>
<1>1. PICK T : T = {p} \X TokensOf(p)
  OBVIOUS
<1>2. t \in Seq(T)
  BY <1>1, Zenon DEF Picks
<1>3. \A x \in 1..Len(t) : t[x] \in T
  BY <1>2
<1>4. TokensOf(p) \in SUBSET Nat
  BY DEF TokensOf
<1>5. \A a \in T : a[1] = p /\ a[2] \in TokensOf(p) /\ a = <<p, a[2]>> /\ a \in Nat \X Nat
  BY <1>1, <1>4
<1>6. t \in Seq(Nat \X Nat)
  <2>1. PICK U : U = Nat \X Nat
    OBVIOUS
  <2>2. T \in SUBSET U
    BY <1>5, <2>1
  <2>3. t \in Seq(U)
    BY <1>2, <2>2
  <2> QED
    BY <2>1, <2>3, Zenon
<1> QED
  BY <1>3, <1>5, <1>6, Zenon

\* One run of places.
LEMMA OneRun ==
  ASSUME NEW p \in Nat, NEW t, Picks(t, p), NEW kind \in {"math", "code"},
         kind = "code" <=> content[p].name = "computeroutput",
         kind = "math" <=> content[p].name = "formula",
         \A k \in TokensOf(p) : Kept(<<p, k>>) => \E x \in 1..Len(t) : t[x] = <<p, k>>
  PROVE  PieceRuns(<<Run(t, kind)>>, p)
<1>1. PICK r : r = Run(t, kind)
  OBVIOUS
<1>2. r.content = t /\ r.kind = kind /\ r.directive = FALSE
  BY <1>1 DEF Run
<1>3. r \in RunType
  <2>1. t \in Seq(Nat \X Nat)
    BY PicksType
  <2> QED
    BY <1>1, <2>1 DEF Run, RunType
<1>4. content[p].name # "" /\ content[p].name # "other"
  OBVIOUS
<1>5. ASSUME NEW x \in 1..Len(t) PROVE kind = "math" <=> IsMath(t[x])
  <2>1. t[x][1] = p
    BY PicksType
  <2> QED
    BY <1>4, <2>1, Zenon DEF IsMath
<1>6. CutFrom(r, p)
  BY <1>2, <1>3, <1>4, <1>5, Zenon DEF CutFrom
<1>7. PICK rs : rs = <<r>>
  OBVIOUS
<1>8. rs \in Seq(RunType) /\ Len(rs) = 1 /\ rs[1] = r
  BY <1>3, <1>7
<1>9. \A i \in 1..1 : i = 1
  OBVIOUS
<1>10. \A i, j \in 1..1 : ~(i < j)
  OBVIOUS
<1>11. 1 \in 1..1
  OBVIOUS
<1>12. \A k \in TokensOf(p) : Kept(<<p, k>>) => Has(r, <<p, k>>)
  BY <1>2, Zenon DEF Has
<1>13. PieceRuns(rs, p)
  BY <1>6, <1>8, <1>9, <1>10, <1>11, <1>12, Zenon DEF PieceRuns
<1> QED
  BY <1>1, <1>7, <1>13, Zenon

\* What strip leaves of places.
LEMMA StrippedPicks ==
  ASSUME NEW p, content[p].value \in Seq(Tokens)
  PROVE  /\ Picks(Stripped(Place(p)), p)
         /\ \A k \in TokensOf(p) : At(<<p, k>>) # "space"
              => \E x \in 1..Len(Stripped(Place(p))) : Stripped(Place(p))[x] = <<p, k>>
<1>1. PICK t : t = Place(p)
  OBVIOUS
<1>2. Picks(t, p) /\ DOMAIN t = TokensOf(p) /\ TokensOf(p) = 1..Len(t)
      /\ \A k \in TokensOf(p) : t[k] = <<p, k>>
  BY <1>1, PlacePicks, Zenon DEF TokensOf
<1>3. PICK S : S = {j \in DOMAIN t : At(t[j]) # "space"}
  OBVIOUS
<1>4. S \in SUBSET (1..Len(t)) /\ \A k \in TokensOf(p) : k \in S <=> At(<<p, k>>) # "space"
  BY <1>2, <1>3
<1>5. Stripped(t) = Trimmed(t, S)
  BY <1>3, Zenon DEF Stripped
<1>6. /\ Picks(Trimmed(t, S), p)
      /\ \A k \in S : \E j \in 1..Len(Trimmed(t, S)) : Trimmed(t, S)[j] = t[k]
  BY <1>2, <1>4, TrimmedPicks
<1>7. PICK u : u = Trimmed(t, S)
  OBVIOUS
<1>8. \A k \in TokensOf(p) : At(<<p, k>>) # "space" => \E j \in 1..Len(u) : u[j] = <<p, k>>
  BY <1>2, <1>4, <1>6, <1>7, Zenon
<1> QED
  BY <1>1, <1>5, <1>6, <1>7, <1>8, Zenon

\* The run of code ...
LEMMA CodeRuns ==
  ASSUME NEW p \in Nat, content[p].value \in Seq(Tokens), content[p].name = "computeroutput"
  PROVE  PieceRuns(RunsOf(p), p)
<1>1. PICK t : t = Stripped(Place(p))
  OBVIOUS
<1>2. Picks(t, p) /\ \A k \in TokensOf(p) : At(<<p, k>>) # "space"
                       => \E x \in 1..Len(t) : t[x] = <<p, k>>
  BY <1>1, StrippedPicks, Zenon
<1>3. \A k \in TokensOf(p) : Kept(<<p, k>>) => At(<<p, k>>) # "space"
  BY DEF Kept
<1>4. RunsOf(p) = <<Run(t, "code")>>
  BY <1>1 DEF RunsOf
<1>5. PieceRuns(<<Run(t, "code")>>, p)
  BY <1>2, <1>3, OneRun
<1> QED
  BY <1>4, <1>5, Zenon

\* ... and of a formula, which loses its `$`.
LEMMA FormulaRuns ==
  ASSUME NEW p \in Nat, content[p].value \in Seq(Tokens), content[p].name = "formula"
  PROVE  PieceRuns(RunsOf(p), p)
<1>1. PICK t : t = Stripped(Place(p))
  OBVIOUS
<1>2. Picks(t, p) /\ \A k \in TokensOf(p) : At(<<p, k>>) # "space"
                       => \E x \in 1..Len(t) : t[x] = <<p, k>>
  BY <1>1, StrippedPicks, Zenon
<1>3. PICK S : S = {j \in DOMAIN t : At(t[j]) # "$"}
  OBVIOUS
<1>4. DOMAIN t = 1..Len(t)
  BY <1>2 DEF Picks
<1>5. S \in SUBSET (1..Len(t)) /\ \A x \in 1..Len(t) : x \in S <=> At(t[x]) # "$"
  BY <1>3, <1>4
<1>6. NoDollars(t) = Those(t, S)
  BY <1>3, Zenon DEF NoDollars
<1>7. /\ Picks(Those(t, S), p)
      /\ \A k \in S : \E j \in 1..Len(Those(t, S)) : Those(t, S)[j] = t[k]
  BY <1>2, <1>5, ThosePicks
<1>8. PICK u : u = Those(t, S)
  OBVIOUS
<1>9. \A k \in TokensOf(p) : Kept(<<p, k>>) => \E x \in 1..Len(u) : u[x] = <<p, k>>
  <2> SUFFICES ASSUME NEW k \in TokensOf(p), Kept(<<p, k>>)
               PROVE  \E x \in 1..Len(u) : u[x] = <<p, k>>
    OBVIOUS
  <2>1. At(<<p, k>>) # "space" /\ At(<<p, k>>) # "$"
    BY DEF Kept
  <2>2. PICK x \in 1..Len(t) : t[x] = <<p, k>>
    BY <1>2, <2>1
  <2>3. x \in S
    BY <1>5, <2>1, <2>2, Zenon
  <2> QED
    BY <1>7, <1>8, <2>2, <2>3, Zenon
<1>10. RunsOf(p) = <<Run(u, "math")>>
  BY <1>1, <1>6, <1>8 DEF RunsOf
<1>11. PieceRuns(<<Run(u, "math")>>, p)
  BY <1>7, <1>8, <1>9, OneRun
<1> QED
  BY <1>10, <1>11, Zenon

\* Other elements are dropped.
LEMMA OtherRuns ==
  ASSUME NEW p, content[p].name = "other"
  PROVE  PieceRuns(RunsOf(p), p)
<1>1. RunsOf(p) = <<>>
  BY DEF RunsOf
<1>2. PICK rs : rs = <<>>
  OBVIOUS
<1>3. rs \in Seq(RunType) /\ Len(rs) = 0 /\ 1..0 = {}
  BY <1>2
<1>4. \A k \in TokensOf(p) : ~Kept(<<p, k>>)
  BY DEF Kept
<1>5. content[p].name \notin {"computeroutput", "formula"}
  OBVIOUS
<1>6. PieceRuns(rs, p)
  BY <1>3, <1>4, <1>5, Zenon DEF PieceRuns
<1> QED
  BY <1>1, <1>2, <1>6, Zenon
\* The number of `$` up to a place grows along a text.
LEMMA DollarsCount ==
  ASSUME NEW p, content[p].value \in Seq(Tokens)
  PROVE  /\ \A k \in Nat : Cardinality(Dollars(p, k)) \in Nat
         /\ \A k, l \in Nat : k <= l => Cardinality(Dollars(p, k)) <= Cardinality(Dollars(p, l))
<1>1. ASSUME NEW k \in Nat PROVE IsFiniteSet(Dollars(p, k))
  <2>1. IsFiniteSet(1..k) /\ Dollars(p, k) \in SUBSET (1..k)
    BY FS_Interval, SMTT(30) DEF Dollars
  <2> QED
    BY <2>1, FS_Subset
<1>2. ASSUME NEW k \in Nat, NEW l \in Nat, k <= l
      PROVE  Cardinality(Dollars(p, k)) <= Cardinality(Dollars(p, l))
  <2>1. \A n \in 1..k : n \in 1..l
    BY <1>2
  <2>2. Dollars(p, k) \in SUBSET Dollars(p, l)
    BY <2>1, Zenon DEF Dollars
  <2> QED
    BY <1>1, <2>2, FS_Subset
<1> QED
  BY <1>1, <1>2, FS_CardinalityType

Count(p, k) == Cardinality(Dollars(p, k))

\* Run r has the tokens of piece p after its c-th `$`.
IsChunk(r, p, c) ==
  /\ r \in RunType /\ ~r.directive /\ Picks(r.content, p)
  /\ r.kind = (IF c % 2 = 1 THEN "math" ELSE "text")
  /\ \A x \in 1..Len(r.content) :
       /\ At(r.content[x]) # "$" /\ r.content[x][1] = p
       /\ r.content[x][2] \in TokensOf(p) /\ Count(p, r.content[x][2]) = c
  /\ \A k \in TokensOf(p) : At(<<p, k>>) # "$" /\ Count(p, k) = c => Has(r, <<p, k>>)

\* So it is with the chunk that Chunk picks.
LEMMA ChunkIs ==
  ASSUME NEW p \in Nat, content[p].value \in Seq(Tokens), NEW c \in Nat
  PROVE  IsChunk(Chunk(p, c), p, c)
<1>1. PICK t : t = Place(p)
  OBVIOUS
<1>2. Picks(t, p) /\ DOMAIN t = TokensOf(p) /\ TokensOf(p) = 1..Len(t)
      /\ \A k \in TokensOf(p) : t[k] = <<p, k>>
  BY <1>1, PlacePicks, Zenon DEF TokensOf
<1>3. PICK S : S = {k \in DOMAIN t : content[p].value[k] # "$" /\ Cardinality(Dollars(p, k)) = c}
  OBVIOUS
<1>4. \A k \in TokensOf(p) : At(<<p, k>>) = content[p].value[k]
  BY DEF At
<1>5. /\ S \in SUBSET (1..Len(t))
      /\ \A k \in TokensOf(p) : k \in S <=> At(<<p, k>>) # "$" /\ Count(p, k) = c
  BY <1>2, <1>3, <1>4 DEF Count
<1>6. /\ Picks(Those(t, S), p)
      /\ \A j \in 1..Len(Those(t, S)) : \E k \in S : Those(t, S)[j] = t[k]
      /\ \A k \in S : \E j \in 1..Len(Those(t, S)) : Those(t, S)[j] = t[k]
  BY <1>2, <1>5, ThosePicks
<1>7. PICK u : u = Those(t, S)
  OBVIOUS
<1>8. PICK kind : kind = IF c % 2 = 1 THEN "math" ELSE "text"
  OBVIOUS
<1>9. Chunk(p, c) = Run(u, kind)
  BY <1>1, <1>3, <1>7, <1>8, Zenon DEF Chunk
<1>10. PICK r : r = Run(u, kind)
  OBVIOUS
<1>11. r.content = u /\ r.kind = kind /\ r.directive = FALSE
  BY <1>10 DEF Run
<1>12. r \in RunType
  <2>1. u \in Seq(Nat \X Nat)
    BY <1>6, <1>7, PicksType
  <2>2. kind \in {"text", "math", "code"}
    BY <1>8
  <2> QED
    BY <1>10, <2>1, <2>2 DEF Run, RunType
<1>13. ASSUME NEW x \in 1..Len(u)
       PROVE  At(u[x]) # "$" /\ u[x][1] = p /\ u[x][2] \in TokensOf(p) /\ Count(p, u[x][2]) = c
  <2>1. PICK k \in S : u[x] = t[k]
    BY <1>6, <1>7, Zenon
  <2>2. k \in TokensOf(p)
    BY <1>2, <1>5
  <2>3. u[x] = <<p, k>> /\ At(<<p, k>>) # "$" /\ Count(p, k) = c
    BY <1>2, <1>5, <2>1, <2>2, Zenon
  <2>4. u[x][1] = p /\ u[x][2] = k
    BY <2>3
  <2> QED
    BY <2>2, <2>3, <2>4, Zenon
<1>14. ASSUME NEW k \in TokensOf(p), At(<<p, k>>) # "$", Count(p, k) = c
       PROVE  Has(r, <<p, k>>)
  <2>1. k \in S /\ t[k] = <<p, k>>
    BY <1>2, <1>5, <1>14, Zenon
  <2>2. \E j \in 1..Len(u) : u[j] = <<p, k>>
    BY <1>6, <1>7, <2>1, Zenon
  <2> QED
    BY <1>11, <2>2, Zenon DEF Has
<1>15. Chunk(p, c) = r
  BY <1>9, <1>10, Zenon
<1> HIDE DEF Has
<1>16. Picks(u, p)
  BY <1>6, <1>7, Zenon
<1> QED
  BY <1>8, <1>11, <1>12, <1>13, <1>14, <1>15, <1>16, Zenon DEF IsChunk

IsText(p) == content[p].name = ""

\* The runs of a text.
LEMMA TextRuns ==
  ASSUME NEW p \in Nat, content[p].value \in Seq(Tokens), IsText(p)
  PROVE  PieceRuns(RunsOf(p), p)
<1>0. PICK n \in Nat : n = Len(content[p].value)
  OBVIOUS
<1>1. PICK d \in Nat : d = Cardinality(Dollars(p, n))
  BY DollarsCount
<1>2. PICK cs : cs = Chunks(p)
  OBVIOUS
<1>3. cs = [c \in 1..1+d |-> Chunk(p, c - 1)]
  BY <1>0, <1>1, <1>2, Zenon DEF Chunks
<1>3a. \A c \in Nat : IsChunk(Chunk(p, c), p, c)
  BY ChunkIs, Zenon
<1>4. \A c \in 1..1+d : c - 1 \in Nat /\ Chunk(p, c - 1) \in RunType
  <2> TAKE c \in 1..1+d
  <2>1. c - 1 \in Nat
    OBVIOUS
  <2> QED
    BY <1>3a, <2>1, Zenon DEF IsChunk
<1>5. cs \in Seq(RunType) /\ Len(cs) = 1 + d /\ DOMAIN cs = 1..1+d
      /\ \A c \in 1..1+d : cs[c] = Chunk(p, c - 1)
  BY <1>3, <1>4
<1>6. PICK S : S = {c \in DOMAIN cs : cs[c].content # <<>>}
  OBVIOUS
<1>7. S \in SUBSET (1..Len(cs)) /\ \A c \in 1..1+d : c \in S <=> cs[c].content # <<>>
  BY <1>5, <1>6
<1>8. RunsOf(p) = Those(cs, S)
  <2>1. RunsOf(p) = SplitMath(p)
    BY DEF RunsOf, IsText
  <2> QED
    BY <1>2, <1>6, <2>1, Zenon DEF SplitMath
<1>9. /\ Those(cs, S) \in Seq(RunType)
      /\ \E at \in [1..Len(Those(cs, S)) -> S] : PickedBy(Those(cs, S), cs, at, S)
  <2>1. cs \in Seq(RunType)
    BY <1>5
  <2>2. S \in SUBSET (1..Len(cs))
    BY <1>7
  <2> QED
    BY <2>1, <2>2, ThoseLists
<1>10. PICK rs : rs = Those(cs, S)
  OBVIOUS
<1>11. PICK at \in [1..Len(rs) -> S] :
              /\ \A j \in 1..Len(rs) : rs[j] = cs[at[j]]
              /\ \A j, k \in 1..Len(rs) : j < k => at[j] < at[k]
              /\ \A l \in S : \E j \in 1..Len(rs) : at[j] = l
  BY <1>9, <1>10, Zenon DEF PickedBy
<1>12. \A j \in 1..Len(rs) : /\ at[j] \in S /\ at[j] \in 1..1+d /\ at[j] - 1 \in Nat
                             /\ rs[j] = Chunk(p, at[j] - 1)
  <2>1. \A j \in 1..Len(rs) : at[j] \in S /\ at[j] \in 1..1+d
    BY <1>5, <1>7, <1>11
  <2> QED
    BY <1>4, <1>5, <1>11, <2>1, Zenon
<1>13. ASSUME NEW i \in 1..Len(rs) PROVE CutFrom(rs[i], p)
  <2>1. PICK c \in Nat : c = at[i] - 1
    BY <1>12
  <2>2. rs[i] = Chunk(p, c)
    BY <1>12, <2>1, Zenon
  <2>3. PICK r : r = Chunk(p, c)
    OBVIOUS
  <2>4. /\ r \in RunType /\ ~r.directive /\ Picks(r.content, p)
        /\ r.kind = (IF c % 2 = 1 THEN "math" ELSE "text")
        /\ \A x \in 1..Len(r.content) :
              /\ At(r.content[x]) # "$" /\ r.content[x][1] = p
              /\ Count(p, r.content[x][2]) = c
    BY <1>3a, <2>3, Zenon DEF IsChunk
  <2>5. r.content # <<>>
    <3>1. at[i] \in S /\ at[i] \in 1..1+d /\ cs[at[i]] = rs[i]
      BY <1>11, <1>12, Zenon
    <3> QED
      BY <1>7, <2>2, <2>3, <3>1, Zenon
  <2>6. r.kind # "code" /\ (r.kind = "math" <=> c % 2 = 1)
    <3>1. r.kind = (IF c % 2 = 1 THEN "math" ELSE "text")
      BY <2>4, Zenon
    <3> QED
      BY <3>1
  <2>7. ASSUME NEW x \in 1..Len(r.content) PROVE r.kind = "math" <=> IsMath(r.content[x])
    <3>1. content[r.content[x][1]].name = "" /\ r.content[x][1] = p
      BY <2>4, Zenon DEF IsText
    <3>2. content[r.content[x][1]].name # "formula"
      BY <3>1
    <3>3. Cardinality(Dollars(r.content[x][1], r.content[x][2])) = c
      BY <2>4, <3>1, Zenon DEF Count
    <3> QED
      BY <2>6, <3>1, <3>2, <3>3, Zenon DEF IsMath
  <2>8. /\ content[p].name # "computeroutput" /\ content[p].name # "other"
        /\ \A x \in 1..Len(r.content) : At(r.content[x]) # "$"
    BY <2>4, Zenon DEF IsText
  <2>9. CutFrom(r, p)
    BY <2>4, <2>5, <2>6, <2>7, <2>8, Zenon DEF CutFrom
  <2> QED
    BY <2>2, <2>3, <2>9, Zenon
<1>14. ASSUME NEW i \in 1..Len(rs), NEW j \in 1..Len(rs), i < j PROVE Before(rs[i], rs[j])
  <2>1. PICK r : r = rs[i]
    OBVIOUS
  <2>2. PICK s : s = rs[j]
    OBVIOUS
  <2> SUFFICES ASSUME NEW x \in 1..Len(r.content), NEW y \in 1..Len(s.content)
               PROVE  r.content[x][2] < s.content[y][2]
    BY <2>1, <2>2, Zenon DEF Before
  <2>3. PICK c \in Nat : c = at[i] - 1
    BY <1>12
  <2>4. PICK e \in Nat : e = at[j] - 1
    BY <1>12
  <2>5. at[i] < at[j]
    BY <1>11, <1>14, Zenon
  <2>6. c < e
    BY <1>12, <2>3, <2>4, <2>5
  <2>7. r = Chunk(p, c) /\ s = Chunk(p, e)
    BY <1>12, <2>1, <2>2, <2>3, <2>4, Zenon
  <2>8. PICK k : k = r.content[x][2]
    OBVIOUS
  <2>9. PICK l : l = s.content[y][2]
    OBVIOUS
  <2>10. k \in TokensOf(p) /\ Count(p, k) = c
    BY <1>3a, <2>7, <2>8, Zenon DEF IsChunk
  <2>11. l \in TokensOf(p) /\ Count(p, l) = e
    BY <1>3a, <2>7, <2>9, Zenon DEF IsChunk
  <2>12. k \in Nat /\ l \in Nat
    BY <2>10, <2>11 DEF TokensOf
  <2>13. l <= k => e <= c
    BY <2>10, <2>11, <2>12, DollarsCount DEF Count
  <2>14. k < l
    BY <2>6, <2>12, <2>13
  <2> QED
    BY <2>8, <2>9, <2>14, Zenon
<1>15. ASSUME NEW k \in TokensOf(p), Kept(<<p, k>>)
       PROVE  \E i \in 1..Len(rs) : Has(rs[i], <<p, k>>)
  <2>1. At(<<p, k>>) # "$"
    BY <1>15 DEF Kept
  <2>2. k \in Nat /\ k <= n
    BY <1>0 DEF TokensOf
  <2>3. PICK c \in Nat : c = Count(p, k)
    BY <2>2, DollarsCount DEF Count
  <2>4. c <= d
    BY <1>1, <2>2, <2>3, DollarsCount DEF Count
  <2>5. c + 1 \in 1..1+d /\ c + 1 - 1 = c
    BY <2>4
  <2>6. cs[c + 1] = Chunk(p, c)
    BY <1>5, <2>5
  <2>7. Has(Chunk(p, c), <<p, k>>)
    BY <1>3a, <2>1, <2>3, Zenon DEF IsChunk
  <2>8. Chunk(p, c).content # <<>>
    <3>1. PICK u : u = Chunk(p, c).content
      OBVIOUS
    <3>2. \E x \in 1..Len(u) : u[x] = <<p, k>>
      BY <2>7, <3>1, Zenon DEF Has
    <3> QED
      BY <3>1, <3>2
  <2>9. c + 1 \in S
    BY <1>7, <2>5, <2>6, <2>8, Zenon
  <2>10. PICK i \in 1..Len(rs) : at[i] = c + 1
    BY <1>11, <2>9, Zenon
  <2>11. rs[i] = Chunk(p, c)
    BY <1>11, <2>6, <2>10, Zenon
  <2> QED
    BY <2>7, <2>11, Zenon
<1>16. content[p].name \notin {"computeroutput", "formula"} /\ content[p].name = ""
  BY DEF IsText
<1>17. rs \in Seq(RunType)
  BY <1>9, <1>10, Zenon
<1>18. PieceRuns(rs, p)
  BY <1>13, <1>14, <1>15, <1>16, <1>17, Zenon DEF PieceRuns
<1> QED
  BY <1>8, <1>10, <1>18, Zenon

\* The runs of any piece.
LEMMA RunsOfPiece ==
  ASSUME NEW p \in Nat, content[p] \in [name : PieceNames, value : Seq(Tokens)]
  PROVE  PieceRuns(RunsOf(p), p)
<1>1. content[p].value \in Seq(Tokens)
  OBVIOUS
<1>2. content[p].name \in {"computeroutput", "formula", "", "other"}
  BY DEF PieceNames
<1>3. CASE content[p].name = "computeroutput"
  BY <1>1, <1>3, CodeRuns
<1>4. CASE content[p].name = "formula"
  BY <1>1, <1>4, FormulaRuns
<1>5. CASE content[p].name = ""
  BY <1>1, <1>5, TextRuns DEF IsText
<1>6. CASE content[p].name = "other"
  BY <1>6, OtherRuns
<1> QED
  BY <1>2, <1>3, <1>4, <1>5, <1>6
-----------------------------------------------------------------------------
(* What the builder makes of all pieces.                                   *)

\* The runs rs are cut from the content, run j from piece from[j], in order.
IsCut(rs, from) ==
  /\ rs \in Seq(RunType) /\ from \in [1..Len(rs) -> 1..Len(content)]
  /\ \A j \in 1..Len(rs) : CutFrom(rs[j], from[j])
  /\ \A i, j \in 1..Len(rs) :
       i < j => \/ from[i] < from[j]
                \/ from[i] = from[j] /\ IsText(from[j]) /\ Before(rs[i], rs[j])

IsElement(p) == content[p].name \in {"computeroutput", "formula"}

\* Nothing is lost but spaces at the end: what is in front of a run is in one.
IsWhole(rs, from) ==
  /\ \A a \in Places : Kept(a) /\ At(a) # "space" => \E i \in 1..Len(rs) : Has(rs[i], a)
  /\ \A j \in 1..Len(rs) : \A a \in Places :
       a[1] < from[j] /\ Kept(a) => \E i \in 1..Len(rs) : Has(rs[i], a)
  /\ \A j \in 1..Len(rs) : \A q \in 1..Len(content) :
       q < from[j] /\ IsElement(q) => \E i \in 1..Len(rs) : from[i] = q

\* Transform, of any runs.
TakesIn(rs, j) ==
  /\ j > 1 /\ j \in DOMAIN rs
  /\ rs[j - 1].kind = "text" /\ rs[j].kind = "code"
  /\ EndsWithRole(rs[j - 1].content)

WithRoles(rs) ==
  [j \in DOMAIN rs |->
     IF TakesIn(rs, j) THEN [rs[j] EXCEPT !.directive = TRUE]
     ELSE IF TakesIn(rs, j + 1) THEN [rs[j] EXCEPT !.content = Front(@)]
     ELSE rs[j]]

\* The inductive invariant.
TextInv ==
  /\ content \in Contents
  /\ phase \in {"xml", "runs", "transformed", "done"}
  /\ phase = "xml" => runs = <<>>
  /\ phase = "runs" => runs = Built
  /\ phase \in {"transformed", "done"} => runs = WithRoles(Built)
  /\ phase = "done" => formatted = FlattenSeq([j \in DOMAIN runs |-> Written(runs[j])])

\* What a run is.
LEMMA RunFields ==
  ASSUME NEW r \in RunType
  PROVE  /\ r.content \in Seq(Nat \X Nat) /\ Len(r.content) \in Nat
         /\ DOMAIN r.content = 1..Len(r.content)
         /\ r.kind \in {"text", "math", "code"} /\ r.directive \in BOOLEAN
<1>1. r.content \in Seq(Nat \X Nat) /\ r.kind \in {"text", "math", "code"}
      /\ r.directive \in BOOLEAN
  BY DEF RunType
<1> QED
  BY <1>1

\* No token is lost, and no element.
IsFull(rs, from) ==
  /\ \A a \in Places : Kept(a) => \E i \in 1..Len(rs) : Has(rs[i], a)
  /\ \A q \in 1..Len(content) : IsElement(q) => \E i \in 1..Len(rs) : from[i] = q

PieceType == [name : PieceNames, value : Seq(Tokens)]

\* The content is a list of pieces.
LEMMA ContentType ==
  ASSUME content \in Contents
  PROVE  /\ content \in Seq(PieceType) /\ Len(content) \in Nat
         /\ DOMAIN content = 1..Len(content)
         /\ \A p \in 1..Len(content) : content[p] \in PieceType /\ p \in Nat
<1>1. content \in Seq(PieceType)
  BY DescriptionAssumption DEF PieceType
<1> QED
  BY <1>1

\* What a place is.
LEMMA PlaceType ==
  ASSUME content \in Contents
  PROVE  \A a : a \in Places <=> \E p \in 1..Len(content) : \E k \in TokensOf(p) : a = <<p, k>>
<1>1. DOMAIN content = 1..Len(content)
  BY ContentType
<1>2. ASSUME NEW p \in 1..Len(content) PROVE DOMAIN content[p].value = TokensOf(p)
  <2>1. content[p] \in PieceType
    BY ContentType
  <2>2. content[p].value \in Seq(Tokens)
    BY <2>1 DEF PieceType
  <2> QED
    BY <2>2 DEF TokensOf
<1>3. Places = UNION {{p} \X TokensOf(p) : p \in 1..Len(content)}
  BY <1>1, <1>2 DEF Places
<1>4. ASSUME NEW a PROVE a \in Places <=> \E p \in 1..Len(content) : a \in {p} \X TokensOf(p)
  BY <1>3
<1>5. ASSUME NEW a, NEW p PROVE a \in {p} \X TokensOf(p) <=> \E k \in TokensOf(p) : a = <<p, k>>
  OBVIOUS
<1> QED
  BY <1>4, <1>5, Zenon

\* The runs of all pieces, one after the other, are cut from the content.
LEMMA FlatIsCut ==
  ASSUME content \in Contents,
         NEW rs, rs = FlattenSeq([p \in DOMAIN content |-> RunsOf(p)])
  PROVE  \E from \in [1..Len(rs) -> 1..Len(content)] : IsCut(rs, from) /\ IsFull(rs, from)
<1>1. PICK n \in Nat : n = Len(content)
  BY ContentType
<1>2. DOMAIN content = 1..n
  BY <1>1, ContentType
<1>3. \A p \in 1..n : p \in Nat /\ PieceRuns(RunsOf(p), p)
  <2> TAKE p \in 1..n
  <2>1. p \in Nat /\ content[p] \in [name : PieceNames, value : Seq(Tokens)]
    BY <1>1, ContentType DEF PieceType
  <2> QED
    BY <2>1, RunsOfPiece
<1>4. PICK ss : ss = [p \in 1..n |-> RunsOf(p)]
  OBVIOUS
<1>5. \A p \in 1..n : ss[p] = RunsOf(p)
  BY <1>4
<1>6. \A p \in 1..n : PieceRuns(ss[p], p)
  BY <1>3, <1>5, Zenon
<1>7. ss \in Seq(Seq(RunType)) /\ Len(ss) = n
  <2>1. PICK T : T = Seq(RunType)
    OBVIOUS
  <2>2. \A p \in 1..n : RunsOf(p) \in T
    BY <1>3, <2>1, Zenon DEF PieceRuns
  <2>3. ss \in Seq(T) /\ Len(ss) = n
    BY <1>4, <2>2
  <2> QED
    BY <2>1, <2>3, Zenon
<1>8. rs = FlattenSeq(ss)
  BY <1>2, <1>4, Zenon
<1>9. /\ FlattenSeq(ss) \in Seq(RunType)
      /\ \E from, at \in [1..Len(FlattenSeq(ss)) -> Nat] :
              Unfolds(FlattenSeq(ss), ss, Len(ss), from, at)
  BY <1>7, FlattenedPlaces
<1>10. PICK from \in [1..Len(rs) -> Nat], at \in [1..Len(rs) -> Nat] : Unfolds(rs, ss, n, from, at)
  BY <1>7, <1>8, <1>9, Zenon
<1>11. rs \in Seq(RunType)
  BY <1>8, <1>9, Zenon
<1>12. PICK m : m = Len(rs)
  OBVIOUS
<1>13. /\ \A k \in 1..m : /\ from[k] \in 1..n /\ at[k] \in 1..Len(ss[from[k]])
                          /\ rs[k] = ss[from[k]][at[k]]
       /\ \A k, l \in 1..m : k < l => from[k] < from[l] \/ (from[k] = from[l] /\ at[k] < at[l])
       /\ \A i \in 1..n : \A j \in 1..Len(ss[i]) : \E k \in 1..m : from[k] = i /\ at[k] = j
  <2>1. /\ \A k \in 1..Len(rs) : /\ from[k] \in 1..n /\ at[k] \in 1..Len(ss[from[k]])
                                 /\ rs[k] = ss[from[k]][at[k]]
        /\ \A k, l \in 1..Len(rs) :
             k < l => from[k] < from[l] \/ (from[k] = from[l] /\ at[k] < at[l])
        /\ \A i \in 1..n : \A j \in 1..Len(ss[i]) :
             \E k \in 1..Len(rs) : from[k] = i /\ at[k] = j
    BY <1>10, Zenon DEF Unfolds
  <2> QED
    BY <1>12, <2>1
<1>14. from \in [1..m -> 1..n]
  BY <1>10, <1>12, <1>13
<1>15. ASSUME NEW j \in 1..m PROVE CutFrom(rs[j], from[j])
  <2>1. PICK p \in 1..n : p = from[j] /\ at[j] \in 1..Len(ss[p]) /\ rs[j] = ss[p][at[j]]
    BY <1>13, Zenon
  <2>2. CutFrom(ss[p][at[j]], p)
    BY <1>6, <2>1, Zenon DEF PieceRuns
  <2> QED
    BY <2>1, <2>2, Zenon
<1>16. ASSUME NEW i \in 1..m, NEW j \in 1..m, i < j
       PROVE  \/ from[i] < from[j]
              \/ from[i] = from[j] /\ IsText(from[j]) /\ Before(rs[i], rs[j])
  <2>1. CASE from[i] = from[j] /\ at[i] < at[j]
    <3>1. PICK p \in 1..n : p = from[i] /\ p = from[j]
      BY <1>13, <2>1, Zenon
    <3>2. /\ at[i] \in 1..Len(ss[p]) /\ at[j] \in 1..Len(ss[p])
          /\ rs[i] = ss[p][at[i]] /\ rs[j] = ss[p][at[j]]
      BY <1>13, <3>1, Zenon
    <3> QED
      BY <1>6, <2>1, <3>1, <3>2, Zenon DEF PieceRuns, IsText
  <2> QED
    BY <1>13, <1>16, <2>1, Zenon
<1>17. IsCut(rs, from)
  BY <1>1, <1>11, <1>12, <1>14, <1>15, <1>16, Zenon DEF IsCut
<1>18. ASSUME NEW a \in Places, Kept(a) PROVE \E i \in 1..m : Has(rs[i], a)
  <2>0. PICK p \in 1..n : \E k \in TokensOf(p) : a = <<p, k>>
    BY <1>1, PlaceType, Zenon
  <2>1. PICK k \in TokensOf(p) : a = <<p, k>>
    BY <2>0, Zenon
  <2>2. PICK i \in 1..Len(ss[p]) : Has(ss[p][i], a)
    BY <1>6, <1>18, <2>1, Zenon DEF PieceRuns
  <2>3. PICK l \in 1..m : from[l] = p /\ at[l] = i
    BY <1>13
  <2>4. rs[l] = ss[p][i]
    BY <1>13, <2>3, Zenon
  <2> QED
    BY <2>2, <2>4, Zenon
<1>19. ASSUME NEW q \in 1..n, IsElement(q) PROVE \E i \in 1..m : from[i] = q
  <2>1. 1 \in 1..Len(ss[q])
    BY <1>6, <1>19, Zenon DEF PieceRuns, IsElement
  <2> QED
    BY <1>13, <2>1, Zenon
<1>20. IsFull(rs, from)
  BY <1>1, <1>12, <1>18, <1>19, Zenon DEF IsFull
<1> QED
  BY <1>1, <1>12, <1>14, <1>17, <1>20, Zenon

\* So is what is left when runs of spaces at the end are dropped.
LEMMA BuiltIsCut ==
  ASSUME content \in Contents
  PROVE  \E from \in [1..Len(Built) -> 1..Len(content)] : IsCut(Built, from) /\ IsWhole(Built, from)
<1>1. PICK rs : rs = FlattenSeq([p \in DOMAIN content |-> RunsOf(p)])
  OBVIOUS
<1>2. PICK from \in [1..Len(rs) -> 1..Len(content)] : IsCut(rs, from) /\ IsFull(rs, from)
  BY <1>1, FlatIsCut
<1>3. rs \in Seq(RunType)
  BY <1>2, Zenon DEF IsCut
<1>4. PICK m \in Nat : m = Len(rs)
  BY <1>3
<1>5. PICK S : S = {j \in DOMAIN rs : ~Blank(rs[j].content)}
  OBVIOUS
<1>6. S \in SUBSET (1..m) /\ \A j \in 1..m : j \in S <=> ~Blank(rs[j].content)
  BY <1>3, <1>4, <1>5
<1>7. PICK l : l = LastPlace(S)
  OBVIOUS
<1>8. l \in 0..m /\ \A k \in S : k <= l
  BY <1>4, <1>6, <1>7, LastPlaceIs
<1>9. Built = SubSeq(rs, 1, l)
  BY <1>1, <1>5, <1>7, Zenon DEF Built, RemoveTrailingRuns
<1>10. PICK u : u = Built
  OBVIOUS
<1>11. l \in Nat /\ l <= m /\ 1 \in Nat /\ 1 <= 1 /\ 1..l \in SUBSET (1..m)
       /\ \A j \in 1..l : 1 + j - 1 = j
  BY <1>4, <1>8
<1>12. /\ SubSeq(rs, 1, l) \in Seq(RunType)
       /\ Len(SubSeq(rs, 1, l)) = IF 1 <= l THEN l - 1 + 1 ELSE 0
       /\ \A i \in 1..Len(SubSeq(rs, 1, l)) :
            1 + i - 1 \in 1..l /\ SubSeq(rs, 1, l)[i] = rs[1 + i - 1]
  BY <1>3, <1>4, <1>11, PartLists
<1>13. Len(SubSeq(rs, 1, l)) = l
  BY <1>11, <1>12
<1>14. u \in Seq(RunType) /\ Len(u) = l /\ \A j \in 1..l : u[j] = rs[j]
  BY <1>9, <1>10, <1>11, <1>12, <1>13, Zenon
<1>15. PICK n : n = Len(content)
  OBVIOUS
<1>16. PICK f : f = [j \in 1..l |-> from[j]]
  OBVIOUS
<1>17. /\ f \in [1..l -> 1..n] /\ \A j \in 1..l : f[j] = from[j]
       /\ \A j \in 1..m : from[j] \in 1..n
  BY <1>2, <1>4, <1>11, <1>15, <1>16
<1>18. /\ \A j \in 1..m : CutFrom(rs[j], from[j])
       /\ \A i, j \in 1..m :
            i < j => \/ from[i] < from[j]
                     \/ from[i] = from[j] /\ IsText(from[j]) /\ Before(rs[i], rs[j])
  BY <1>2, <1>4, Zenon DEF IsCut
<1>19. \A j \in 1..l : j \in 1..m
  BY <1>11
<1>20. IsCut(u, f)
  <2>1. \A j \in 1..l : CutFrom(u[j], f[j])
    BY <1>14, <1>17, <1>18, <1>19, Zenon
  <2>2. ASSUME NEW i \in 1..l, NEW j \in 1..l, i < j
        PROVE  \/ f[i] < f[j]
               \/ f[i] = f[j] /\ IsText(f[j]) /\ Before(u[i], u[j])
    <3>1. f[i] = from[i] /\ f[j] = from[j] /\ u[i] = rs[i] /\ u[j] = rs[j]
      BY <1>14, <1>17, Zenon
    <3>2. \/ from[i] < from[j]
          \/ from[i] = from[j] /\ IsText(from[j]) /\ Before(rs[i], rs[j])
      BY <1>18, <1>19, <2>2, Zenon
    <3>3. CASE from[i] < from[j]
      BY <3>1, <3>3, Zenon
    <3>4. CASE from[i] = from[j] /\ IsText(from[j]) /\ Before(rs[i], rs[j])
      BY <3>1, <3>4, Zenon
    <3> QED
      BY <3>2, <3>3, <3>4, Zenon
  <2> QED
    BY <1>14, <1>15, <1>17, <2>1, <2>2, Zenon DEF IsCut
<1>21. \A a \in Places : Kept(a) => \E i \in 1..m : Has(rs[i], a)
  BY <1>2, <1>4, Zenon DEF IsFull
<1>22. ASSUME NEW a \in Places, Kept(a), At(a) # "space" PROVE \E i \in 1..l : Has(u[i], a)
  <2>1. PICK i \in 1..m : Has(rs[i], a)
    BY <1>21, <1>22, Zenon
  <2>2. ~Blank(rs[i].content)
    <3>1. PICK x \in 1..Len(rs[i].content) : rs[i].content[x] = a
      BY <2>1, Zenon DEF Has
    <3>2. rs[i] \in RunType
      BY <1>3, <1>4
    <3>3. x \in DOMAIN rs[i].content
      BY <3>1, <3>2, RunFields
    <3> QED
      BY <1>22, <3>1, <3>3, Zenon DEF Blank
  <2>3. i \in S
    BY <1>6, <2>2, Zenon
  <2>4. i \in 1..l
    BY <1>8, <1>11, <2>3
  <2> QED
    BY <1>14, <2>1, <2>4, Zenon
<1>23. ASSUME NEW i \in 1..m, NEW j \in 1..l, from[i] < from[j] PROVE i \in 1..l
  <2>1. CASE j < i
    <3>1. from[j] < from[i] \/ from[j] = from[i]
      BY <1>18, <1>19, <2>1, Zenon
    <3>2. from[i] \in Int /\ from[j] \in Int
      BY <1>17, <1>19
    <3> QED
      BY <1>23, <3>1, <3>2
  <2>2. CASE ~(j < i)
    BY <1>4, <1>11, <2>2
  <2> QED
    BY <2>1, <2>2
<1>24. ASSUME NEW j \in 1..l, NEW a \in Places, a[1] < f[j], Kept(a)
       PROVE  \E i \in 1..l : Has(u[i], a)
  <2>1. PICK i \in 1..m : Has(rs[i], a)
    BY <1>21, <1>24, Zenon
  <2>2. from[i] \in 1..n /\ Picks(rs[i].content, from[i]) /\ from[i] \in Nat
    <3>1. CutFrom(rs[i], from[i]) /\ from[i] \in 1..n
      BY <1>17, <1>18, Zenon
    <3>2. from[i] \in Nat
      BY <3>1
    <3> QED
      BY <3>1, <3>2, Zenon DEF CutFrom
  <2>3. from[i] = a[1]
    <3>1. \A x \in 1..Len(rs[i].content) : rs[i].content[x][1] = from[i]
      BY <2>2, PicksType, ZenonT(40)
    <3> QED
      BY <2>1, <3>1, Zenon DEF Has
  <2>4. from[i] < from[j]
    BY <1>17, <1>24, <2>3, Zenon
  <2>5. i \in 1..l
    BY <1>23, <2>4
  <2> QED
    BY <1>14, <2>1, <2>5, Zenon
<1>25. ASSUME NEW j \in 1..l, NEW q \in 1..n, q < f[j], IsElement(q)
       PROVE  \E i \in 1..l : f[i] = q
  <2>1. PICK i \in 1..m : from[i] = q
    BY <1>2, <1>4, <1>15, <1>25, Zenon DEF IsFull
  <2>2. from[i] < from[j]
    BY <1>17, <1>25, <2>1, Zenon
  <2>3. i \in 1..l
    BY <1>23, <2>2
  <2> QED
    BY <1>17, <2>1, <2>3, Zenon
<1>26. IsWhole(u, f)
  BY <1>14, <1>15, <1>22, <1>24, <1>25, Zenon DEF IsWhole
<1> QED
  BY <1>10, <1>14, <1>15, <1>17, <1>20, <1>26, Zenon

-----------------------------------------------------------------------------
(* What is written.                                                        *)

\* How many tokens of run i are left in it.
Left(rs, i) ==
  IF TakesIn(rs, i + 1) THEN Len(rs[i].content) - 1 ELSE Len(rs[i].content)

\* A run of ts is the one of rs, a role if it takes one.
IsTransformed(ts, rs) ==
  /\ ts \in Seq(RunType) /\ Len(ts) = Len(rs)
  /\ \A i \in 1..Len(rs) :
       /\ ts[i].kind = rs[i].kind /\ (ts[i].directive <=> TakesIn(rs, i))
       /\ Left(rs, i) \in 0..Len(rs[i].content) /\ Len(ts[i].content) = Left(rs, i)
       /\ \A x \in 1..Left(rs, i) :
            x \in 1..Len(rs[i].content) /\ ts[i].content[x] = rs[i].content[x]

\* So it is with what Transform makes of them.
LEMMA WithRolesIs ==
  ASSUME NEW rs \in Seq(RunType), \A j \in 1..Len(rs) : ~rs[j].directive
  PROVE  IsTransformed(WithRoles(rs), rs)
<1>1. PICK m \in Nat : m = Len(rs)
  OBVIOUS
<1>2. DOMAIN rs = 1..m /\ \A i \in 1..m : rs[i] \in RunType
  BY <1>1
<1>3. PICK ts : ts = WithRoles(rs)
  OBVIOUS
<1> DEFINE New(j) == IF TakesIn(rs, j) THEN [rs[j] EXCEPT !.directive = TRUE]
                     ELSE IF TakesIn(rs, j + 1) THEN [rs[j] EXCEPT !.content = Front(@)]
                     ELSE rs[j]
<1>4. ts = [j \in 1..m |-> New(j)]
  BY <1>2, <1>3 DEF WithRoles
<1>5. ASSUME NEW i \in 1..m
      PROVE  /\ New(i) \in RunType /\ New(i).kind = rs[i].kind
             /\ (New(i).directive <=> TakesIn(rs, i))
             /\ Left(rs, i) \in 0..Len(rs[i].content) /\ Len(New(i).content) = Left(rs, i)
             /\ \A x \in 1..Left(rs, i) :
                  x \in 1..Len(rs[i].content) /\ New(i).content[x] = rs[i].content[x]
  <2>1. PICK r \in RunType : r = rs[i]
    BY <1>2
  <2>2. PICK s : s = r.content
    OBVIOUS
  <2>3. s \in Seq(Nat \X Nat)
    BY <2>2, RunFields
  <2>4. PICK n \in Nat : n = Len(s)
    BY <2>3
  <2>5. r.directive = FALSE
    <3>1. ~r.directive /\ r.directive \in BOOLEAN
      BY <1>1, <2>1, RunFields
    <3> QED
      BY <3>1
  <2>6. i \in Nat /\ i + 1 - 1 = i
    BY <1>1
  <2>7. CASE TakesIn(rs, i + 1)
    <3>1. rs[i + 1 - 1].kind = "text" /\ EndsWithRole(rs[i + 1 - 1].content)
      BY <2>7 DEF TakesIn
    <3>2. r.kind = "text" /\ EndsWithRole(s)
      BY <2>1, <2>2, <2>6, <3>1
    <3>3. ~TakesIn(rs, i)
      <4>1. r.kind # "code"
        BY <3>2
      <4> QED
        BY <2>1, <4>1, Zenon DEF TakesIn
    <3>4. s # <<>>
      BY <3>2 DEF EndsWithRole
    <3>5. PICK f : f = Front(s)
      OBVIOUS
    <3>6. /\ f \in Seq(Nat \X Nat) /\ Len(f) = n - 1
          /\ \A x \in 1..Len(f) : x \in 1..n /\ f[x] = s[x]
      BY <2>3, <2>4, <3>4, <3>5, FrontLists
    <3>7. New(i) = [r EXCEPT !.content = f]
      BY <2>1, <2>2, <2>7, <3>3, <3>5
    <3>8. [r EXCEPT !.content = f] \in RunType /\ [r EXCEPT !.content = f].kind = r.kind
          /\ [r EXCEPT !.content = f].content = f
          /\ [r EXCEPT !.content = f].directive = r.directive
      BY <3>6 DEF RunType
    <3>9. Left(rs, i) = n - 1
      BY <2>1, <2>2, <2>4, <2>7, Zenon DEF Left
    <3>10. PICK q : q = New(i)
      OBVIOUS
    <3> HIDE DEF New
    <3>11. q \in RunType /\ q.kind = r.kind /\ q.content = f /\ q.directive = FALSE
      BY <2>5, <3>7, <3>8, <3>10, Zenon
    <3>12. n - 1 \in 0..n
      <4>1. n # 0
        BY <2>3, <2>4, <3>4
      <4> QED
        BY <4>1
    <3> QED
      BY <2>1, <2>2, <2>4, <3>3, <3>6, <3>9, <3>10, <3>11, <3>12, Zenon
  <2>8. CASE ~TakesIn(rs, i + 1)
    <3>1. Left(rs, i) = n
      BY <2>1, <2>2, <2>4, <2>8, Zenon DEF Left
    <3>2. New(i) = IF TakesIn(rs, i) THEN [r EXCEPT !.directive = TRUE] ELSE r
      BY <2>1, <2>8
    <3>3. [r EXCEPT !.directive = TRUE] \in RunType
          /\ [r EXCEPT !.directive = TRUE].kind = r.kind
          /\ [r EXCEPT !.directive = TRUE].content = r.content
          /\ [r EXCEPT !.directive = TRUE].directive = TRUE
      BY DEF RunType
    <3>4. PICK q : q = New(i)
      OBVIOUS
    <3> HIDE DEF New
    <3>5. q \in RunType /\ q.kind = r.kind /\ q.content = s
      BY <2>2, <3>2, <3>3, <3>4, Zenon
    <3>6. q.directive <=> TakesIn(rs, i)
      BY <2>5, <3>2, <3>3, <3>4, Zenon
    <3>7. n \in 0..n
      OBVIOUS
    <3> QED
      BY <2>1, <2>2, <2>4, <3>1, <3>4, <3>5, <3>6, <3>7, Zenon
  <2> QED
    BY <2>7, <2>8
<1> HIDE DEF New
<1>6. \A i \in 1..m : ts[i] = New(i)
  BY <1>4
<1>7. ts \in Seq(RunType) /\ Len(ts) = m
  <2>1. PICK T : T = RunType
    OBVIOUS
  <2>2. \A i \in 1..m : New(i) \in T
    BY <1>5, <2>1, Zenon
  <2> QED
    BY <1>4, <2>1, <2>2
<1>8. \A i \in 1..m :
        /\ ts[i].kind = rs[i].kind /\ (ts[i].directive <=> TakesIn(rs, i))
        /\ Left(rs, i) \in 0..Len(rs[i].content) /\ Len(ts[i].content) = Left(rs, i)
        /\ \A x \in 1..Left(rs, i) :
             x \in 1..Len(rs[i].content) /\ ts[i].content[x] = rs[i].content[x]
  BY <1>5, <1>6, Zenon
<1> QED
  BY <1>1, <1>3, <1>7, <1>8, Zenon DEF IsTransformed

\* How run i is marked up.
MarkedAs(as, rs, i) ==
  /\ as = "math" <=> rs[i].kind = "math"
  /\ as \in {"code", "role"} <=> rs[i].kind = "code"
  /\ as = "role" <=> TakesIn(rs, i)

\* The k-th token written is the tok[k]-th one of run run[k].
Formats(f, rs, run, tok) ==
  /\ \A k \in 1..Len(f) :
       /\ run[k] \in 1..Len(rs) /\ tok[k] \in 1..Left(rs, run[k])
       /\ f[k].place = rs[run[k]].content[tok[k]] /\ MarkedAs(f[k].as, rs, run[k])
  /\ \A k, l \in 1..Len(f) :
       k < l => run[k] < run[l] \/ (run[k] = run[l] /\ tok[k] < tok[l])
  /\ \A i \in 1..Len(rs) : \A x \in 1..Left(rs, i) :
       \E k \in 1..Len(f) : run[k] = i /\ tok[k] = x

TokenType == [place : Nat \X Nat, as : {"text", "math", "role", "code"}]

\* What is written of one run.
LEMMA WrittenIs ==
  ASSUME NEW r \in RunType
  PROVE  /\ Written(r) \in Seq(TokenType) /\ Len(Written(r)) = Len(r.content)
         /\ \A x \in 1..Len(r.content) :
              Written(r)[x].place = r.content[x] /\ Written(r)[x].as = Markup(r)
<1>1. PICK s : s = r.content
  OBVIOUS
<1>2. PICK n \in Nat : n = Len(s)
  BY <1>1, RunFields
<1>3. DOMAIN s = 1..n /\ s \in Seq(Nat \X Nat)
  BY <1>1, <1>2, RunFields
<1>4. Markup(r) \in {"text", "math", "role", "code"}
  <2>1. r.kind = "text" \/ r.kind = "math" \/ r.kind = "code"
    BY RunFields
  <2>2. CASE r.kind = "text"
    BY <2>2 DEF Markup
  <2>3. CASE r.kind = "math"
    BY <2>3 DEF Markup
  <2>4. CASE r.kind = "code"
    BY <2>4 DEF Markup
  <2> QED
    BY <2>1, <2>2, <2>3, <2>4
<1>5. PICK w : w = [k \in 1..n |-> [place |-> s[k], as |-> Markup(r)]]
  OBVIOUS
<1>6. Written(r) = w
  BY <1>1, <1>3, <1>5 DEF Written
<1>7. \A k \in 1..n : /\ [place |-> s[k], as |-> Markup(r)] \in TokenType
                      /\ [place |-> s[k], as |-> Markup(r)].place = s[k]
                      /\ [place |-> s[k], as |-> Markup(r)].as = Markup(r)
  BY <1>3, <1>2, <1>4 DEF TokenType
<1>8. w \in Seq(TokenType) /\ Len(w) = n
  BY <1>5, <1>7
<1>9. \A k \in 1..n : w[k].place = s[k] /\ w[k].as = Markup(r)
  BY <1>5, <1>7
<1> QED
  BY <1>1, <1>2, <1>6, <1>8, <1>9, Zenon

\* What format_description writes.
LEMMA FormattedIs ==
  ASSUME NEW rs \in Seq(RunType), NEW ts, IsTransformed(ts, rs),
         \A j \in 1..Len(rs) : TakesIn(rs, j) => rs[j].kind = "code",
         NEW f, f = FlattenSeq([j \in DOMAIN ts |-> Written(ts[j])])
  PROVE  /\ f \in Seq(TokenType)
         /\ \E run, tok \in [1..Len(f) -> Nat] : Formats(f, rs, run, tok)
<1>1. PICK m \in Nat : m = Len(rs)
  OBVIOUS
<1>2. ts \in Seq(RunType) /\ Len(ts) = m
  BY <1>1, Zenon DEF IsTransformed
<1>3. DOMAIN ts = 1..m /\ \A i \in 1..m : ts[i] \in RunType
  BY <1>2
<1>4. PICK ws : ws = [j \in 1..m |-> Written(ts[j])]
  OBVIOUS
<1>5. \A j \in 1..m : ws[j] = Written(ts[j])
  BY <1>4
<1>6. ws \in Seq(Seq(TokenType)) /\ Len(ws) = m
  <2>1. PICK T : T = Seq(TokenType)
    OBVIOUS
  <2>2. \A j \in 1..m : Written(ts[j]) \in T
    BY <1>3, <2>1, WrittenIs, Zenon
  <2>3. ws \in Seq(T) /\ Len(ws) = m
    BY <1>4, <2>2
  <2> QED
    BY <2>1, <2>3, Zenon
<1>7. f = FlattenSeq(ws)
  BY <1>3, <1>4, Zenon
<1>8. /\ FlattenSeq(ws) \in Seq(TokenType)
      /\ \E run, tok \in [1..Len(FlattenSeq(ws)) -> Nat] :
              Unfolds(FlattenSeq(ws), ws, Len(ws), run, tok)
  BY <1>6, FlattenedPlaces
<1>9. PICK run \in [1..Len(f) -> Nat], tok \in [1..Len(f) -> Nat] : Unfolds(f, ws, m, run, tok)
  BY <1>6, <1>7, <1>8, Zenon
<1>10. \A i \in 1..m : /\ Len(ws[i]) = Left(rs, i)
                       /\ \A x \in 1..Left(rs, i) :
                            /\ ws[i][x].place = rs[i].content[x]
                            /\ MarkedAs(ws[i][x].as, rs, i)
  <2> TAKE i \in 1..m
  <2>1. PICK r \in RunType : r = ts[i]
    BY <1>3
  <2>2. /\ r.kind = rs[i].kind /\ (r.directive <=> TakesIn(rs, i))
        /\ Len(r.content) = Left(rs, i)
        /\ \A x \in 1..Left(rs, i) : r.content[x] = rs[i].content[x]
    BY <1>1, <2>1, Zenon DEF IsTransformed
  <2>3. /\ ws[i] = Written(r) /\ Len(ws[i]) = Left(rs, i)
        /\ \A x \in 1..Left(rs, i) :
             ws[i][x].place = rs[i].content[x] /\ ws[i][x].as = Markup(r)
    <3>1. ws[i] = Written(r)
      BY <1>5, <2>1, Zenon
    <3>2. PICK w : w = Written(r)
      OBVIOUS
    <3>3. PICK l : l = Left(rs, i)
      OBVIOUS
    <3>4. Len(w) = Len(r.content) /\ \A x \in 1..Len(r.content) :
            w[x].place = r.content[x] /\ w[x].as = Markup(r)
      BY <3>2, WrittenIs, Zenon
    <3>5. Len(r.content) = l /\ \A x \in 1..l : r.content[x] = rs[i].content[x]
      BY <2>2, <3>3, Zenon
    <3>6. \A x \in 1..l : x \in 1..Len(r.content)
      BY <3>5
    <3>7. \A x \in 1..l : w[x].place = rs[i].content[x] /\ w[x].as = Markup(r)
      BY <3>4, <3>5, <3>6, Zenon
    <3> QED
      BY <3>1, <3>2, <3>3, <3>4, <3>5, <3>7, Zenon
  <2>4. MarkedAs(Markup(r), rs, i)
    <3>1. r.kind = "text" \/ r.kind = "math" \/ r.kind = "code"
      BY RunFields
    <3>2. TakesIn(rs, i) => r.kind = "code"
      BY <1>1, <2>2
    <3>3. CASE r.kind = "text"
      BY <2>2, <3>2, <3>3 DEF Markup, MarkedAs
    <3>4. CASE r.kind = "math"
      BY <2>2, <3>2, <3>4 DEF Markup, MarkedAs
    <3>5. CASE r.kind = "code"
      BY <2>2, <3>2, <3>5 DEF Markup, MarkedAs
    <3> QED
      BY <3>1, <3>3, <3>4, <3>5
  <2> QED
    BY <2>3, <2>4, Zenon
<1>11. /\ \A k \in 1..Len(f) : /\ run[k] \in 1..m /\ tok[k] \in 1..Len(ws[run[k]])
                               /\ f[k] = ws[run[k]][tok[k]]
       /\ \A k, l \in 1..Len(f) :
            k < l => run[k] < run[l] \/ (run[k] = run[l] /\ tok[k] < tok[l])
       /\ \A i \in 1..m : \A x \in 1..Len(ws[i]) :
            \E k \in 1..Len(f) : run[k] = i /\ tok[k] = x
  BY <1>9, Zenon DEF Unfolds
<1>12. ASSUME NEW k \in 1..Len(f)
       PROVE  /\ run[k] \in 1..m /\ tok[k] \in 1..Left(rs, run[k])
              /\ f[k].place = rs[run[k]].content[tok[k]] /\ MarkedAs(f[k].as, rs, run[k])
  <2>1. PICK i \in 1..m : i = run[k] /\ tok[k] \in 1..Len(ws[i]) /\ f[k] = ws[i][tok[k]]
    BY <1>11, Zenon
  <2>2. tok[k] \in 1..Left(rs, i)
    BY <1>10, <2>1, Zenon
  <2> QED
    BY <1>10, <2>1, <2>2, Zenon
<1>13. ASSUME NEW i \in 1..m, NEW x \in 1..Left(rs, i)
       PROVE  \E k \in 1..Len(f) : run[k] = i /\ tok[k] = x
  <2>1. x \in 1..Len(ws[i])
    <3>1. Len(ws[i]) = Left(rs, i)
      BY <1>10, Zenon
    <3> QED
      BY <3>1
  <2> QED
    BY <1>11, <2>1, SMTT(30)
<1>14. \A k \in 1..Len(f) : run[k] \in 1..Len(rs)
  BY <1>1, <1>12, Zenon
<1>15. \A i \in 1..Len(rs) : i \in 1..m
  BY <1>1
<1>16. Formats(f, rs, run, tok)
  BY <1>11, <1>12, <1>13, <1>14, <1>15, ZenonT(40) DEF Formats
<1> QED
  BY <1>7, <1>8, <1>9, <1>16, Zenon

-----------------------------------------------------------------------------
(* Runs cut from the content, and what is written of them.                 *)

\* The places in runs: each is in the piece of its run, ...
LEMMA CutPlaces ==
  ASSUME content \in Contents, NEW rs, NEW from, IsCut(rs, from),
         NEW i \in 1..Len(rs), NEW x \in 1..Len(rs[i].content)
  PROVE  /\ rs[i].content[x] \in Places /\ rs[i].content[x][1] = from[i]
         /\ from[i] \in 1..Len(content) /\ rs[i].content[x][2] \in Nat
<1>1. CutFrom(rs[i], from[i]) /\ from[i] \in 1..Len(content)
  BY DEF IsCut
<1>2. PICK p \in 1..Len(content) : p = from[i]
  BY <1>1
<1>3. p \in Nat /\ Picks(rs[i].content, p)
  <2>1. p \in Nat
    BY ContentType
  <2> QED
    BY <1>1, <1>2, <2>1, Zenon DEF CutFrom
<1>4. /\ rs[i].content[x][1] = p /\ rs[i].content[x][2] \in TokensOf(p)
      /\ rs[i].content[x] = <<p, rs[i].content[x][2]>>
  BY <1>3, PicksType
<1>5. rs[i].content[x] \in Places
  BY <1>4, PlaceType, Zenon
<1>6. rs[i].content[x][2] \in Nat
  BY <1>4 DEF TokensOf
<1> QED
  BY <1>1, <1>2, <1>4, <1>5, <1>6, Zenon

\* ... and they are in the order of the comment.
LEMMA CutOrder ==
  ASSUME content \in Contents, NEW rs, NEW from, IsCut(rs, from),
         NEW i \in 1..Len(rs), NEW x \in 1..Len(rs[i].content),
         NEW j \in 1..Len(rs), NEW y \in 1..Len(rs[j].content),
         i < j \/ (i = j /\ x < y)
  PROVE  Earlier(rs[i].content[x], rs[j].content[y])
<1>1. rs[i].content[x][1] = from[i] /\ rs[j].content[y][1] = from[j]
  BY CutPlaces
<1>2. CASE i < j
  <2>1. \/ from[i] < from[j]
        \/ from[i] = from[j] /\ IsText(from[j]) /\ Before(rs[i], rs[j])
    BY <1>2, Zenon DEF IsCut
  <2>2. CASE from[i] < from[j]
    BY <1>1, <2>2, Zenon DEF Earlier
  <2>3. CASE from[i] = from[j] /\ Before(rs[i], rs[j])
    <3>1. rs[i].content[x][2] < rs[j].content[y][2]
      BY <2>3, Zenon DEF Before
    <3> QED
      BY <1>1, <2>3, <3>1, Zenon DEF Earlier
  <2> QED
    BY <2>1, <2>2, <2>3, Zenon
<1>3. CASE i = j /\ x < y
  <2>1. CutFrom(rs[i], from[i])
    BY Zenon DEF IsCut
  <2>2. Picks(rs[i].content, from[i])
    BY <2>1, Zenon DEF CutFrom
  <2>3. y \in 1..Len(rs[i].content)
    BY <1>3
  <2>4. rs[i].content[x][2] < rs[i].content[y][2]
    BY <1>3, <2>2, <2>3, Zenon DEF Picks
  <2> QED
    BY <1>1, <1>3, <2>4, Zenon DEF Earlier
<1> QED
  BY <1>2, <1>3

\* What is earlier in the comment is earlier in the runs, so no place is in
\* them twice.
LEMMA CutEarlier ==
  ASSUME content \in Contents, NEW rs, NEW from, IsCut(rs, from),
         NEW i \in 1..Len(rs), NEW x \in 1..Len(rs[i].content),
         NEW j \in 1..Len(rs), NEW y \in 1..Len(rs[j].content)
  PROVE  /\ Earlier(rs[i].content[x], rs[j].content[y]) => i < j \/ (i = j /\ x < y)
         /\ rs[i].content[x] = rs[j].content[y] => i = j /\ x = y
<1>0. rs \in Seq(RunType)
  BY Zenon DEF IsCut
<1>1. PICK a : a = rs[i].content[x]
  OBVIOUS
<1>2. PICK b : b = rs[j].content[y]
  OBVIOUS
<1>3. a[1] \in Nat /\ a[2] \in Nat /\ b[1] \in Nat /\ b[2] \in Nat
  <2>1. a[1] \in 1..Len(content) /\ a[2] \in Nat
    BY <1>1, CutPlaces
  <2>2. b[1] \in 1..Len(content) /\ b[2] \in Nat
    BY <1>2, CutPlaces, SMTT(30)
  <2> QED
    BY <2>1, <2>2
<1>4. ~(Earlier(a, b) /\ Earlier(b, a)) /\ ~Earlier(a, a)
  BY <1>3 DEF Earlier
<1>5. i < j \/ (i = j /\ x < y) => Earlier(a, b)
  BY <1>1, <1>2, CutOrder, Zenon
<1>6. j < i \/ (j = i /\ y < x) => Earlier(b, a)
  BY <1>1, <1>2, CutOrder, Zenon
<1>7. i \in Nat /\ j \in Nat /\ x \in Nat /\ y \in Nat
  OBVIOUS
<1>8. i < j \/ (i = j /\ x < y) \/ j < i \/ (j = i /\ y < x) \/ (i = j /\ x = y)
  BY <1>7
<1>9. i = j /\ x = y => a = b
  BY <1>1, <1>2
<1>10. Earlier(a, b) => i < j \/ (i = j /\ x < y)
  BY <1>4, <1>6, <1>8, <1>9, Zenon
<1>11. a = b => i = j /\ x = y
  BY <1>4, <1>5, <1>6, <1>8, Zenon
<1> QED
  BY <1>1, <1>2, <1>10, <1>11, Zenon

\* Runs are in the order of their pieces, and code has but one.
LEMMA CutFollows ==
  ASSUME content \in Contents, NEW rs, NEW from, IsCut(rs, from),
         NEW i \in 1..Len(rs), NEW j \in 1..Len(rs)
  PROVE  /\ from[i] < from[j] => i < j
         /\ i < j /\ ~IsText(from[j]) => from[i] < from[j]
         /\ i < j => from[i] <= from[j]
         /\ from[i] = from[j] /\ ~IsText(from[j]) => i = j
<1>1. from[i] \in Nat /\ from[j] \in Nat /\ i \in Nat /\ j \in Nat
  <2>1. from[i] \in 1..Len(content) /\ from[j] \in 1..Len(content)
    BY DEF IsCut
  <2> QED
    BY <2>1
<1>2. i < j => from[i] < from[j] \/ (from[i] = from[j] /\ IsText(from[j]))
  BY Zenon DEF IsCut
<1>3. j < i => from[j] < from[i] \/ (from[j] = from[i] /\ IsText(from[i]))
  BY Zenon DEF IsCut
<1> QED
  BY <1>1, <1>2, <1>3

\* Only a role that ends a text is taken out of it.
LEMMA WordsAreLeft ==
  ASSUME NEW rs \in Seq(RunType), NEW i \in 1..Len(rs), NEW x \in 1..Len(rs[i].content),
         \/ x # Len(rs[i].content)
         \/ ~(At(rs[i].content[x]) = "role")
         \/ ~TakesIn(rs, i + 1)
  PROVE  x \in 1..Left(rs, i)
<1>1. PICK n \in Nat : n = Len(rs[i].content)
  BY RunFields
<1>2. CASE ~TakesIn(rs, i + 1)
  BY <1>2 DEF Left
<1>3. CASE TakesIn(rs, i + 1)
  <2>1. Left(rs, i) = n - 1
    BY <1>1, <1>3, Zenon DEF Left
  <2>2. EndsWithRole(rs[i + 1 - 1].content) /\ i + 1 - 1 = i
    <3>1. i + 1 - 1 = i
      OBVIOUS
    <3> QED
      BY <1>3, <3>1 DEF TakesIn
  <2>3. At(rs[i].content[n]) = "role"
    BY <1>1, <2>2, Zenon DEF EndsWithRole, Last
  <2>4. x # n
    BY <1>1, <1>3, <2>3
  <2>5. x \in 1..n-1
    BY <1>1, <2>4
  <2> QED
    BY <2>1, <2>5
<1> QED
  BY <1>2, <1>3

\* Every word is written, where and as what it is.
LEMMA WordsAreWritten ==
  ASSUME content \in Contents, NEW rs, NEW from, IsCut(rs, from), IsWhole(rs, from),
         NEW run, NEW tok, Formats(formatted, rs, run, tok), formatted \in Seq(TokenType)
  PROVE  WordsSurvive
<1>0. rs \in Seq(RunType) /\ DOMAIN formatted = 1..Len(formatted)
  BY DEF IsCut
<1>1. /\ \A k \in 1..Len(formatted) :
           /\ run[k] \in 1..Len(rs) /\ tok[k] \in 1..Left(rs, run[k])
           /\ formatted[k].place = rs[run[k]].content[tok[k]]
           /\ MarkedAs(formatted[k].as, rs, run[k])
      /\ \A k, l \in 1..Len(formatted) :
           k < l => run[k] < run[l] \/ (run[k] = run[l] /\ tok[k] < tok[l])
      /\ \A i \in 1..Len(rs) : \A x \in 1..Left(rs, i) :
           \E k \in 1..Len(formatted) : run[k] = i /\ tok[k] = x
  BY Zenon DEF Formats
<1>2. \A i \in 1..Len(rs) : \A x \in 1..Left(rs, i) : x \in 1..Len(rs[i].content)
  <2> TAKE i \in 1..Len(rs)
  <2>1. PICK n \in Nat : n = Len(rs[i].content)
    BY <1>0, RunFields
  <2>2. Left(rs, i) = n - 1 \/ Left(rs, i) = n
    BY <2>1 DEF Left
  <2> QED
    BY <2>1, <2>2
<1>3. \A k \in 1..Len(formatted) : tok[k] \in 1..Len(rs[run[k]].content)
  BY <1>1, <1>2, Zenon
<1>4. \A k \in 1..Len(formatted) : formatted[k].place \in Places
  BY <1>1, <1>3, CutPlaces, SMTT(30)
<1>5. ASSUME NEW k \in 1..Len(formatted), NEW l \in 1..Len(formatted), k < l
      PROVE  Earlier(formatted[k].place, formatted[l].place)
  <2>1. run[k] < run[l] \/ (run[k] = run[l] /\ tok[k] < tok[l])
    BY <1>1, <1>5, Zenon
  <2>2. Earlier(rs[run[k]].content[tok[k]], rs[run[l]].content[tok[l]])
    BY <1>1, <1>3, <2>1, CutOrder, Zenon
  <2> QED
    BY <1>1, <2>2, Zenon
<1>6. ASSUME NEW a \in Places, At(a) = "word", content[a[1]].name # "other"
      PROVE  \E j \in 1..Len(formatted) :
                /\ formatted[j].place = a
                /\ formatted[j].as = "math" <=> IsMath(a)
                /\ formatted[j].as \in {"code", "role"} <=> content[a[1]].name = "computeroutput"
  <2>1. Kept(a) /\ At(a) # "space" /\ At(a) # "role"
    BY <1>6 DEF Kept
  <2>2. PICK i \in 1..Len(rs) : Has(rs[i], a)
    BY <2>1, Zenon DEF IsWhole
  <2>3. PICK x \in 1..Len(rs[i].content) : rs[i].content[x] = a
    BY <2>2, Zenon DEF Has
  <2>4. x \in 1..Left(rs, i)
    BY <1>0, <2>1, <2>3, WordsAreLeft, Zenon
  <2>5. PICK k \in 1..Len(formatted) : run[k] = i /\ tok[k] = x
    BY <1>1, <2>4, Zenon
  <2>6. formatted[k].place = a /\ MarkedAs(formatted[k].as, rs, i)
    BY <1>1, <2>3, <2>5, Zenon
  <2>7. a[1] = from[i]
    BY <2>3, CutPlaces
  <2>8. CutFrom(rs[i], from[i])
    BY Zenon DEF IsCut
  <2>9. rs[i].kind = "math" <=> IsMath(a)
    BY <2>3, <2>8, Zenon DEF CutFrom
  <2>10. rs[i].kind = "code" <=> content[a[1]].name = "computeroutput"
    BY <2>7, <2>8, Zenon DEF CutFrom
  <2> QED
    BY <2>6, <2>9, <2>10, Zenon DEF MarkedAs
<1>7. {formatted[j].place : j \in DOMAIN formatted} \subseteq Places
  BY <1>0, <1>4
<1> QED
  BY <1>0, <1>5, <1>6, <1>7, Zenon DEF WordsSurvive

\* A role that ends what is written before code p, in a text.
RoleBefore(p, a) ==
  /\ a \in Preceding(p) /\ At(a) = "role" /\ content[a[1]].name = "" /\ ~IsMath(a)

\* What may not come between them: a token, an element.
Between(a, b, p) == Earlier(a, b) /\ b[1] < p /\ content[b[1]].name # "other" /\ At(b) # "$"

\* What Preceding says of it.
LEMMA RoleBeforeIs ==
  ASSUME NEW p, NEW a
  PROVE  RoleBefore(p, a) <=>
           /\ a \in Places /\ a[1] < p /\ At(a) = "role" /\ IsText(a[1]) /\ ~IsMath(a)
           /\ \A b \in Places : ~Between(a, b, p)
           /\ \A q \in a[1]+1..p-1 : ~IsElement(q)
<1>1. a \in Preceding(p) <=>
        /\ a \in Places /\ a[1] < p /\ content[a[1]].name # "other" /\ At(a) # "$"
        /\ \A b \in Places : Earlier(a, b) /\ b[1] < p
                               => content[b[1]].name = "other" \/ At(b) = "$"
        /\ \A q \in a[1]+1..p-1 : ~IsElement(q)
  BY DEF Preceding, IsElement
<1>2. \A b \in Places : ~Between(a, b, p) <=>
        (Earlier(a, b) /\ b[1] < p => content[b[1]].name = "other" \/ At(b) = "$")
  BY Zenon DEF Between
<1>3. /\ content[a[1]].name = "" => content[a[1]].name # "other"
      /\ At(a) = "role" => At(a) # "$"
  OBVIOUS
<1> QED
  BY <1>1, <1>2, <1>3, Zenon DEF RoleBefore, IsText

\* Run i takes the role that ends the text before it: that is the role before code p.
LEMMA TakenIsBefore ==
  ASSUME content \in Contents, NEW rs, NEW from, IsCut(rs, from), IsWhole(rs, from),
         NEW p \in 1..Len(content), ~IsText(p),
         NEW i \in 1..Len(rs), from[i] = p, TakesIn(rs, i)
  PROVE  \E a : RoleBefore(p, a)
<1>0. rs \in Seq(RunType) /\ \A j \in 1..Len(rs) : rs[j] \in RunType /\ from[j] \in 1..Len(content)
  BY DEF IsCut
<1>1. PICK h \in 1..Len(rs) : h = i - 1
  <2>1. i > 1
    BY Zenon DEF TakesIn
  <2> QED
    BY <2>1
<1>2. rs[h].kind = "text" /\ EndsWithRole(rs[h].content)
  BY <1>1, Zenon DEF TakesIn
<1>3. PICK s : s = rs[h].content
  OBVIOUS
<1>4. s \in Seq(Nat \X Nat)
  BY <1>0, <1>3, RunFields
<1>5. s # <<>> /\ At(Last(s)) = "role"
  BY <1>2, <1>3, Zenon DEF EndsWithRole
<1>6. PICK n \in 1..Len(s) : n = Len(s)
  BY <1>4, <1>5
<1>7. PICK a : a = s[n]
  OBVIOUS
<1>8. At(a) = "role"
  BY <1>5, <1>6, <1>7, Zenon DEF Last
<1>9. a \in Places /\ a[1] = from[h]
  BY <1>3, <1>6, <1>7, CutPlaces
<1>10. from[h] \in Nat /\ from[i] \in Nat /\ from[h] \in 1..Len(content)
  BY <1>0
<1>11. from[h] < from[i]
  <2>1. h < i
    BY <1>1
  <2> QED
    BY <2>1, CutFollows
<1>12. CutFrom(rs[h], from[h])
  BY Zenon DEF IsCut
<1>13. rs[h].kind = "math" <=> IsMath(a)
  BY <1>3, <1>6, <1>7, <1>12, Zenon DEF CutFrom
<1>14. ~IsMath(a)
  <2>1. rs[h].kind # "math"
    BY <1>2
  <2> QED
    BY <1>13, <2>1, Zenon
<1>15. IsText(from[h])
  <2>1. content[from[h]].name \in PieceNames
    BY <1>10, ContentType DEF PieceType
  <2>2. content[from[h]].name # "other"
    BY <1>12, Zenon DEF CutFrom
  <2>3. content[from[h]].name # "computeroutput"
    <3>1. rs[h].kind # "code"
      BY <1>2
    <3> QED
      BY <1>12, <3>1, Zenon DEF CutFrom
  <2>4. content[from[h]].name # "formula"
    BY <1>9, <1>14, Zenon DEF IsMath
  <2> QED
    BY <2>1, <2>2, <2>3, <2>4 DEF PieceNames, IsText
<1>16. ASSUME NEW j \in 1..Len(rs), h < j PROVE ~(from[j] < from[i])
  <2>1. SUFFICES ASSUME from[j] < from[i] PROVE FALSE
    OBVIOUS
  <2>2. j < i
    BY <2>1, CutFollows
  <2> QED
    BY <1>1, <1>16, <2>2
<1>17. ASSUME NEW b \in Places, Between(a, b, p) PROVE FALSE
  <2>1. Earlier(a, b) /\ b[1] < p /\ content[b[1]].name # "other" /\ At(b) # "$"
    BY <1>17, Zenon DEF Between
  <2>2. PICK q \in 1..Len(content) : q = b[1]
    <3>1. \E q \in 1..Len(content) : \E k \in TokensOf(q) : b = <<q, k>>
      BY PlaceType
    <3> QED
      BY <3>1
  <2>3. q < from[i]
    BY <2>1, <2>2
  <2>4. content[q].name \in PieceNames
    BY <2>2, ContentType DEF PieceType
  <2>5. CASE IsText(q)
    <3>1. Kept(b)
      BY <2>1, <2>2, <2>5, Zenon DEF Kept, IsText
    <3>2. PICK j \in 1..Len(rs) : Has(rs[j], b)
      BY <2>2, <2>3, <3>1, Zenon DEF IsWhole
    <3>3. PICK y \in 1..Len(rs[j].content) : rs[j].content[y] = b
      BY <3>2, Zenon DEF Has
    <3>4. from[j] = q
      BY <2>2, <3>3, CutPlaces
    <3>5. h < j \/ (h = j /\ n < y)
      BY <1>3, <1>6, <1>7, <2>1, <3>3, CutEarlier
    <3>6. ~(h = j /\ n < y)
      BY <1>3, <1>4, <1>6
    <3>7. ~(from[j] < from[i])
      BY <1>16, <3>5, <3>6
    <3> QED
      BY <2>3, <3>4, <3>7
  <2>6. CASE ~IsText(q)
    <3>1. IsElement(q)
      BY <2>1, <2>2, <2>4, <2>6 DEF IsElement, IsText, PieceNames
    <3>2. PICK j \in 1..Len(rs) : from[j] = q
      BY <2>3, <3>1, Zenon DEF IsWhole
    <3>3. from[h] < from[j]
      <4>1. from[h] <= q
        BY <1>9, <1>10, <2>1, <2>2 DEF Earlier
      <4>2. from[h] # q
        BY <1>15, <2>6
      <4> QED
        BY <1>10, <3>2, <4>1, <4>2
    <3>4. h < j
      BY <3>3, CutFollows
    <3> QED
      BY <1>16, <2>3, <3>2, <3>4
  <2> QED
    BY <2>5, <2>6
<1>18. ASSUME NEW q \in a[1]+1..p-1 PROVE ~IsElement(q)
  <2>1. SUFFICES ASSUME IsElement(q) PROVE FALSE
    OBVIOUS
  <2>2. q \in 1..Len(content) /\ from[h] < q /\ q < from[i]
    BY <1>9, <1>10
  <2>3. PICK j \in 1..Len(rs) : from[j] = q
    BY <2>1, <2>2, Zenon DEF IsWhole
  <2>4. h < j
    BY <2>2, <2>3, CutFollows
  <2> QED
    BY <1>16, <2>2, <2>3, <2>4
<1>19. RoleBefore(p, a)
  <2>1. a[1] < p /\ IsText(a[1])
    BY <1>9, <1>11, <1>15
  <2>2. a \in Places
    BY <1>9
  <2>3. \A b \in Places : ~Between(a, b, p)
    BY <1>17, Zenon
  <2> QED
    BY <1>8, <1>14, <1>18, <2>1, <2>2, <2>3, RoleBeforeIs, Zenon
<1> QED
  BY <1>19, Zenon

\* The role before code p is the last token of the run before it.
LEMMA BeforeIsTaken ==
  ASSUME content \in Contents, NEW rs, NEW from, IsCut(rs, from), IsWhole(rs, from),
         NEW p \in 1..Len(content), ~IsText(p), NEW a, RoleBefore(p, a),
         NEW i \in 1..Len(rs), from[i] = p, rs[i].kind = "code"
  PROVE  \E h \in 1..Len(rs) : /\ h + 1 = i /\ Len(rs[h].content) \in 1..Len(rs[h].content)
                               /\ rs[h].content[Len(rs[h].content)] = a
                               /\ TakesIn(rs, i)
<1>0. rs \in Seq(RunType) /\ \A j \in 1..Len(rs) : rs[j] \in RunType /\ from[j] \in 1..Len(content)
  BY DEF IsCut
<1>1. a \in Places /\ a[1] < p
  BY RoleBeforeIs
<1>2. At(a) = "role" /\ IsText(a[1]) /\ ~IsMath(a)
  BY RoleBeforeIs, Zenon
<1>3. \A b \in Places : ~Between(a, b, p)
  BY RoleBeforeIs, Zenon
<1>4. \A q \in a[1]+1..p-1 : ~IsElement(q)
  BY RoleBeforeIs, Zenon
<1>5. Kept(a) /\ At(a) # "space"
  <2>1. At(a) # "space" /\ At(a) # "$"
    BY <1>2
  <2>2. content[a[1]].name = "" /\ content[a[1]].name # "other"
    BY <1>2 DEF IsText
  <2> QED
    BY <2>1, <2>2, Zenon DEF Kept
<1>6. PICK h \in 1..Len(rs) : Has(rs[h], a)
  BY <1>1, <1>5, Zenon DEF IsWhole
<1>7. PICK x \in 1..Len(rs[h].content) : rs[h].content[x] = a
  BY <1>6, Zenon DEF Has
<1>8. from[h] = a[1]
  BY <1>7, CutPlaces
<1>9. h < i
  <2>1. from[h] < from[i]
    BY <1>1, <1>8
  <2> QED
    BY <2>1, CutFollows
<1>10. rs[h] \in RunType /\ from[h] \in 1..Len(content)
  BY <1>0
<1>11. PICK n \in Nat : n = Len(rs[h].content)
  BY <1>10, RunFields
<1>12. ASSUME NEW j \in 1..Len(rs), NEW y \in 1..Len(rs[j].content),
              h < j \/ (h = j /\ x < y), from[j] < p, IsText(from[j])
       PROVE  FALSE
  <2>1. PICK b : b = rs[j].content[y]
    OBVIOUS
  <2>2. Earlier(a, b)
    BY <1>7, <1>12, <2>1, CutOrder
  <2>3. b \in Places /\ b[1] = from[j]
    BY <2>1, CutPlaces
  <2>4. CutFrom(rs[j], from[j])
    BY Zenon DEF IsCut
  <2>5. At(b) # "$"
    BY <1>12, <2>1, <2>4, Zenon DEF CutFrom, IsText
  <2>6. b[1] < p
    BY <1>12, <2>3
  <2>7. content[b[1]].name # "other"
    BY <1>12, <2>3 DEF IsText
  <2>8. Between(a, b, p)
    BY <2>2, <2>5, <2>6, <2>7, Zenon DEF Between
  <2> QED
    BY <1>3, <2>3, <2>8, Zenon
<1>13. x = n
  <2>1. SUFFICES ASSUME x # n PROVE FALSE
    OBVIOUS
  <2>2. x + 1 \in 1..Len(rs[h].content) /\ x < x + 1
    BY <1>11, <2>1
  <2>3. from[h] < p /\ IsText(from[h])
    BY <1>1, <1>2, <1>8
  <2> QED
    BY <1>12, <2>2, <2>3
<1>14. h + 1 = i
  <2>1. SUFFICES ASSUME h + 1 # i PROVE FALSE
    OBVIOUS
  <2>2. PICK g \in 1..Len(rs) : g = h + 1
    BY <1>9, <2>1
  <2>3. h < g /\ g < i
    BY <1>9, <2>1, <2>2
  <2>4. from[h] <= from[g] /\ from[g] < from[i]
    BY <2>3, CutFollows
  <2>5. CutFrom(rs[g], from[g]) /\ from[g] \in 1..Len(content)
    BY DEF IsCut
  <2>6. CASE IsText(from[g])
    <3>1. rs[g].content # <<>>
      BY <2>5, <2>6, Zenon DEF CutFrom, IsText
    <3>2. rs[g].content \in Seq(Nat \X Nat)
      BY <1>0, RunFields
    <3>3. 1 \in 1..Len(rs[g].content)
      BY <3>1, <3>2
    <3>4. from[g] < p
      BY <2>4
    <3> QED
      BY <1>12, <2>3, <2>6, <3>3, <3>4
  <2>7. CASE ~IsText(from[g])
    <3>1. content[from[g]].name \in PieceNames
      BY <2>5, ContentType DEF PieceType
    <3>2. content[from[g]].name # "other"
      BY <2>5, Zenon DEF CutFrom
    <3>3. IsElement(from[g])
      BY <2>7, <3>1, <3>2 DEF IsElement, IsText, PieceNames
    <3>4. from[h] # from[g]
      BY <1>2, <1>8, <2>7
    <3>5. from[g] \in a[1]+1..p-1
      BY <1>8, <1>10, <2>4, <2>5, <3>4
    <3> QED
      BY <1>4, <3>3, <3>5, Zenon
  <2> QED
    BY <2>6, <2>7
<1>15. rs[h].kind = "text"
  <2>1. CutFrom(rs[h], from[h])
    BY Zenon DEF IsCut
  <2>2. rs[h].kind # "math"
    BY <1>2, <1>7, <2>1, Zenon DEF CutFrom
  <2>3. content[from[h]].name # "computeroutput"
    BY <1>2, <1>8 DEF IsText
  <2>4. rs[h].kind # "code"
    BY <2>1, <2>3, Zenon DEF CutFrom
  <2>5. rs[h].kind \in {"text", "math", "code"}
    BY <1>10, RunFields
  <2> QED
    BY <2>2, <2>4, <2>5
<1>16. EndsWithRole(rs[h].content)
  <2>1. rs[h].content # <<>>
    <3>1. rs[h].content \in Seq(Nat \X Nat)
      BY <1>10, RunFields
    <3> QED
      BY <1>7, <3>1
  <2>2. At(rs[h].content[Len(rs[h].content)]) = "role"
    BY <1>2, <1>7, <1>11, <1>13, Zenon
  <2> QED
    BY <2>1, <2>2, Zenon DEF EndsWithRole, Last
<1>17. TakesIn(rs, i)
  <2>1. i > 1 /\ i \in DOMAIN rs /\ i - 1 = h
    BY <1>0, <1>14
  <2> QED
    BY <1>15, <1>16, <2>1, Zenon DEF TakesIn
<1> QED
  BY <1>7, <1>11, <1>13, <1>14, <1>17

\* Code is a role exactly if a role ends the text before it, and such roles are
\* not written.
LEMMA RolesAreTaken ==
  ASSUME content \in Contents, NEW rs, NEW from, IsCut(rs, from), IsWhole(rs, from),
         NEW run, NEW tok, Formats(formatted, rs, run, tok), formatted \in Seq(TokenType)
  PROVE  RolesReachTheirCode
<1>0. rs \in Seq(RunType) /\ \A j \in 1..Len(rs) : rs[j] \in RunType /\ from[j] \in 1..Len(content)
  BY DEF IsCut
<1>1. DOMAIN formatted = 1..Len(formatted) /\ DOMAIN content = 1..Len(content)
  BY ContentType
<1>2. /\ \A k \in 1..Len(formatted) :
           /\ run[k] \in 1..Len(rs) /\ tok[k] \in 1..Left(rs, run[k])
           /\ formatted[k].place = rs[run[k]].content[tok[k]]
           /\ MarkedAs(formatted[k].as, rs, run[k])
      /\ \A i \in 1..Len(rs) : \A x \in 1..Left(rs, i) :
           \E k \in 1..Len(formatted) : run[k] = i /\ tok[k] = x
  BY Zenon DEF Formats
<1>3. \A k \in 1..Len(formatted) : tok[k] \in 1..Len(rs[run[k]].content)
  <2> TAKE k \in 1..Len(formatted)
  <2>1. PICK i \in 1..Len(rs) : i = run[k]
    BY <1>2
  <2>2. PICK n \in Nat : n = Len(rs[i].content)
    BY <1>0, RunFields
  <2>3. Left(rs, i) = n - 1 \/ Left(rs, i) = n
    BY <2>2 DEF Left
  <2>4. tok[k] \in 1..Left(rs, i)
    BY <1>2, <2>1
  <2> QED
    BY <2>1, <2>2, <2>3, <2>4
<1>4. ASSUME NEW p \in 1..Len(content), content[p].name = "computeroutput",
             NEW k \in DOMAIN content[p].value, At(<<p, k>>) = "word"
      PROVE  /\ (\E j \in 1..Len(formatted) : formatted[j].place[1] = p /\ formatted[j].as = "role")
                  <=> \E a : RoleBefore(p, a)
             /\ \A a : RoleBefore(p, a) =>
                  \A j \in 1..Len(formatted) : formatted[j].place # a
  <2>0. ~IsText(p)
    BY <1>4 DEF IsText
  <2>1. PICK w \in Places : w = <<p, k>>
    <3>1. content[p] \in PieceType
      BY ContentType
    <3>2. k \in TokensOf(p)
      BY <3>1 DEF PieceType, TokensOf
    <3> QED
      BY <3>2, PlaceType
  <2>2. w[1] = p
    BY <2>1
  <2>3. Kept(w) /\ At(w) # "space" /\ ~(At(w) = "role")
    <3>1. At(w) # "$" /\ At(w) # "space" /\ At(w) # "role"
      BY <1>4, <2>1
    <3>2. content[w[1]].name # "other"
      BY <1>4, <2>2
    <3> QED
      BY <3>1, <3>2, Zenon DEF Kept
  <2>4. PICK i \in 1..Len(rs) : Has(rs[i], w)
    BY <2>3, Zenon DEF IsWhole
  <2>5. PICK x \in 1..Len(rs[i].content) : rs[i].content[x] = w
    BY <2>4, Zenon DEF Has
  <2>6. from[i] = p
    BY <2>2, <2>5, CutPlaces
  <2>7. rs[i].kind = "code"
    <3>1. CutFrom(rs[i], from[i])
      BY Zenon DEF IsCut
    <3> QED
      BY <1>4, <2>6, <3>1, Zenon DEF CutFrom
  <2>8. (\E j \in 1..Len(formatted) : formatted[j].place[1] = p /\ formatted[j].as = "role")
          => TakesIn(rs, i)
    <3> SUFFICES ASSUME NEW j \in 1..Len(formatted),
                        formatted[j].place[1] = p, formatted[j].as = "role"
                 PROVE  TakesIn(rs, i)
      OBVIOUS
    <3>1. PICK g \in 1..Len(rs) : g = run[j]
      BY <1>2
    <3>2. formatted[j].place = rs[g].content[tok[j]] /\ tok[j] \in 1..Len(rs[g].content)
      BY <1>2, <1>3, <3>1, Zenon
    <3>3. from[g] = p
      BY <3>2, CutPlaces
    <3>4. g = i
      BY <2>0, <2>6, <3>3, CutFollows
    <3>5. MarkedAs(formatted[j].as, rs, g)
      BY <1>2, <3>1, Zenon
    <3> QED
      BY <3>4, <3>5, Zenon DEF MarkedAs
  <2>9. TakesIn(rs, i)
          => \E j \in 1..Len(formatted) : formatted[j].place[1] = p /\ formatted[j].as = "role"
    <3> HAVE TakesIn(rs, i)
    <3>1. x \in 1..Left(rs, i)
      BY <1>0, <2>3, <2>5, WordsAreLeft
    <3>2. PICK j \in 1..Len(formatted) : run[j] = i /\ tok[j] = x
      BY <1>2, <3>1, Zenon
    <3>3. formatted[j].place = w /\ MarkedAs(formatted[j].as, rs, i)
      BY <1>2, <2>5, <3>2
    <3>4. formatted[j].as = "role"
      BY <3>3, Zenon DEF MarkedAs
    <3> QED
      BY <2>2, <3>3, <3>4
  <2>10. TakesIn(rs, i) => \E a : RoleBefore(p, a)
    BY <2>0, <2>6, TakenIsBefore
  <2>11. ASSUME NEW a, RoleBefore(p, a)
         PROVE  TakesIn(rs, i) /\ \A j \in 1..Len(formatted) : formatted[j].place # a
    <3>1. PICK h \in 1..Len(rs) :
            /\ h + 1 = i /\ Len(rs[h].content) \in 1..Len(rs[h].content)
            /\ rs[h].content[Len(rs[h].content)] = a
            /\ TakesIn(rs, i)
      BY <2>0, <2>6, <2>7, <2>11, BeforeIsTaken
    <3>2. PICK n \in Nat : n = Len(rs[h].content)
      BY <1>0, RunFields
    <3>3. Left(rs, h) = n - 1
      BY <3>1, <3>2 DEF Left
    <3>4. ASSUME NEW j \in 1..Len(formatted), formatted[j].place = a PROVE FALSE
      <4>1. PICK g \in 1..Len(rs) : g = run[j]
        BY <1>2
      <4>2. /\ rs[g].content[tok[j]] = a /\ tok[j] \in 1..Len(rs[g].content)
            /\ tok[j] \in 1..Left(rs, g)
        <5>1. /\ rs[run[j]].content[tok[j]] = formatted[j].place
              /\ tok[j] \in 1..Len(rs[run[j]].content)
              /\ tok[j] \in 1..Left(rs, run[j])
          BY <1>2, <1>3
        <5> QED
          BY <3>4, <4>1, <5>1
      <4>3. g = h /\ tok[j] = n
        <5>1. PICK y \in 1..Len(rs[g].content) : y = tok[j]
          BY <4>2
        <5>2. n \in 1..Len(rs[h].content) /\ rs[h].content[n] = rs[g].content[y]
          BY <3>1, <3>2, <4>2, <5>1
        <5>3. h = g /\ n = y
          BY <5>2, CutEarlier
        <5> QED
          BY <5>1, <5>3
      <4>4. n \in 1..n-1
        BY <3>3, <4>2, <4>3
      <4> QED
        BY <4>4
    <3> QED
      BY <3>1, <3>4, Zenon
  <2> QED
    BY <2>8, <2>9, <2>10, <2>11, Zenon
<1>5. \A p : \A a : RoleBefore(p, a) <=>
        a \in {b \in Preceding(p) : At(b) = "role" /\ content[b[1]].name = "" /\ ~IsMath(b)}
  BY DEF RoleBefore
<1> SUFFICES ASSUME NEW p \in DOMAIN content, content[p].name = "computeroutput",
                    NEW k \in DOMAIN content[p].value, At(<<p, k>>) = "word",
                    NEW before, before = {a \in Preceding(p) :
                      At(a) = "role" /\ content[a[1]].name = "" /\ ~IsMath(a)}
             PROVE  /\ (\E j \in DOMAIN formatted : /\ formatted[j].place[1] = p
                                                    /\ formatted[j].as = "role")
                         <=> before # {}
                    /\ \A a \in before : \A j \in DOMAIN formatted : formatted[j].place # a
  BY DEF RolesReachTheirCode
<1>6. \A a : RoleBefore(p, a) <=> a \in before
  BY <1>5, Zenon
<1>7. before # {} <=> \E a : RoleBefore(p, a)
  BY <1>6
<1>8. /\ (\E j \in 1..Len(formatted) : formatted[j].place[1] = p /\ formatted[j].as = "role")
           <=> \E a : RoleBefore(p, a)
      /\ \A a : RoleBefore(p, a) => \A j \in 1..Len(formatted) : formatted[j].place # a
  BY <1>1, <1>4, Zenon
<1> QED
  BY <1>1, <1>6, <1>7, <1>8, Zenon

-----------------------------------------------------------------------------
(* The texts of comments.                                                  *)

\* What TextInv says of the runs.
LEMMA BuiltRuns ==
  ASSUME content \in Contents
  PROVE  /\ Built \in Seq(RunType)
         /\ \A j \in 1..Len(Built) : ~Built[j].directive
         /\ IsTransformed(WithRoles(Built), Built)
<1>1. PICK from \in [1..Len(Built) -> 1..Len(content)] : IsCut(Built, from)
  BY BuiltIsCut
<1>2. Built \in Seq(RunType) /\ \A j \in 1..Len(Built) : CutFrom(Built[j], from[j])
  BY <1>1, Zenon DEF IsCut
<1>3. \A j \in 1..Len(Built) : ~Built[j].directive
  BY <1>2, Zenon DEF CutFrom
<1> QED
  BY <1>2, <1>3, WithRolesIs

\* The type invariant follows from the inductive one, ...
LEMMA TextInvTypes == TextInv => TextTypeOK
<1> SUFFICES ASSUME TextInv PROVE TextTypeOK
  OBVIOUS
<1>1. content \in Contents /\ phase \in {"xml", "runs", "transformed", "done"}
  BY Zenon DEF TextInv
<1>2. runs = <<>> \/ runs = Built \/ runs = WithRoles(Built)
  BY <1>1 DEF TextInv
<1>3. runs \in Seq(RunType)
        /\ \A j \in 1..Len(runs) : runs[j].directive => runs[j].kind = "code"
  <2>1. CASE runs = <<>>
    <3>1. <<>> \in Seq(RunType) /\ Len(<<>>) = 0 /\ 1..0 = {}
      OBVIOUS
    <3> QED
      BY <2>1, <3>1, Zenon
  <2>2. CASE runs = Built
    BY <1>1, <2>2, BuiltRuns
  <2>3. CASE runs = WithRoles(Built)
    <3>1. IsTransformed(runs, Built)
      BY <1>1, <2>3, BuiltRuns
    <3>2. runs \in Seq(RunType) /\ Len(runs) = Len(Built)
          /\ \A j \in 1..Len(Built) :
               runs[j].kind = Built[j].kind /\ (runs[j].directive <=> TakesIn(Built, j))
      BY <3>1, Zenon DEF IsTransformed
    <3>3. \A j \in 1..Len(Built) : TakesIn(Built, j) => Built[j].kind = "code"
      BY Zenon DEF TakesIn
    <3> QED
      BY <3>2, <3>3
  <2> QED
    BY <1>2, <2>1, <2>2, <2>3
<1>4. \A j \in DOMAIN runs : /\ runs[j].kind \in {"text", "math", "code"}
                             /\ runs[j].directive => runs[j].kind = "code"
                             /\ Len(runs[j].content) >= 0
  <2> TAKE j \in DOMAIN runs
  <2>1. j \in 1..Len(runs) /\ runs[j] \in RunType
    BY <1>3
  <2>2. runs[j].kind \in {"text", "math", "code"} /\ Len(runs[j].content) \in Nat
    BY <2>1, RunFields
  <2>3. Len(runs[j].content) >= 0
    BY <2>2
  <2> QED
    BY <1>3, <2>1, <2>2, <2>3, Zenon
<1> QED
  BY <1>1, <1>4, Zenon DEF TextTypeOK

\* ... and so does what is said of the page.
LEMMA TextInvSurvives == TextInv => TextSurvives
<1> SUFFICES ASSUME TextInv PROVE TextSurvives
  OBVIOUS
<1>1. CASE phase # "done"
  BY <1>1, Zenon DEF TextSurvives, WordsSurvive, RolesReachTheirCode
<1>2. CASE phase = "done"
  <2>1. content \in Contents
    BY Zenon DEF TextInv
  <2>2. runs = WithRoles(Built)
    BY <1>2 DEF TextInv
  <2>3. formatted = FlattenSeq([j \in DOMAIN runs |-> Written(runs[j])])
    BY <1>2, Zenon DEF TextInv
  <2>4. PICK rs : rs = Built
    OBVIOUS
  <2>5. rs \in Seq(RunType) /\ IsTransformed(runs, rs)
    BY <2>1, <2>2, <2>4, BuiltRuns
  <2>6. PICK from \in [1..Len(rs) -> 1..Len(content)] : IsCut(rs, from) /\ IsWhole(rs, from)
    BY <2>1, <2>4, BuiltIsCut
  <2>7. \A j \in 1..Len(rs) : TakesIn(rs, j) => rs[j].kind = "code"
    BY Zenon DEF TakesIn
  <2>8. /\ formatted \in Seq(TokenType)
        /\ \E run, tok \in [1..Len(formatted) -> Nat] : Formats(formatted, rs, run, tok)
    BY <2>3, <2>5, <2>7, FormattedIs
  <2>9. PICK run \in [1..Len(formatted) -> Nat], tok \in [1..Len(formatted) -> Nat] :
          Formats(formatted, rs, run, tok)
    BY <2>8, Zenon
  <2>10. WordsSurvive
    BY <2>1, <2>6, <2>8, <2>9, WordsAreWritten
  <2>11. RolesReachTheirCode
    BY <2>1, <2>6, <2>8, <2>9, RolesAreTaken
  <2> QED
    BY <2>10, <2>11 DEF TextSurvives
<1> QED
  BY <1>1, <1>2

\* TextInv holds at first ...
LEMMA TextInvInit == TextInit => TextInv
  BY DEF TextInit, TextInv

\* ... and every step keeps it.
LEMMA TextInvNext == TextInv /\ [TextNext]_textVars => TextInv'
<1> SUFFICES ASSUME TextInv, [TextNext]_textVars PROVE TextInv'
  OBVIOUS
<1>0. content' = content => Built' = Built
  BY DEF Built, RunsOf, SplitMath, Chunks, Chunk, Dollars, Place, Stripped, NoDollars,
         RemoveTrailingRuns, Blank, At
<1>1. CASE BuildRuns
  <2>1. /\ phase' = "runs" /\ runs' = Built /\ content' = content /\ formatted' = formatted
    BY <1>1, Zenon DEF BuildRuns
  <2> QED
    BY <1>0, <2>1 DEF TextInv
<1>2. CASE Transform
  <2>1. phase = "runs" /\ phase' = "transformed" /\ content' = content
    BY <1>2, Zenon DEF Transform
  <2>2. runs = Built
    BY <2>1 DEF TextInv
  <2>3. runs' = WithRoles(runs)
    BY <1>2 DEF Transform, WithRoles, TakesRole, TakesIn, EndsWithRole, At
  <2>4. WithRoles(Built)' = WithRoles(Built)
    BY <1>0, <2>1 DEF WithRoles, TakesIn, EndsWithRole, At
  <2> QED
    BY <2>1, <2>2, <2>3, <2>4 DEF TextInv
<1>3. CASE Format
  <2>1. /\ phase = "transformed" /\ phase' = "done" /\ content' = content /\ runs' = runs
        /\ formatted' = FlattenSeq([j \in DOMAIN runs |-> Written(runs[j])])
    BY <1>3, Zenon DEF Format
  <2>2. runs = WithRoles(Built)
    BY <2>1 DEF TextInv
  <2>3. WithRoles(Built)' = WithRoles(Built)
    BY <1>0, <2>1 DEF WithRoles, TakesIn, EndsWithRole, At
  <2> QED
    BY <2>1, <2>2, <2>3 DEF TextInv
<1>4. CASE UNCHANGED textVars
  <2>1. content' = content /\ runs' = runs /\ formatted' = formatted /\ phase' = phase
    BY <1>4, Zenon DEF textVars
  <2>2. WithRoles(Built)' = WithRoles(Built)
    BY <1>0, <2>1 DEF WithRoles, TakesIn, EndsWithRole, At
  <2> QED
    BY <1>0, <2>1, <2>2 DEF TextInv
<1> QED
  BY <1>1, <1>2, <1>3, <1>4 DEF TextNext

\* So it always holds.
THEOREM TextInvCorrect == TextSpec => []TextInv
  BY TextInvInit, TextInvNext, PTL DEF TextSpec

\* The variables of the texts keep their types.
THEOREM TextTypeCorrect == TextSpec => []TextTypeOK
  BY TextInvCorrect, TextInvTypes, PTL

\* Of any comment, however many paragraphs, formulas and roles it has, every word
\* gets to the page as what it is, and every role to its code.
THEOREM TextsSurvive == TextSpec => []TextSurvives
  BY TextInvCorrect, TextInvSurvives, PTL
=============================================================================
