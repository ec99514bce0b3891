------------------------------- MODULE Lookup -------------------------------
(***************************************************************************)
(* What the index of a process promises, whatever it caches.               *)
(*                                                                         *)
(* Someone writes XML files while the process lives.  The process fixes    *)
(* the list of compounds once and the content of each compound once, each  *)
(* as it is on the disk at that moment, transformed exactly once.  It      *)
(* answers every query from what it has fixed, and only a compound not     *)
(* fixed yet can fail it.                                                  *)
(***************************************************************************)
EXTENDS XmlNames

VARIABLES
  disk,     \* compound -> version of its XML file, 0: none that can be read
  catalog,  \* the compounds index.xml lists
  open,     \* there is an index
  listed,   \* the compounds it was made from
  taken,    \* compound -> the version fixed, 0: none yet
  reply     \* the last answer

lvars == <<disk, catalog, open, listed, taken, reply>>

NothingTaken == [c \in Compounds |-> 0]

LookupInit ==
  /\ disk \in [Compounds -> Versions] /\ catalog = Compounds
  /\ open = FALSE /\ listed = {} /\ taken = NothingTaken
  /\ reply = None

\* Files of another version, no files, or half of one.
Environment ==
  /\ \/ \E c \in Compounds, v \in Versions \cup {0} : disk' = [disk EXCEPT ![c] = v]
        /\ UNCHANGED catalog
     \/ \E cs \in SUBSET Compounds : catalog' = cs /\ UNCHANGED disk
  /\ UNCHANGED <<open, listed, taken, reply>>

Open ==
  /\ ~open /\ open' = TRUE
  /\ listed' = catalog
  /\ reply' = None
  /\ UNCHANGED <<disk, catalog, taken>>

Take(c) ==
  /\ open /\ c \in listed
  /\ taken[c] = 0 /\ disk[c] # 0
  /\ taken' = [taken EXCEPT ![c] = disk[c]]
  /\ UNCHANGED <<disk, catalog, open, listed, reply>>

\* The compound of that name, whole: no pass forgotten, none repeated.
AnswerCompound(q, c) ==
  /\ open /\ IsEntry(listed, q, c) /\ taken[c] # 0
  /\ reply' = [q |-> q, kind |-> "compound", of |-> c, ver |-> taken[c], at |-> 0,
               passes |-> 1]
  /\ UNCHANGED <<disk, catalog, open, listed, taken>>

\* One of the members of that name, if no compound has it.
AnswerMember(q, c) ==
  /\ open /\ ~HasEntry(listed, q)
  /\ IsEntry(listed, ParentOf(q), c) /\ taken[c] # 0
  /\ \E i \in Findable(c, taken[c], LastOf(q)) :
       reply' = [q |-> q, kind |-> "member", of |-> c, ver |-> taken[c], at |-> i,
                 passes |-> 1]
  /\ UNCHANGED <<disk, catalog, open, listed, taken>>

\* Nothing has that name.
AnswerMissing(q) ==
  /\ open /\ ~HasEntry(listed, q)
  /\ \A c \in Compounds : IsEntry(listed, ParentOf(q), c) =>
       taken[c] # 0 /\ Findable(c, taken[c], LastOf(q)) = {}
  /\ reply' = [q |-> q, kind |-> "missing", of |-> None, ver |-> 0, at |-> 0,
               passes |-> 0]
  /\ UNCHANGED <<disk, catalog, open, listed, taken>>

\* The process ends, by itself or by a file it cannot read.
Close ==
  /\ open /\ open' = FALSE
  /\ listed' = {} /\ taken' = NothingTaken
  /\ \/ reply' = None
     \/ \E q \in Queries, c \in listed :
          /\ taken[c] = 0 /\ disk[c] = 0
          /\ reply' = [q |-> q, kind |-> "broken", of |-> c, ver |-> 0, at |-> 0,
                       passes |-> 0]
  /\ UNCHANGED <<disk, catalog>>

LookupNext ==
  \/ Environment \/ Open \/ Close
  \/ \E c \in Compounds : Take(c)
  \/ \E q \in Queries : AnswerMissing(q)
  \/ \E q \in Queries, c \in Compounds : AnswerCompound(q, c) \/ AnswerMember(q, c)

LookupSpec == LookupInit /\ [][LookupNext]_lvars
=============================================================================
