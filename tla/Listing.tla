------------------------------ MODULE Listing ------------------------------
(***************************************************************************)
(* ListingReader: the excerpt of a header that shows one declaration.      *)
(*                                                                         *)
(* doxygen tells where a declaration is named and, of some, where its body *)
(* ends; the reader walks up to a blank line or comment to find where it   *)
(* begins, and down for a `;` or the brace that closes a namespace.  Lines *)
(* are numbered from 0, as in `lines`; the XML numbers them from 1.        *)
(*                                                                         *)
(* A line is known by what the reader looks for in it.  A file is read in  *)
(* one go and searched afterwards, so people edit it between two reads;    *)
(* the location is that of the header doxygen saw (version 0).  An         *)
(* exception ends the process.                                             *)
(***************************************************************************)
EXTENDS Integers, FiniteSets

CONSTANTS
  MaxLines,  \* bound on the length of a header doxygen saw
  Sources,   \* the contents of one: functions from 0..n-1 to lines
  Texts,     \* what a line may hold
  MaxEdits,  \* bound on the edits of a behaviour
  EditLines  \* bound on the length of a header that is edited

\* Lines of code may have a semicolon or braces: "close_open", `}{`, closes a
\* block before it opens another, "open_close", `{}`, opens it first.  A brace or
\* semicolon in a comment is commented code.
Lines == {"blank", "code", "semi", "open", "close", "open_close", "close_open",
          "comment", "comment_open", "comment_close", "comment_semi"}

ASSUME ListingAssumption ==
  /\ MaxLines \in Nat /\ MaxEdits \in Nat /\ EditLines \in Nat
  /\ Texts \subseteq Lines
  /\ \A s \in Sources : \E n \in 0..MaxLines : s \in [0..n-1 -> Texts]

Comment(l) == l \in {"comment", "comment_open", "comment_close", "comment_semi"}
Code(l)    == l # "blank" /\ ~Comment(l)

\* str.count and `in` look into comments, too.
Opens(l)  == IF l \in {"comment_open", "open", "open_close", "close_open"} THEN 1 ELSE 0
Closes(l) == IF l \in {"comment_close", "close", "open_close", "close_open"} THEN 1 ELSE 0
Ends(l)   == l \in {"semi", "comment_semi"}

-----------------------------------------------------------------------------
(* What is declared where, in terms of C++.                                *)

\* The depth of braces after line i, and the lowest depth within it.
Depth(s) ==
  LET after[i \in {-1} \cup DOMAIN s] ==
        IF i = -1 THEN 0
        ELSE IF Code(s[i]) THEN after[i - 1] + Opens(s[i]) - Closes(s[i])
        ELSE after[i - 1]
  IN  after

Lowest(s, i) == Depth(s)[i - 1] - (IF s[i] \in {"close", "close_open"} THEN 1 ELSE 0)

\* The declaration begins on `first`, is named on `line` (from 1), and ends on
\* `last`.  The lines from `first` to the name have no comments among them.
Locations(s) ==
  [first : DOMAIN s, line : {i + 1 : i \in DOMAIN s}, last : DOMAIN s,
   bodyend : {0} \cup {i + 1 : i \in DOMAIN s}, namespace : BOOLEAN]

\* Line o has the first brace of a block: what surrounds it is closed no further
\* than before that brace.
BlockFrom(s, d, o) ==
  /\ \A j \in d.first..o-1 : s[j] = "code" \/ ~Code(s[j])
  /\ s[o] \in {"open", "open_close", "close_open"}
  /\ s[o] = "open_close" <=> d.last = o
  /\ \A j \in o+1..d.last-1 : Lowest(s, j) > Lowest(s, o)
  /\ d.last > o => Lowest(s, d.last) = Lowest(s, o)

Block(s, d) == \E o \in d.line-1..d.last : BlockFrom(s, d, o)

\* doxygen tells where most blocks end, but may not of a namespace; an alias or
\* a function without a body ends with its `;`.
Declares(s, d) ==
  /\ d.first < d.line /\ d.line <= d.last + 1
  /\ \A j \in d.first..d.line-1 : Code(s[j])
  /\ \/ Block(s, d) /\ (d.bodyend = d.last + 1 \/ (d.bodyend = 0 /\ d.namespace))
     \/ /\ d.bodyend = 0 /\ ~d.namespace
        /\ s[d.last] = "semi"
        /\ \A j \in d.first..d.last-1 : s[j] = "code" \/ ~Code(s[j])

-----------------------------------------------------------------------------
VARIABLES
  lines,    \* the header
  ver,      \* how often it was edited since doxygen saw it
  loc,      \* the declaration's location, and where it really is
  content,  \* _ListingEntry._content
  pc,       \* "idle", "up", "end", "semicolon", "braces", "collect", "failed"
  flag,     \* remove_empty_lines of the read under way
  i,        \* the index of its loop
  brace_counter, start_index, end_index,
  shown     \* history: the excerpts this process showed

search == <<i, brace_counter, start_index, end_index>>
vars   == <<lines, ver, loc, content, pc, flag, search, shown>>

\* An excerpt: lines of some version of the header, some of them blank.
Excerpt(v, at, blank) == [ver |-> v, at |-> at, blank |-> blank]
Nothing == Excerpt(0, {}, {})

Init ==
  /\ lines \in Sources /\ ver = 0
  /\ loc \in {d \in Locations(lines) : Declares(lines, d)}
  /\ content = Nothing
  /\ pc = "idle" /\ flag = FALSE
  /\ i = 0 /\ brace_counter = 0 /\ start_index = 0 /\ end_index = 0
  /\ shown = {}

Size == Cardinality(DOMAIN lines)

\* Somebody edits the header: a line is inserted or deleted.
Edit ==
  /\ pc = "idle" /\ ver < MaxEdits /\ Size <= EditLines
  /\ ver' = ver + 1
  /\ \/ \E p \in 0..Size, l \in Texts :
          lines' = [j \in 0..Size |-> IF j < p THEN lines[j]
                                      ELSE IF j = p THEN l ELSE lines[j - 1]]
     \/ \E p \in DOMAIN lines :
          lines' = [j \in 0..Size-2 |-> IF j < p THEN lines[j] ELSE lines[j + 1]]
  /\ UNCHANGED <<loc, content, pc, flag, search, shown>>

-----------------------------------------------------------------------------
(* _ListingEntry.read.                                                     *)

\* Mutant: what is kept has no blank lines if the first reader wants none.
Kept_Filtered(at, blank) ==
  IF flag THEN Excerpt(ver, at \ blank, {}) ELSE Excerpt(ver, at, blank)

Kept(at, blank) == Excerpt(ver, at, blank)

Shown(c, remove) ==
  [remove |-> remove, ver |-> c.ver, blank |-> c.blank,
   at |-> IF remove THEN c.at \ c.blank ELSE c.at]

Answer(c, remove) == shown' = shown \cup {Shown(c, remove)}

\* Mutant: the file is read every time.
Read_Always(remove) ==
  /\ pc = "idle"
  /\ flag' = remove
  /\ \/ loc.line = 1 /\ start_index' = 0 /\ pc' = "end" /\ UNCHANGED i
     \/ loc.line > 1 /\ i' = loc.line - 1 /\ pc' = "up" /\ UNCHANGED start_index
  /\ UNCHANGED <<lines, ver, loc, content, brace_counter, end_index, shown>>

\* The file is read if there is no content, or if it is empty.
Read(remove) ==
  /\ pc = "idle" /\ content.at = {}
  /\ flag' = remove
  /\ \/ loc.line = 1 /\ start_index' = 0 /\ pc' = "end" /\ UNCHANGED i
     \/ loc.line > 1 /\ i' = loc.line - 1 /\ pc' = "up" /\ UNCHANGED start_index
  /\ UNCHANGED <<lines, ver, loc, content, brace_counter, end_index, shown>>

ReadCached(remove) ==
  /\ pc = "idle" /\ content.at # {}
  /\ Answer(content, remove)
  /\ UNCHANGED <<lines, ver, loc, content, pc, flag, search>>

\* _find_start_index: up to a blank line or a comment.
Up ==
  /\ pc = "up" /\ i \in DOMAIN lines
  /\ \/ Code(lines[i]) /\ i' = i - 1 /\ UNCHANGED <<pc, start_index>>
     \/ ~Code(lines[i]) /\ start_index' = i + 1 /\ pc' = "end" /\ UNCHANGED i
  /\ UNCHANGED <<lines, ver, loc, content, flag, brace_counter, end_index, shown>>

\* Mutant: any bodyend is taken for the end of a body.
FindEnd_NoGuard ==
  /\ pc = "end"
  /\ end_index' = loc.bodyend - 1 /\ pc' = "collect"
  /\ UNCHANGED <<lines, ver, loc, content, flag, i, brace_counter, start_index, shown>>

\* _find_end_index: bodyend counts from 1, start_index from 0; 0 stands for
\* "none" and for doxygen's -1.
FindEnd ==
  /\ pc = "end"
  /\ \/ /\ loc.bodyend > start_index
        /\ end_index' = loc.bodyend - 1 /\ pc' = "collect"
        /\ UNCHANGED <<i, brace_counter>>
     \/ /\ loc.bodyend <= start_index
        /\ pc' = IF loc.namespace THEN "braces" ELSE "semicolon"
        /\ i' = start_index /\ brace_counter' = 0
        /\ UNCHANGED end_index
  /\ UNCHANGED <<lines, ver, loc, content, flag, start_index, shown>>

\* _find_line_index.
Semicolon ==
  /\ pc = "semicolon" /\ i \in DOMAIN lines
  /\ \/ Ends(lines[i]) /\ end_index' = i /\ pc' = "collect" /\ UNCHANGED i
     \/ ~Ends(lines[i]) /\ i' = i + 1 /\ UNCHANGED <<end_index, pc>>
  /\ UNCHANGED <<lines, ver, loc, content, flag, brace_counter, start_index, shown>>

\* The line's `}` count once a brace is open; all its `{` come first.
Count(n, l) ==
  IF n + Opens(l) > 0 THEN n + Opens(l) - Closes(l) ELSE n + Opens(l)

\* _find_namespace_end.
Braces ==
  /\ pc = "braces" /\ i \in DOMAIN lines
  /\ brace_counter' = Count(brace_counter, lines[i])
  /\ IF brace_counter + Opens(lines[i]) > 0 /\ brace_counter' <= 0
     THEN end_index' = i /\ pc' = "collect" /\ UNCHANGED i
     ELSE i' = i + 1 /\ UNCHANGED <<end_index, pc>>
  /\ UNCHANGED <<lines, ver, loc, content, flag, start_index, shown>>

\* The excerpt: without comments.
Collect ==
  /\ pc = "collect" /\ pc' = "idle"
  /\ start_index..end_index \subseteq DOMAIN lines
  /\ LET at == {j \in start_index..end_index : ~Comment(lines[j])}
     IN  /\ content' = Kept(at, {j \in at : lines[j] = "blank"})
         /\ Answer(content', flag)
  /\ UNCHANGED <<lines, ver, loc, flag, search>>

\* DeclarationError, or IndexError when lines were deleted.
Fail ==
  /\ \/ pc \in {"up", "semicolon", "braces"} /\ i \notin DOMAIN lines
     \/ pc = "collect" /\ ~(start_index..end_index \subseteq DOMAIN lines)
  /\ pc' = "failed"
  /\ UNCHANGED <<lines, ver, loc, content, flag, search, shown>>

Next ==
  \/ Edit
  \/ \E remove \in BOOLEAN : Read(remove) \/ ReadCached(remove)
  \/ Up \/ FindEnd \/ Semicolon \/ Braces \/ Collect \/ Fail

Spec == Init /\ [][Next]_vars

-----------------------------------------------------------------------------
\* A blank line or a comment stands above the declaration, or nothing does and
\* it is named on the first line of the file.
Separated ==
  \/ loc.first > 0 /\ ~Code(lines[loc.first - 1])
  \/ loc.first = 0 /\ loc.line = 1

\* Nothing among its lines looks like its end.
Plain ==
  loc.bodyend = 0 =>
    IF loc.namespace
    THEN \A j \in loc.first..loc.last :
           /\ lines[j] \notin {"comment_open", "comment_close"}
           /\ lines[j] = "close_open" => Lowest(lines, j) > Depth(lines)[loc.first - 1]
    ELSE \A j \in loc.line-1..loc.last : lines[j] # "comment_semi"

\* Type invariant.
TypeOK ==
  /\ \E n \in 0..MaxLines+MaxEdits : lines \in [0..n-1 -> Texts]
  /\ ver \in 0..MaxEdits /\ flag \in BOOLEAN
  /\ pc \in {"idle", "up", "end", "semicolon", "braces", "collect", "failed"}
  /\ i \in Int /\ brace_counter \in Int
  /\ start_index \in Nat /\ end_index \in Nat
  /\ content.ver \in 0..MaxEdits
  /\ content.blank \subseteq content.at /\ content.at \subseteq Nat
  /\ shown \subseteq [remove : BOOLEAN, ver : 0..MaxEdits, at : SUBSET Nat, blank : SUBSET Nat]

\* If the header is as doxygen saw it and the declaration stands apart, the
\* excerpt is the declaration -- every line of code, none of a neighbour's --
\* and there is one.
ExcerptIsDeclaration ==
  ver = 0 /\ Separated /\ Plain =>
    /\ pc # "failed"
    /\ \A e \in shown :
         e.at = {j \in loc.first..loc.last :
                   Code(lines[j]) \/ (lines[j] = "blank" /\ ~e.remove)}

\* Every document of a process shows the same excerpt, whatever is edited
\* meanwhile and whether or not it wants the blank lines -- unless the excerpt
\* was empty, which counts as not read.
ReadsAgree ==
  \A d, e \in shown :
    (d.remove = e.remove \/ ~e.remove) =>
      d.at = {j \in e.at : ~d.remove \/ j \notin e.blank} \/ e.at = {} \/ d.at = {}
=============================================================================
