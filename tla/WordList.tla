------------------------------ MODULE WordList ------------------------------
(***************************************************************************)
(* scripts/oneapi.py sort-words: source/spelling_wordlist.txt is read,     *)
(* sorted without duplicates, and written in place, while people edit it.  *)
(*                                                                         *)
(* A text is a sequence of characters, which are numbers in the order      *)
(* Python compares them; two lines written without a newline between them  *)
(* are one.  What sort_words writes stays in a buffer until that is full   *)
(* or the file is closed, and goes to where the last of it ended.          *)
(*                                                                         *)
(* An editor (external) holds the text it has opened and saves it with a   *)
(* line more, in one step.  Some write to the file itself, some put a new  *)
(* file in its place, which an open handle does not notice.  There is one  *)
(* editor: how two would disturb each other has nothing to do with this.   *)
(***************************************************************************)
EXTENDS Integers, Sequences, FiniteSets, SequencesExt

CONSTANTS
  Words,      \* the words people write
  MaxEdits,   \* bound on the words people add
  MaxKills    \* bound on the interrupts

Hole    == 0  \* what a file has where nothing was written
Newline == 1
Letters == Nat \ {Hole, Newline}

ASSUME WordAssumption ==
  /\ Words \subseteq Seq(Letters) \ {<<>>}
  /\ MaxEdits \in Nat /\ MaxKills \in Nat

VARIABLES
  file,      \* the text on disk
  stage,     \* of sort_words: "idle", "read" or "writing"
  lines,     \* what it has read, sorted: the lines still to be written
  out,       \* the text it has written, on disk or not
  flushed,   \* how much of `out` has left the buffer
  held,      \* its handle is to the file that is there under the name
  opened,    \* the text in the editor
  shown,     \* what that is: "none", "whole", "part"
  wanted,    \* history: the words people have put into the file
  spoilt,    \* history: something happened that may lose a word
  neat,      \* history: only sort_words has touched the file since it began to write
  edits, kills   \* what was added, and the interrupts, so far

sorter == <<stage, lines, out, flushed, held>>
editor == <<opened, shown, edits>>
wordsVars == <<file, sorter, editor, wanted, spoilt, neat, kills>>

WordsInit ==
  /\ file = <<>> /\ stage = "idle" /\ lines = <<>>
  /\ out = <<>> /\ flushed = 0 /\ held = FALSE
  /\ opened = <<>> /\ shown = "none" /\ edits = 0
  /\ wanted = {} /\ spoilt = FALSE /\ neat = FALSE
  /\ kills = 0

-----------------------------------------------------------------------------
(* The lines of a text.                                                    *)

\* Where they begin and end: a newline belongs to its line, the last may lack it.
Spans(t) ==
  {p \in (DOMAIN t) \X (DOMAIN t) :
     /\ p[1] <= p[2]
     /\ p[1] = 1 \/ t[p[1] - 1] = Newline
     /\ p[2] = Len(t) \/ t[p[2]] = Newline
     /\ \A k \in p[1]..p[2]-1 : t[k] # Newline}

LineAt(t, p) == SubSeq(t, p[1], p[2])

\* readlines, as a set
LinesOf(t) == {LineAt(t, p) : p \in Spans(t)}

IsEnded(l) == Last(l) = Newline

Word(l) == IF IsEnded(l) THEN Front(l) ELSE l

WordsOf(t) == {Word(l) : l \in LinesOf(t)}

\* Strings compare as Python compares them.
Smaller(a, b) ==
  \/ IsStrictPrefix(a, b)
  \/ \E n \in DOMAIN a \cap DOMAIN b :
       a[n] < b[n] /\ \A k \in 1..n-1 : a[k] = b[k]

Rank(l, S) == Cardinality({m \in S : Smaller(m, l)})

\* sorted(list(S)): the n-th line has n - 1 before it.
Sorted(S) == [n \in 1..Cardinality(S) |-> CHOOSE l \in S : Rank(l, S) = n - 1]

\* The lines fuse: one without a newline is not the last.
Fuse(ls) == \E n \in 1..Len(ls)-1 : ~IsEnded(ls[n])

-----------------------------------------------------------------------------
(* sort_words.                                                             *)

\* Text s written to a file with content t, from place n on.
Overlay(t, n, s) ==
  [k \in 1..(IF Len(t) > n + Len(s) THEN Len(t) ELSE n + Len(s)) |->
     IF k \in n+1..n+Len(s) THEN s[k - n] ELSE IF k <= Len(t) THEN t[k] ELSE Hole]

\* The file when n characters of what was written have left the buffer.
OnDisk(n) ==
  IF held /\ n > flushed THEN Overlay(file, flushed, SubSeq(out, flushed + 1, n)) ELSE file

\* The file under the name is being written, and not all of it is there yet.
Partial == held /\ (lines # <<>> \/ flushed < Len(out))

\* Mutant: the file is opened for writing first.
Read_AfterTruncate ==
  /\ stage = "idle"
  /\ stage' = "read" /\ lines' = <<>> /\ file' = <<>>
  /\ UNCHANGED <<out, flushed, held, editor, wanted, spoilt, neat, kills>>

\* readlines; nobody else sees the list, so it is sorted here.
Read ==
  /\ stage = "idle"
  /\ stage' = "read" /\ lines' = Sorted(LinesOf(file))
  /\ UNCHANGED <<file, out, flushed, held, editor, wanted, spoilt, neat, kills>>

\* open(..., 'w')
Truncate ==
  /\ stage = "read"
  /\ stage' = "writing" /\ file' = <<>>
  /\ out' = <<>> /\ flushed' = 0 /\ held' = TRUE
  /\ spoilt' = (spoilt \/ Fuse(lines)) /\ neat' = TRUE
  /\ UNCHANGED <<lines, editor, wanted, kills>>

\* fout.write
Write ==
  /\ stage = "writing" /\ lines # <<>>
  /\ out' = out \o Head(lines) /\ lines' = Tail(lines)
  /\ UNCHANGED <<file, stage, flushed, held, editor, wanted, spoilt, neat, kills>>

\* The buffer is full: it is written up to some place, perhaps within a line.
Flush(n) ==
  /\ stage = "writing" /\ n \in flushed+1..Len(out)
  /\ file' = OnDisk(n) /\ flushed' = n
  /\ UNCHANGED <<stage, lines, out, held, editor, wanted, spoilt, neat, kills>>

Leaves ==
  /\ stage' = "idle"
  /\ lines' = <<>> /\ out' = <<>> /\ flushed' = 0 /\ held' = FALSE

\* The end of the with statement: the rest of the buffer is written.
Close ==
  /\ stage = "writing" /\ lines = <<>>
  /\ file' = OnDisk(Len(out)) /\ Leaves
  /\ UNCHANGED <<editor, wanted, spoilt, neat, kills>>

\* An exception (KeyboardInterrupt, say) leaves the with statement, which closes
\* the file; the lines not written yet are gone.
Interrupt ==
  /\ stage # "idle" /\ kills < MaxKills
  /\ kills' = kills + 1
  /\ file' = OnDisk(Len(out)) /\ Leaves
  /\ spoilt' = (spoilt \/ (held /\ lines # <<>>))
  /\ UNCHANGED <<editor, wanted, neat>>

\* The process is killed; what is in the buffer is gone, too.
Kill ==
  /\ stage # "idle" /\ kills < MaxKills
  /\ kills' = kills + 1
  /\ Leaves
  /\ spoilt' = (spoilt \/ Partial)
  /\ UNCHANGED <<file, editor, wanted, neat>>

-----------------------------------------------------------------------------
(* Somebody edits the list, whatever sort_words does meanwhile.            *)

Open ==
  /\ edits < MaxEdits
  /\ opened' = file /\ shown' = IF Partial THEN "part" ELSE "whole"
  /\ UNCHANGED <<file, sorter, edits, wanted, spoilt, neat, kills>>

Ended(t) == IF t = <<>> \/ IsEnded(t) THEN t ELSE Append(t, Newline)

\* A line is added, and not always ended.
Save(w, ended, replaces) ==
  /\ shown # "none" /\ edits < MaxEdits
  /\ file' = Ended(opened) \o (IF ended THEN Append(w, Newline) ELSE w)
  /\ held' = (held /\ ~replaces)
  /\ opened' = <<>> /\ shown' = "none" /\ edits' = edits + 1
  /\ wanted' = wanted \cup {w}
  /\ spoilt' = (spoilt \/ shown = "part" \/ stage = "read" \/ (Partial /\ ~replaces))
  /\ neat' = FALSE
  /\ UNCHANGED <<stage, lines, out, flushed, kills>>

WordsNext ==
  \/ Read \/ Truncate \/ Write \/ Close \/ Interrupt \/ Kill
  \/ \E n \in 1..Len(out) : Flush(n)
  \/ Open
  \/ \E w \in Words, ended, replaces \in BOOLEAN : Save(w, ended, replaces)

WordsSpec == WordsInit /\ [][WordsNext]_wordsVars

-----------------------------------------------------------------------------
LineType == {l \in Seq(Nat) : l # <<>> /\ \A k \in 1..Len(l)-1 : l[k] # Newline}

\* Type invariant.
WordsTypeOK ==
  /\ file \in Seq(Nat) /\ out \in Seq(Nat) /\ opened \in Seq(Nat)
  /\ stage \in {"idle", "read", "writing"}
  /\ \A n \in DOMAIN lines : lines[n] \in LineType
  /\ flushed \in 0..Len(out)
  /\ held \in BOOLEAN /\ (held => stage = "writing")
  /\ shown \in {"none", "whole", "part"}
  /\ edits \in 0..MaxEdits /\ kills \in 0..MaxKills
  /\ spoilt \in BOOLEAN /\ neat \in BOOLEAN

\* The lines of a text are in order, each once.
Ascending(t) ==
  \A p, q \in Spans(t) : p[1] < q[1] => Smaller(LineAt(t, p), LineAt(t, q))

\* sort_words loses and invents no word, however often it runs, whatever it is
\* interrupted in and whoever edits the list meanwhile, except in the ways
\* `spoilt` names: the process ends before all is written to the file; a file is
\* saved that was opened half-written; one is saved between the read and the
\* truncation, or written to while it is half-written; or a last line without
\* newline is not last in the order.  What a sort leaves that nobody disturbed
\* has each line once, in order.
WordsSurvive ==
  ~Partial /\ ~spoilt =>
    /\ WordsOf(file) = wanted
    /\ neat => Ascending(file)
=============================================================================
