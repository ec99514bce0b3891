---------------------------- MODULE DalapiBuild ----------------------------
(***************************************************************************)
(* The incremental build of the oneDAL pages.                              *)
(*                                                                         *)
(* The `dalapi` Sphinx extension renders C++ headers into documents: a     *)
(* document names entities (one directive each), doxygen turns the headers *)
(* into XML, a directive combines the XML with an excerpt of the header    *)
(* (the listing).  ProjectWatcher decides, from modification times alone,  *)
(* when doxygen must run again and which documents must be read again.     *)
(*                                                                         *)
(* One header declares one entity here, so a directive names a header.     *)
(* Contents are versions: 0 is "no such file" (or no entry in the XML),    *)
(* every edit makes a version never seen before.                           *)
(*                                                                         *)
(* Sphinx (external) loads the pickled environment, asks the extension for *)
(* outdated documents, reads them one by one, pickles the environment and  *)
(* writes the pages.  An exception, or an interrupt, ends the process with *)
(* neither environment nor pages saved.  Pickling and writing are one step *)
(* here.  Edits of headers and documents interleave with every step.       *)
(***************************************************************************)
EXTENDS Naturals

CONSTANTS
  Headers,        \* the *.hpp files, each declaring one entity
  Docs,           \* the documents (*.rst)
  None,           \* "no document", "no directive"
  AlwaysRebuild,  \* DALAPI_ALWAYS_REBUILD
  EditTicks,      \* how far the clock moves before an edit: 0 is an edit
                  \* stamped in the same tick as what happened before it
  MaxEdits,       \* bound on the edits of a behaviour
  MaxFaults       \* bound on the failed and interrupted builds

ASSUME ConstantsAssumption ==
  /\ None \notin Headers /\ None \notin Docs
  /\ AlwaysRebuild \in BOOLEAN
  /\ EditTicks \subseteq Nat
  /\ MaxEdits \in Nat /\ MaxFaults \in Nat

VARIABLES
  now,        \* the clock: the stamp of the last file written
  edits,      \* edits made so far; the next version is edits + 2
  faults,     \* failed and interrupted builds so far
  hppVer,     \* header -> version of its content
  hppStamp,   \* header -> its mtime
  xmlVer,     \* header -> version its XML was made from
  xmlStamp,   \* the newest mtime among the XML files, 0 if there is none
  rstVer,     \* document -> version of its source
  uses,       \* document -> the entities its directives name
  linked,     \* pickled env.dalapi_linked_docnames: document -> link time,
              \* 0 when the document is not linked
  read,       \* pickled environment: document -> version its source had when
              \* Sphinx stamped it as read (an older one is read again)
  text,       \* history: document -> source version its page was made of
  page,       \* document -> the entries on its published page
  pc,         \* where the build process is
  mlinked,    \* the process's linked, read, text and page, lost
  mread,      \*   unless the build completes
  mtext,
  draft,
  xml_mtime,  \* locals of get_outdated_docnames
  hpp_mtime,
  parsed,     \* header -> versions the running doxygen may have parsed
  todo,       \* documents still to be read
  cur,        \* document being read
  rest,       \* its directives still to be run
  dir,        \* the directive being run
  listing,    \* ListingReader's cache: header -> version of the excerpt
  late,       \* history: headers whose XML the mtimes cannot call outdated
  calm,       \* history: no edit since the running build started
  quiet       \* history: complete builds started since the last edit, up to 2

files  == <<hppVer, hppStamp, rstVer, uses, edits>>
xml    == <<xmlVer, xmlStamp>>
saved  == <<linked, read, text, page>>
memory == <<mlinked, mread, mtext, draft>>
timers == <<xml_mtime, hpp_mtime>>
reader == <<todo, cur, rest, dir, listing>>
counts == <<calm, quiet>>
vars   == <<now, faults, files, xml, saved, pc, memory, timers, parsed, reader,
            late, counts>>

Present == {h \in Headers : hppVer[h] # 0}

\* FileModificationTimer: t is the newest of the given stamps, 0 if none.
NewestOf(t, stamps) ==
  IF stamps = {} THEN t = 0 ELSE t \in stamps /\ \A s \in stamps : s <= t

\* What a directive for header h puts on the page.
Entry(h, x, l) == [h |-> h, xml |-> x, hpp |-> l]

NoListing == [h \in Headers |-> 0]
NoParse   == [h \in Headers |-> {}]

-----------------------------------------------------------------------------
\* A fresh checkout: nothing built, no XML.
Init ==
  /\ now = 1 /\ edits = 0 /\ faults = 0
  /\ hppVer = [h \in Headers |-> 1] /\ hppStamp = [h \in Headers |-> 1]
  /\ xmlVer = [h \in Headers |-> 0] /\ xmlStamp = 0
  /\ rstVer = [d \in Docs |-> 1] /\ uses \in [Docs -> SUBSET Headers]
  /\ linked = [d \in Docs |-> 0] /\ read = linked /\ text = linked
  /\ page = [d \in Docs |-> {}]
  /\ pc = "idle"
  /\ mlinked = linked /\ mread = read /\ mtext = text /\ draft = page
  /\ xml_mtime = 0 /\ hpp_mtime = 0 /\ parsed = NoParse
  /\ todo = {} /\ cur = None /\ rest = {} /\ dir = None
  /\ listing = NoListing
  /\ late = {} /\ calm = FALSE /\ quiet = 0

-----------------------------------------------------------------------------
(* People edit the files, whether or not a build is running.               *)

Edited == edits < MaxEdits /\ edits' = edits + 1 /\ calm' = FALSE /\ quiet' = 0

\* A header is written (or written again after a deletion).
EditHeader(h) ==
  /\ Edited
  /\ \E k \in EditTicks :
       /\ now' = now + k
       /\ hppStamp' = [hppStamp EXCEPT ![h] = now + k]
       /\ late' = IF now + k <= xmlStamp THEN late \cup {h} ELSE late
  /\ hppVer' = [hppVer EXCEPT ![h] = edits + 2]
  /\ parsed' = IF pc = "running"
               THEN [parsed EXCEPT ![h] = @ \cup {edits + 2}] ELSE parsed
  /\ UNCHANGED <<faults, rstVer, uses, xml, saved, pc, memory, timers, reader>>

DeleteHeader(h) ==
  /\ Edited
  /\ h \in Present
  /\ \E k \in EditTicks : now' = now + k
  /\ hppVer' = [hppVer EXCEPT ![h] = 0]
  /\ late' = late \cup {h}
  /\ parsed' = IF pc = "running"
               THEN [parsed EXCEPT ![h] = @ \cup {0}] ELSE parsed
  /\ UNCHANGED <<faults, hppStamp, rstVer, uses, xml, saved, pc, memory, timers,
                 reader>>

EditDoc(d, u) ==
  /\ Edited
  /\ rstVer' = [rstVer EXCEPT ![d] = edits + 2]
  /\ uses' = [uses EXCEPT ![d] = u]
  /\ UNCHANGED <<now, faults, hppVer, hppStamp, xml, saved, pc, memory, timers,
                 parsed, reader, late>>

-----------------------------------------------------------------------------
(* The build process.                                                      *)

\* Sphinx finds the documents it must read anyway; get_outdated_docnames
\* drops their links and reads both timers.
StartBuild ==
  /\ pc = "idle"
  /\ todo' = {d \in Docs : rstVer[d] # read[d]}
  /\ mlinked' = [d \in Docs |-> IF rstVer[d] # read[d] THEN 0 ELSE linked[d]]
  /\ xml_mtime' = xmlStamp
  /\ \E t \in {0} \cup {hppStamp[h] : h \in Present} :
       /\ NewestOf(t, {hppStamp[h] : h \in Present})
       /\ hpp_mtime' = t
       /\ pc' = IF xmlStamp < t THEN "doxygen" ELSE "outdated"
  /\ calm' = TRUE
  /\ UNCHANGED <<now, faults, files, xml, saved, mread, mtext, draft, parsed, cur,
                 rest, dir, listing, late, quiet>>

RunDoxygen ==
  /\ pc = "doxygen"
  /\ pc' = "running"
  /\ parsed' = [h \in Headers |-> {hppVer[h]}]
  /\ UNCHANGED <<now, faults, files, xml, saved, memory, timers, reader, late,
                 counts>>

\* Mutant: only the XML of the newest header is written.
DoxygenWrites_NewestOnly ==
  /\ now' = now + 1
  /\ xmlStamp' = now + 1
  /\ xmlVer' = [h \in Headers |->
                  IF hppStamp[h] = hpp_mtime THEN hppVer[h] ELSE xmlVer[h]]
  /\ late' = {h \in Headers : parsed[h] # {hppVer[h]}}
  /\ parsed' = NoParse

\* doxygen ends well: every XML file is written, from some version the header
\* had while doxygen was running.
DoxygenWrites ==
  /\ now' = now + 1
  /\ xmlStamp' = now + 1
  /\ \E v \in [Headers -> UNION {parsed[h] : h \in Headers}] :
       /\ \A h \in Headers : v[h] \in parsed[h]
       /\ xmlVer' = v
  /\ late' = {h \in Headers : parsed[h] # {hppVer[h]}}
  /\ parsed' = NoParse

DoxygenDone ==
  /\ pc = "running"
  /\ pc' = "outdated"
  /\ DoxygenWrites
  /\ UNCHANGED <<faults, files, saved, memory, timers, reader, counts>>

\* Mutant: a link is compared with the headers only.
Outdated_HppOnly(d) ==
  mlinked[d] # 0 /\ (AlwaysRebuild \/ mlinked[d] < hpp_mtime)

\* Mutant: DALAPI_ALWAYS_REBUILD is not looked at.
Outdated_NotForced(d) ==
  mlinked[d] # 0 /\ (mlinked[d] < xml_mtime \/ mlinked[d] < hpp_mtime)

\* The comparisons use the times read before doxygen ran.
Outdated(d) ==
  /\ mlinked[d] # 0
  /\ AlwaysRebuild \/ mlinked[d] < xml_mtime \/ mlinked[d] < hpp_mtime

\* Mutant: the outdated documents replace the modified ones.
CollectOutdated_Replaces ==
  /\ pc = "outdated"
  /\ pc' = "read"
  /\ todo' = {d \in Docs : Outdated(d)}
  /\ UNCHANGED <<now, faults, files, xml, saved, memory, timers, parsed, cur,
                 rest, dir, listing, late, counts>>

CollectOutdated ==
  /\ pc = "outdated"
  /\ pc' = "read"
  /\ todo' = todo \cup {d \in Docs : Outdated(d)}
  /\ UNCHANGED <<now, faults, files, xml, saved, memory, timers, parsed, cur,
                 rest, dir, listing, late, counts>>

\* Sphinx reads the source of the next document.
BeginDoc(d) ==
  /\ pc = "read" /\ cur = None
  /\ d \in todo
  /\ cur' = d
  /\ todo' = todo \ {d}
  /\ rest' = uses[d]
  /\ mtext' = [mtext EXCEPT ![d] = rstVer[d]]
  /\ draft' = [draft EXCEPT ![d] = {}]
  /\ UNCHANGED <<now, faults, files, xml, saved, pc, mlinked, mread, timers, parsed,
                 dir, listing, late, counts>>

\* Mutant: the directive does not link its document.
LinkDocname_Never(h) ==
  /\ pc = "read" /\ cur # None
  /\ h \in rest
  /\ pc' = "render"
  /\ dir' = h
  /\ UNCHANGED <<now, faults, files, xml, saved, memory, timers, parsed, todo,
                 cur, rest, listing, late, counts>>

\* Mutant: a link once made keeps its time.
LinkDocname_Once(h) ==
  /\ pc = "read" /\ cur # None
  /\ h \in rest
  /\ pc' = "render"
  /\ dir' = h
  /\ mlinked' = [mlinked EXCEPT ![cur] = IF @ = 0 THEN now ELSE @]
  /\ UNCHANGED <<now, faults, files, xml, saved, mread, mtext, draft, timers,
                 parsed, todo, cur, rest, listing, late, counts>>

\* A directive first links its document ...
LinkDocname(h) ==
  /\ pc = "read" /\ cur # None
  /\ h \in rest
  /\ pc' = "render"
  /\ dir' = h
  /\ mlinked' = [mlinked EXCEPT ![cur] = now]
  /\ UNCHANGED <<now, faults, files, xml, saved, mread, mtext, draft, timers,
                 parsed, todo, cur, rest, listing, late, counts>>

\* The excerpt a directive gets: cached for the whole process by name.
Excerpt(h) == IF listing[h] # 0 THEN listing[h] ELSE hppVer[h]

\* Mutant: an unknown entity, or a header that is not there, is shown as nothing.
Render_Unchecked ==
  /\ pc = "render"
  /\ pc' = "read"
  /\ draft' = [draft EXCEPT ![cur] =
                 @ \cup {Entry(dir, xmlVer[dir], Excerpt(dir))}]
  /\ listing' = [listing EXCEPT ![dir] = Excerpt(dir)]
  /\ rest' = rest \ {dir}
  /\ dir' = None
  /\ UNCHANGED <<now, faults, files, xml, saved, mlinked, mread, mtext, timers,
                 parsed, todo, cur, late, counts>>

\* ... then looks its entity up in the XML and excerpts the header.
Render ==
  /\ pc = "render"
  /\ xmlVer[dir] # 0 /\ Excerpt(dir) # 0
  /\ pc' = "read"
  /\ draft' = [draft EXCEPT ![cur] =
                 @ \cup {Entry(dir, xmlVer[dir], Excerpt(dir))}]
  /\ listing' = [listing EXCEPT ![dir] = Excerpt(dir)]
  /\ rest' = rest \ {dir}
  /\ dir' = None
  /\ UNCHANGED <<now, faults, files, xml, saved, mlinked, mread, mtext, timers,
                 parsed, todo, cur, late, counts>>

\* Sphinx stamps the document when it has read it: an edit made since BeginDoc
\* is older than that.
EndDoc ==
  /\ pc = "read" /\ cur # None /\ rest = {}
  /\ mread' = [mread EXCEPT ![cur] = rstVer[cur]]
  /\ cur' = None
  /\ UNCHANGED <<now, faults, files, xml, saved, pc, mlinked, mtext, draft, timers,
                 parsed, todo, rest, dir, listing, late, counts>>

\* Mutant: the cache of listings outlives the process.
ProcessEnds_KeepsListing ==
  /\ pc' = "idle"
  /\ xml_mtime' = 0 /\ hpp_mtime' = 0 /\ parsed' = NoParse
  /\ todo' = {} /\ cur' = None /\ rest' = {} /\ dir' = None
  /\ UNCHANGED listing

ProcessEnds ==
  /\ pc' = "idle"
  /\ xml_mtime' = 0 /\ hpp_mtime' = 0 /\ parsed' = NoParse
  /\ todo' = {} /\ cur' = None /\ rest' = {} /\ dir' = None
  /\ listing' = NoListing

\* Sphinx pickles the environment and writes the pages (if it read a document:
\* otherwise there is nothing new to save).  ScriptedBuild tells the two apart.
Commit ==
  /\ pc = "read" /\ cur = None /\ todo = {}
  /\ linked' = mlinked /\ read' = mread /\ text' = mtext /\ page' = draft
  /\ quiet' = IF ~calm \/ quiet = 2 THEN quiet ELSE quiet + 1
  /\ ProcessEnds
  /\ UNCHANGED <<now, faults, files, xml, memory, late, calm>>

\* The process ends without saving anything.
Abort ==
  /\ mlinked' = linked /\ mread' = read /\ mtext' = text /\ draft' = page
  /\ ProcessEnds
  /\ UNCHANGED <<files, saved, counts>>

\* KeyError from the index, no such header, or a listing that does not match
\* the line numbers of the XML (which may also yield a wrong excerpt: Render).
RenderFails ==
  /\ pc = "render"
  /\ \/ xmlVer[dir] = 0
     \/ Excerpt(dir) = 0
     \/ Excerpt(dir) # xmlVer[dir]
  /\ Abort
  /\ UNCHANGED <<now, faults, xml, late>>

Fault == faults < MaxFaults /\ faults' = faults + 1

\* doxygen is interrupted or exits with an error: check_call raises, the XML
\* files already written stay, one of them perhaps cut off (0).
DoxygenFails(written) ==
  /\ pc = "running"
  /\ Fault
  /\ IF written = {}
     THEN UNCHANGED <<now, xml, late>>
     ELSE /\ now' = now + 1
          /\ xmlStamp' = now + 1
          /\ \E v \in [Headers -> {0} \cup UNION {parsed[h] : h \in Headers}] :
               /\ \A h \in Headers : v[h] \in parsed[h] \cup {0}
               /\ xmlVer' = [h \in Headers |->
                               IF h \in written THEN v[h] ELSE xmlVer[h]]
          /\ late' = {h \in Headers : \/ h \in written /\ parsed[h] # {hppVer[h]}
                                      \/ xmlVer'[h] # hppVer[h]}
  /\ Abort

\* The build is interrupted anywhere else.
Interrupt ==
  /\ pc \notin {"idle", "running"}
  /\ Fault
  /\ Abort
  /\ UNCHANGED <<now, xml, late>>

-----------------------------------------------------------------------------
Edit ==
  \/ \E h \in Headers : EditHeader(h) \/ DeleteHeader(h)
  \/ \E d \in Docs, u \in SUBSET Headers : EditDoc(d, u)

BuildStep ==
  \/ StartBuild \/ RunDoxygen \/ DoxygenDone \/ CollectOutdated
  \/ \E d \in Docs : BeginDoc(d)
  \/ \E h \in Headers : LinkDocname(h)
  \/ Render \/ RenderFails \/ EndDoc \/ Commit

Failure ==
  \/ \E written \in SUBSET Headers : DoxygenFails(written)
  \/ Interrupt

Next == Edit \/ BuildStep \/ Failure

Spec == Init /\ [][Next]_vars

\* Somebody keeps building, and a build that is not interrupted proceeds.
LiveSpec == Spec /\ WF_vars(BuildStep)

-----------------------------------------------------------------------------
\* A page shows nothing of an entity that has no XML, or no header.
Entries == [h : Headers, xml : Nat \ {0}, hpp : Nat \ {0}]

\* Type invariant.
TypeOK ==
  /\ now \in Nat \ {0} /\ edits \in Nat /\ faults \in Nat
  /\ hppVer \in [Headers -> Nat] /\ hppStamp \in [Headers -> Nat]
  /\ xmlVer \in [Headers -> Nat] /\ xmlStamp \in Nat
  /\ rstVer \in [Docs -> Nat] /\ uses \in [Docs -> SUBSET Headers]
  /\ linked \in [Docs -> Nat]
  /\ read \in [Docs -> Nat] /\ text \in [Docs -> Nat]
  /\ page \in [Docs -> SUBSET Entries]
  /\ pc \in {"idle", "doxygen", "running", "outdated", "read", "render"}
  /\ mlinked \in [Docs -> Nat]
  /\ mread \in [Docs -> Nat] /\ mtext \in [Docs -> Nat]
  /\ draft \in [Docs -> SUBSET Entries]
  /\ xml_mtime \in Nat /\ hpp_mtime \in Nat
  /\ parsed \in [Headers -> SUBSET Nat]
  /\ todo \subseteq Docs /\ cur \in Docs \cup {None}
  /\ rest \subseteq Headers /\ dir \in Headers \cup {None}
  /\ pc = "render" => cur \in Docs /\ dir \in Headers
  /\ listing \in [Headers -> Nat]
  /\ late \subseteq Headers /\ calm \in BOOLEAN /\ quiet \in 0..2

-----------------------------------------------------------------------------
(* Safety.                                                                 *)

\* The header is newer than all the XML: the next build runs doxygen.
NewerThanXml(h) == h \in Present /\ xmlStamp < hppStamp[h]

Stale(e) == e.xml # hppVer[e.h] \/ e.hpp # hppVer[e.h]

\* XML that is not behind by its mtime was made from the headers as they are:
\* the test `xml_mtime < hpp_mtime` misses no edit but one made while doxygen
\* ran (or in the tick of its last file), a deletion, and what a failed run
\* left behind.
XmlTrust ==
  \A h \in Headers \ late : xmlVer[h] # hppVer[h] => NewerThanXml(h)

\* The next build runs doxygen for the header, or its mtime hides an edit.
Excused(h) == NewerThanXml(h) \/ h \in late

\* No page is silently stale: a page that shows an old version of a header is
\* one a later build reads again, because the XML is newer than its link or is
\* itself about to be made again.
NoSilentStaleness ==
  \A d \in Docs : \A e \in page[d] :
    Stale(e) => linked[d] < xmlStamp \/ Excused(e.h)

\* Every page rendered from headers is watched.
EveryRenderedPageIsLinked ==
  \A d \in Docs : page[d] # {} => linked[d] # 0

\* A page shows the current version of its document and of every entity the
\* document names, and nothing else.
Fresh(d) ==
  /\ read[d] = rstVer[d]
  /\ page[d] = {Entry(h, hppVer[h], hppVer[h]) : h \in uses[d]}

\* The document was edited while it was read, and has not been read since:
\* Sphinx does not see that.
Overlooked(d) == text[d] # read[d]

\* Two complete builds after the last edit bring every page up to date (one
\* does not: get_outdated_docnames compares with the mtime the XML had before
\* its own doxygen run) -- unless the edit cannot be seen.
TwoQuietBuildsSuffice ==
  quiet = 2 => \A d \in Docs : Fresh(d) \/ uses[d] \cap late # {} \/ Overlooked(d)

\* With DALAPI_ALWAYS_REBUILD one complete build does: every linked document is
\* read after doxygen ran.
OneForcedBuildSuffices ==
  AlwaysRebuild /\ quiet >= 1 =>
    \A d \in Docs : Fresh(d) \/ uses[d] \cap late # {} \/ Overlooked(d)

\* ... and a third reads nothing, except a document that lost its directives
\* while a build was running: it stays linked with nothing to renew the link.
ThirdBuildReadsNothing ==
  ~AlwaysRebuild /\ quiet = 2 /\ calm /\ pc = "read" =>
    \A d \in todo \cup ({cur} \ {None}) : uses[d] = {}

-----------------------------------------------------------------------------
(* Why NoSilentStaleness holds: the inductive invariant.                   *)

\* No stamp is in the future; a link is stamped after the first file.
ClockInv ==
  /\ xmlStamp <= now
  /\ \A h \in Headers : hppStamp[h] <= now
  /\ \A d \in Docs : linked[d] <= now /\ mlinked[d] <= now

\* doxygen's candidates always include the header as it is.
ParsedInv == pc = "running" => \A h \in Headers : hppVer[h] \in parsed[h]

\* A cached excerpt is the header's, or the header has changed since.
ListingInv ==
  /\ pc \notin {"read", "render"} => listing = NoListing
  /\ \A h \in Headers :
       listing[h] # 0 => listing[h] = hppVer[h] \/ Excused(h)

\* A page in the making is no staler than a saved one, once its document is
\* not to be read any more; an idle process has none of its own.
DraftInv ==
  /\ pc = "idle" => mlinked = linked /\ draft = page /\ todo = {}
  /\ \A d \in Docs \ todo : \A e \in draft[d] :
       Stale(e) => mlinked[d] < xmlStamp \/ Excused(e.h)

\* The one being read is excused whatever its link says: every directive moves
\* its link forward.
CurInv ==
  /\ pc = "render" => cur # None
  /\ cur # None => pc \in {"read", "render"} /\ cur \notin todo
  /\ \A d \in Docs : d = cur => \A e \in draft[d] : Stale(e) => Excused(e.h)

\* The strengthening of XmlTrust and NoSilentStaleness that every step keeps.
BuildInv ==
  /\ ClockInv /\ ParsedInv /\ XmlTrust /\ ListingInv
  /\ NoSilentStaleness /\ DraftInv /\ CurInv

\* A page with entries, saved or in the making, is linked -- unless its document
\* is still to be read, when the page begins anew.
LinkInv ==
  /\ EveryRenderedPageIsLinked
  /\ \A d \in Docs \ todo : draft[d] # {} => mlinked[d] # 0
  /\ pc = "render" => mlinked[cur] # 0

-----------------------------------------------------------------------------
(* Why two builds suffice: what becomes true while nobody edits.           *)

\* The headers that have an entry on a page.
Named(es) == {e.h : e \in es}

\* No document was read in a version that is still to come; 0 is not a version.
VersionInv ==
  \A d \in Docs :
    /\ 0 < rstVer[d] /\ rstVer[d] <= edits + 1
    /\ read[d] <= edits + 1 /\ mread[d] <= edits + 1
    /\ text[d] <= edits + 1 /\ mtext[d] <= edits + 1

\* A page names what its document named when it was read; the page in the making
\* lacks the directives still to be run.
NamesInv ==
  /\ pc = "idle" => mread = read /\ mtext = text /\ cur = None
  /\ pc = "render" => dir \in rest
  /\ \A d \in Docs : text[d] = rstVer[d] => Named(page[d]) = uses[d]
  /\ \A d \in Docs : mtext[d] = rstVer[d] =>
       IF d = cur THEN rest \subseteq uses[d] /\ Named(draft[d]) = uses[d] \ rest
       ELSE Named(draft[d]) = uses[d]

\* Once an undisturbed build is past doxygen no header is newer than the XML, and
\* it leaves no document behind its source; after it no build runs doxygen.
CalmInv ==
  /\ quiet > 0 => /\ calm /\ pc \notin {"doxygen", "running"}
                  /\ \A d \in Docs : read[d] = rstVer[d]
                  /\ pc # "idle" => xml_mtime = xmlStamp /\ hpp_mtime <= xmlStamp
  /\ quiet > 0 \/ (calm /\ pc \in {"outdated", "read", "render"}) =>
       \A h \in Headers : ~NewerThanXml(h)
  /\ calm /\ pc # "idle" => \A d \in Docs \ (todo \cup {cur}) : mread[d] = rstVer[d]
  /\ calm /\ cur # None => mtext[cur] = rstVer[cur]

OnlyLateIsStale(es) == \A e \in es : Stale(e) => e.h \in late

\* An undisturbed build that compares links with the XML as it is, or is told to
\* read every page, leaves nothing stale behind.
FreshInv ==
  /\ calm /\ pc \in {"read", "render"} /\ (AlwaysRebuild \/ xml_mtime = xmlStamp) =>
       \A d \in Docs \ todo : OnlyLateIsStale(draft[d])
  /\ quiet = 2 \/ (AlwaysRebuild /\ quiet > 0) =>
       \A d \in Docs : OnlyLateIsStale(page[d])

\* There is nothing to read document d for.
NothingNew(d, link) == uses[d] = {} \/ link = 0 \/ xmlStamp <= link

\* The second build in a row leaves nothing to read for the third.
RestInv ==
  /\ quiet > 0 /\ pc \in {"read", "render"} =>
       \A d \in Docs \ todo :
         IF d = cur THEN draft[d] # {} \/ pc = "render" => xmlStamp <= mlinked[d]
         ELSE NothingNew(d, mlinked[d])
  /\ quiet = 2 =>
       \A d \in Docs : NothingNew(d, linked[d]) /\ NothingNew(d, mlinked[d])
  /\ quiet = 2 /\ ~AlwaysRebuild =>
       \A d \in todo \cup ({cur} \ {None}) : uses[d] = {}

\* The strengthening of TwoQuietBuildsSuffice, OneForcedBuildSuffices and
\* ThirdBuildReadsNothing.
QuietInv ==
  /\ BuildInv /\ LinkInv
  /\ VersionInv /\ NamesInv /\ CalmInv /\ FreshInv /\ RestInv

-----------------------------------------------------------------------------
(* Liveness.                                                               *)

\* Once the edits are over, every page becomes and stays fresh -- unless the
\* mtimes hide an edit, or a document names an entity no header declares.
EventuallyFresh ==
  <>[](\/ \A d \in Docs : Fresh(d)
       \/ late # {}
       \/ \E d \in Docs : Overlooked(d)
       \/ \E d \in Docs : \E h \in uses[d] : h \notin Present)
=============================================================================
