--------------------------- MODULE ScriptedBuild ---------------------------
(***************************************************************************)
(* Builds of the oneDAL pages with scripts/oneapi.py.                      *)
(*                                                                         *)
(* `oneapi.py html` (or latexpdf, ...) runs doxygen itself (prep) before   *)
(* it starts Sphinx, whose incremental build is DalapiBuild.  prep skips   *)
(* doxygen when up_to_date(index.xml, Doxyfile + include/ ** ).  It says   *)
(* so inside cd(root), of paths that begin with root: a relative root is   *)
(* doubled, index.xml is not found, and doxygen always runs.               *)
(*                                                                         *)
(* All targets share build/doctrees: `page` of DalapiBuild is here the     *)
(* doctree of a document, from which Sphinx (external) writes the output   *)
(* once it has pickled the environment.  The html builder writes the       *)
(* documents just read and those whose source is newer than their page;    *)
(* the other targets write everything, so only html remembers its output.  *)
(***************************************************************************)
EXTENDS DalapiBuild

CONSTANTS
  AbsoluteRoot,    \* the driver is given an absolute root (or `.`, started inside
                   \* oneDAL: joined twice, that is the same place)
  Targets,         \* the targets people build
  MaxBuilds        \* bound on the builds started

ASSUME ScriptAssumption ==
  AbsoluteRoot \in BOOLEAN /\ "html" \in Targets /\ MaxBuilds \in Nat

VARIABLES
  builds,        \* builds started so far
  script,        \* where the driver is
  target,        \* what it builds
  indexStamp,    \* mtime of index.xml, 0 if there is none
  includeStamp,  \* the newest mtime of the files and directories of include/
  toWrite,       \* documents the running build is to write
  html,          \* document -> the entries on its html page
  htmlVer,       \* document -> version of its source when the page was written
  steady,        \* history: no edit since the driver was started
  done,          \* history: ... and it has ended well
  skipped        \* history: documents read by builds that wrote no html

out    == <<toWrite, html, htmlVer>>
driver == <<builds, script, target, steady, done, skipped>>
svars  == <<driver, indexStamp, includeStamp, out>>

ScriptInit ==
  /\ Init
  /\ builds = 0 /\ script = "idle" /\ target = "html"
  /\ indexStamp = 0 /\ includeStamp = 1
  /\ toWrite = {} /\ html = page /\ htmlVer = read
  /\ steady = FALSE /\ done = FALSE /\ skipped = {}

-----------------------------------------------------------------------------
\* Writing or deleting a header also stamps it or its directory.
ScriptEdit ==
  /\ \/ (\E h \in Headers : EditHeader(h) \/ DeleteHeader(h))
        /\ includeStamp' = now'
     \/ (\E d \in Docs, u \in SUBSET Headers : EditDoc(d, u))
        /\ UNCHANGED includeStamp
  /\ steady' = FALSE /\ done' = FALSE
  /\ UNCHANGED <<builds, script, target, skipped, indexStamp, out>>

\* oneapi.py clean removes build/: environment, doctrees and pages, not the XML.
Clean ==
  /\ script = "idle"
  /\ linked' = [d \in Docs |-> 0] /\ read' = linked' /\ text' = linked' /\ htmlVer' = linked'
  /\ page' = [d \in Docs |-> {}] /\ html' = page'
  /\ mlinked' = linked' /\ mread' = read' /\ mtext' = text' /\ draft' = page'
  /\ calm' = FALSE /\ quiet' = 0
  /\ steady' = FALSE /\ done' = FALSE /\ skipped' = {}
  /\ UNCHANGED <<now, faults, files, xml, pc, timers, parsed, reader, late,
                 builds, script, target, indexStamp, includeStamp, toWrite>>

-----------------------------------------------------------------------------
(* The driver up to Sphinx.                                                *)

\* Mutant: the paths are not doubled.
UpToDate_SinglePath == indexStamp # 0 /\ includeStamp <= indexStamp

\* Mutant: that the XML exists is enough.
UpToDate_Exists == AbsoluteRoot /\ indexStamp # 0

UpToDate == AbsoluteRoot /\ indexStamp # 0 /\ includeStamp <= indexStamp

\* build(root, t): prep starts doxygen if the XML is not up to date.
Build(t) ==
  /\ script = "idle"
  /\ builds < MaxBuilds /\ builds' = builds + 1
  /\ target' = t
  /\ steady' = TRUE /\ done' = FALSE
  /\ IF UpToDate
     THEN script' = "sphinx" /\ UNCHANGED <<pc, parsed>>
     ELSE /\ script' = "prep" /\ pc' = "running"
          /\ parsed' = [h \in Headers |-> {hppVer[h]}]
  /\ UNCHANGED <<now, faults, files, xml, saved, memory, timers, reader, late,
                 counts, skipped, indexStamp, includeStamp, out>>

\* doxygen ends well; the elements after oneDAL touch nothing of oneDAL.
PrepEnds ==
  /\ script = "prep"
  /\ script' = "sphinx" /\ pc' = "idle"
  /\ DoxygenWrites /\ indexStamp' = xmlStamp'
  /\ UNCHANGED <<faults, files, saved, memory, timers, reader, counts, builds,
                 target, steady, done, skipped, includeStamp, out>>

\* A failing doxygen may or may not have come to index.xml.
HalfWrites(written) ==
  /\ DoxygenFails(written)
  /\ indexStamp' \in {indexStamp, IF written = {} THEN indexStamp ELSE xmlStamp'}

\* shell() raises, and nothing catches it: the driver ends.
PrepFails ==
  /\ script = "prep"
  /\ \E written \in SUBSET Headers : HalfWrites(written)
  /\ script' = "idle"
  /\ UNCHANGED <<builds, target, steady, done, skipped, includeStamp, out>>

\* Mutant: the driver leaves a running Sphinx behind.
LaterPrepFails_LeavesSphinx ==
  /\ script = "sphinx"
  /\ Fault
  /\ script' = "idle"
  /\ UNCHANGED <<now, files, xml, saved, pc, memory, timers, parsed, reader,
                 late, counts, builds, target, steady, done, skipped,
                 indexStamp, includeStamp, out>>

\* prep of a later element raises.
LaterPrepFails ==
  /\ script = "sphinx" /\ pc = "idle"
  /\ Fault
  /\ script' = "idle"
  /\ UNCHANGED <<now, files, xml, saved, pc, memory, timers, parsed, reader,
                 late, counts, builds, target, steady, done, skipped,
                 indexStamp, includeStamp, out>>

-----------------------------------------------------------------------------
(* sphinx(root, target).                                                   *)

\* The html builder looks for pages older than their source.
SphinxStarts ==
  /\ script = "sphinx" /\ StartBuild
  /\ toWrite' = {d \in Docs : rstVer[d] # htmlVer[d]}
  /\ UNCHANGED <<driver, indexStamp, includeStamp, html, htmlVer>>

\* What is read is written, too.
SphinxReads ==
  /\ script = "sphinx"
  /\ \/ \E d \in Docs : BeginDoc(d) /\ toWrite' = toWrite \cup {d}
     \/ /\ \/ RunDoxygen \/ CollectOutdated \/ Render \/ EndDoc
           \/ \E h \in Headers : LinkDocname(h)
        /\ UNCHANGED toWrite
  /\ UNCHANGED <<driver, indexStamp, includeStamp, html, htmlVer>>

SphinxDoxygenDone ==
  /\ script = "sphinx" /\ DoxygenDone
  /\ indexStamp' = xmlStamp'
  /\ UNCHANGED <<driver, includeStamp, out>>

SphinxPickles ==
  /\ script = "sphinx" /\ Commit
  /\ script' = "write"
  /\ UNCHANGED <<builds, target, steady, done, skipped, indexStamp, includeStamp, out>>

\* Mutant: pages are written by the mtime of their source only.
WriteHtml_BySource ==
  /\ html' = [d \in Docs |-> IF rstVer[d] # htmlVer[d] THEN page[d] ELSE html[d]]
  /\ htmlVer' = rstVer

\* A page gets the mtime of its writing, which is not older than that of the
\* source as it is then.
WriteHtml ==
  /\ html' = [d \in Docs |-> IF d \in toWrite THEN page[d] ELSE html[d]]
  /\ htmlVer' = [d \in Docs |-> IF d \in toWrite THEN rstVer[d] ELSE htmlVer[d]]

SphinxWrites ==
  /\ script = "write"
  /\ script' = "idle"
  /\ \/ target = "html" /\ WriteHtml /\ skipped' = skipped \ toWrite
     \/ /\ target # "html" /\ skipped' = skipped \cup toWrite
        /\ UNCHANGED <<html, htmlVer>>
  /\ toWrite' = {} /\ done' = steady
  /\ UNCHANGED <<vars, builds, target, steady, indexStamp, includeStamp>>

\* An error (under -W, a warning) once the environment is pickled.
SphinxFailsToWrite ==
  /\ script = "write"
  /\ Fault
  /\ script' = "idle" /\ toWrite' = {}
  /\ skipped' = skipped \cup toWrite
  /\ UNCHANGED <<now, files, xml, saved, pc, memory, timers, parsed, reader,
                 late, counts, builds, target, steady, done, indexStamp,
                 includeStamp, html, htmlVer>>

SphinxFails ==
  /\ script = "sphinx"
  /\ \/ (RenderFails \/ Interrupt) /\ UNCHANGED indexStamp
     \/ \E written \in SUBSET Headers : HalfWrites(written)
  /\ script' = "idle" /\ toWrite' = {}
  /\ UNCHANGED <<builds, target, steady, done, skipped, includeStamp, html, htmlVer>>

-----------------------------------------------------------------------------
ScriptNext ==
  \/ ScriptEdit \/ Clean
  \/ \E t \in Targets : Build(t)
  \/ PrepEnds \/ PrepFails \/ LaterPrepFails
  \/ SphinxStarts \/ SphinxReads \/ SphinxDoxygenDone \/ SphinxPickles
  \/ SphinxWrites \/ SphinxFailsToWrite \/ SphinxFails

ScriptSpec == ScriptInit /\ [][ScriptNext]_<<vars, svars>>

-----------------------------------------------------------------------------
\* Type invariant, and the phases of the driver: doxygen and Sphinx never run
\* together, and nothing runs when the driver has ended.
ScriptTypeOK ==
  /\ builds \in Nat
  /\ script \in {"idle", "prep", "sphinx", "write"} /\ target \in Targets
  /\ indexStamp \in Nat /\ includeStamp \in Nat
  /\ toWrite \subseteq Docs /\ skipped \subseteq Docs
  /\ html \in [Docs -> SUBSET Entries] /\ htmlVer \in [Docs -> Nat]
  /\ steady \in BOOLEAN /\ done \in BOOLEAN
  /\ script = "prep" => pc = "running"
  /\ script \in {"idle", "write"} => pc = "idle"

\* One scripted build brings every doctree up to date, where Sphinx alone needs
\* two: doxygen has run before Sphinx looks at the times.  With a relative root
\* it even makes up for what the mtimes hide (`late`), because doxygen runs
\* whatever they say.
ScriptedBuildSuffices ==
  done => \A d \in Docs :
    Fresh(d) \/ (AbsoluteRoot /\ uses[d] \cap late # {}) \/ Overlooked(d)

\* Targets share doctrees, so a build of one uses up the reasons to read a
\* document again, and html then sees nothing newer than its page.  The html of
\* a document read by a build that wrote no html is brought up to date by the
\* doxygen run of the next html build (which makes the document outdated again)
\* -- unless that is skipped, or the document has no directives.
HtmlIsCurrent ==
  done /\ target = "html" =>
    \A d \in Docs :
      \/ html[d] = {Entry(h, hppVer[h], hppVer[h]) : h \in uses[d]}
      \/ AbsoluteRoot /\ (uses[d] \cap late # {} \/ d \in skipped)
      \/ linked[d] = 0 /\ d \in skipped
      \/ Overlooked(d)

-----------------------------------------------------------------------------
(* Why one scripted build suffices.                                        *)

\* include/ is as new as its headers, the XML as new as its index.
StampsInv ==
  /\ includeStamp <= now /\ indexStamp <= xmlStamp
  /\ \A h \in Headers : hppStamp[h] <= includeStamp

\* The doxygen run of prep disturbs nothing of Sphinx's, which is not running.
PrepInv ==
  script = "prep" =>
    /\ mlinked = linked /\ mread = read /\ mtext = text /\ draft = page /\ todo = {}
    /\ steady => \A h \in Headers : parsed[h] = {hppVer[h]}

\* An undisturbed Sphinx finds the XML newer than every header, and so compares
\* the links with the XML as it is.  With a relative root the XML is newer than
\* every link, too: every linked document is read, and written.
SteadyInv ==
  steady /\ script = "sphinx" =>
    /\ \A h \in Headers : ~NewerThanXml(h)
    /\ pc # "idle" => /\ pc \in {"outdated", "read", "render"}
                      /\ xml_mtime = xmlStamp
                      /\ \A d \in Docs \ (todo \cup {cur}) : mread[d] = rstVer[d]
    /\ pc \in {"read", "render"} =>
         \A d \in Docs \ todo : OnlyLateIsStale(draft[d])
    /\ ~AbsoluteRoot =>
         /\ late = {}
         /\ pc \in {"idle", "outdated"} => \A d \in Docs : mlinked[d] < xmlStamp
         /\ pc \in {"read", "render"} =>
              \A d \in Docs : d \in todo \cup toWrite \/ mlinked[d] = 0

\* What such a build has saved, and written.
SavedInv ==
  /\ done => script = "idle"
  /\ (steady /\ script = "write") \/ done =>
       /\ \A d \in Docs : read[d] = rstVer[d] /\ OnlyLateIsStale(page[d])
       /\ ~AbsoluteRoot => late = {}
  /\ steady /\ script = "write" /\ ~AbsoluteRoot =>
       \A d \in Docs : d \in toWrite \/ linked[d] = 0
  /\ done /\ target = "html" /\ ~AbsoluteRoot =>
       \A d \in Docs : d \notin skipped \/ linked[d] = 0

\* The html of a document is its doctree, unless another target, or a failure to
\* write, has kept it from being written.
HtmlInv ==
  /\ script = "sphinx" => /\ cur # None => cur \in toWrite
                         /\ \A d \in Docs \ toWrite : draft[d] = page[d]
  /\ \A d \in Docs :
       html[d] = page[d] \/ d \in skipped \/ (script = "write" /\ d \in toWrite)

\* The strengthening of ScriptedBuildSuffices and HtmlIsCurrent.
ScriptInv ==
  /\ TypeOK /\ ScriptTypeOK
  /\ BuildInv /\ LinkInv /\ VersionInv /\ NamesInv
  /\ StampsInv /\ PrepInv /\ SteadyInv /\ SavedInv /\ HtmlInv
=============================================================================
