--------------------------- MODULE Builds_proofs ---------------------------
(***************************************************************************)
(* Proofs about the incremental build (DalapiBuild) and the build that the *)
(* driver starts (ScriptedBuild), for every set of headers, documents and  *)
(* targets, every bound on edits, faults and builds, and every set of      *)
(* clock ticks, whether or not the driver's root is absolute and whether   *)
(* or not every page is always read again.                                 *)
(***************************************************************************)
EXTENDS ScriptedBuild, TLAPS

-----------------------------------------------------------------------------
(* The incremental build.                                                  *)

\* The variables keep their types ...
LEMMA TypeOKNext == TypeOK /\ [Next]_vars => TypeOK'
<1> SUFFICES ASSUME TypeOK, [Next]_vars PROVE TypeOK'
  OBVIOUS
<1> USE ConstantsAssumption DEF TypeOK, files, xml, saved, memory, timers,
        reader, counts
<1>1. ASSUME NEW h \in Headers, EditHeader(h) PROVE TypeOK'
  <2>1. calm' \in BOOLEAN
    BY <1>1, Zenon DEF EditHeader, Edited
  <2> QED
    BY <1>1, <2>1 DEF EditHeader, Edited
<1>2. ASSUME NEW h \in Headers, DeleteHeader(h) PROVE TypeOK'
  <2>1. calm' \in BOOLEAN
    BY <1>2, Zenon DEF DeleteHeader, Edited
  <2> QED
    BY <1>2, <2>1 DEF DeleteHeader, Edited
<1>3. ASSUME NEW d \in Docs, NEW u \in SUBSET Headers, EditDoc(d, u)
      PROVE TypeOK'
  <2>1. calm' \in BOOLEAN
    BY <1>3, Zenon DEF EditDoc, Edited
  <2> QED
    BY <1>3, <2>1 DEF EditDoc, Edited
<1>4. CASE StartBuild
  BY <1>4 DEF StartBuild, Present
<1>5. CASE RunDoxygen
  BY <1>5 DEF RunDoxygen
<1>6. CASE DoxygenDone
  BY <1>6 DEF DoxygenDone, DoxygenWrites, NoParse
<1>7. CASE CollectOutdated
  BY <1>7 DEF CollectOutdated
<1>8. ASSUME NEW d \in Docs, BeginDoc(d) PROVE TypeOK'
  BY <1>8 DEF BeginDoc
<1>9. ASSUME NEW h \in Headers, LinkDocname(h) PROVE TypeOK'
  BY <1>9 DEF LinkDocname
<1>10. CASE Render
  BY <1>10 DEF Render, Excerpt, Entry, Entries
<1>11. CASE RenderFails
  BY <1>11 DEF RenderFails, Abort, ProcessEnds, NoParse, NoListing
<1>12. CASE EndDoc
  BY <1>12 DEF EndDoc
<1>13. CASE Commit
  BY <1>13 DEF Commit, ProcessEnds, NoParse, NoListing
<1>14. ASSUME NEW written \in SUBSET Headers, DoxygenFails(written)
       PROVE TypeOK'
  BY <1>14 DEF DoxygenFails, Fault, Abort, ProcessEnds, NoParse, NoListing
<1>15. CASE Interrupt
  BY <1>15 DEF Interrupt, Fault, Abort, ProcessEnds, NoParse, NoListing
<1>16. CASE UNCHANGED vars
  BY <1>16 DEF vars
<1> QED
  BY <1>1, <1>2, <1>3, <1>4, <1>5, <1>6, <1>7, <1>8, <1>9, <1>10, <1>11,
     <1>12, <1>13, <1>14, <1>15, <1>16
     DEF Next, Edit, BuildStep, Failure

\* ... in every state.
THEOREM TypeCorrect == Spec => []TypeOK
<1>1. Init => TypeOK
  <2>1. Init => calm \in BOOLEAN
    BY Zenon DEF Init
  <2> QED
    BY <2>1, ConstantsAssumption DEF Init, TypeOK, NoParse, NoListing
<1> QED
  BY <1>1, TypeOKNext, PTL DEF Spec

-----------------------------------------------------------------------------
\* The inductive invariant holds in a fresh checkout ...
LEMMA BuildInvInit == Init => BuildInv
  BY ConstantsAssumption
     DEF Init, BuildInv, ClockInv, ParsedInv, XmlTrust, NewerThanXml, Present,
         ListingInv, NoListing, NoSilentStaleness, DraftInv, CurInv

\* ... and every step keeps it.  Each action has a step, and under it one for
\* the conjuncts the action disturbs in the same way.
LEMMA BuildInvNext == TypeOK /\ TypeOK' /\ BuildInv /\ [Next]_vars => BuildInv'
<1> SUFFICES ASSUME TypeOK, TypeOK', BuildInv, [Next]_vars PROVE BuildInv'
  OBVIOUS
<1> USE ConstantsAssumption
        DEF TypeOK, BuildInv, files, xml, saved, memory, timers, reader, counts,
            Stale, Excused, NewerThanXml, Present, Entries, NoListing
<1>1. ASSUME NEW h \in Headers, EditHeader(h) PROVE BuildInv'
  <2>1. ClockInv' /\ ParsedInv'
    BY <1>1 DEF EditHeader, Edited, ClockInv, ParsedInv
  <2>2. XmlTrust'
    BY <1>1 DEF EditHeader, Edited, XmlTrust
  <2>3. ListingInv'
    BY <1>1 DEF EditHeader, Edited, ListingInv
  <2>4. NoSilentStaleness'
    BY <1>1 DEF EditHeader, Edited, NoSilentStaleness
  <2>5. DraftInv'
    BY <1>1 DEF EditHeader, Edited, DraftInv
  <2>6. CurInv'
    BY <1>1 DEF EditHeader, Edited, CurInv
  <2> QED
    BY <2>1, <2>2, <2>3, <2>4, <2>5, <2>6
<1>2. ASSUME NEW h \in Headers, DeleteHeader(h) PROVE BuildInv'
  <2>1. ClockInv' /\ ParsedInv'
    BY <1>2 DEF DeleteHeader, Edited, ClockInv, ParsedInv
  <2>2. XmlTrust'
    BY <1>2 DEF DeleteHeader, Edited, XmlTrust
  <2>3. ListingInv'
    BY <1>2 DEF DeleteHeader, Edited, ListingInv
  <2>4. NoSilentStaleness'
    BY <1>2 DEF DeleteHeader, Edited, NoSilentStaleness
  <2>5. DraftInv'
    BY <1>2 DEF DeleteHeader, Edited, DraftInv
  <2>6. CurInv'
    BY <1>2 DEF DeleteHeader, Edited, CurInv
  <2> QED
    BY <2>1, <2>2, <2>3, <2>4, <2>5, <2>6
\* No file the invariant is about changes.
<1>3. ASSUME NEW d \in Docs, NEW u \in SUBSET Headers, EditDoc(d, u) PROVE BuildInv'
  <2>1. ClockInv' /\ ParsedInv' /\ XmlTrust' /\ ListingInv'
    BY <1>3 DEF EditDoc, Edited, ClockInv, ParsedInv, XmlTrust, ListingInv
  <2>2. NoSilentStaleness' /\ DraftInv' /\ CurInv'
    BY <1>3 DEF EditDoc, Edited, NoSilentStaleness, DraftInv, CurInv
  <2> QED
    BY <2>1, <2>2
\* Mlinked is linked but for the documents to be read.
<1>4. CASE StartBuild
  <2>1. ClockInv' /\ ParsedInv' /\ XmlTrust' /\ ListingInv' /\ NoSilentStaleness' /\ CurInv'
    BY <1>4 DEF StartBuild, ClockInv, ParsedInv, XmlTrust, ListingInv,
        NoSilentStaleness, CurInv
  <2>2. DraftInv'
    BY <1>4 DEF StartBuild, DraftInv
  <2> QED
    BY <2>1, <2>2
<1>5. CASE RunDoxygen
  <2>1. ParsedInv'
    BY <1>5 DEF RunDoxygen, ParsedInv
  <2>2. ClockInv' /\ XmlTrust' /\ ListingInv'
    BY <1>5 DEF RunDoxygen, ClockInv, XmlTrust, ListingInv
  <2>3. NoSilentStaleness' /\ DraftInv' /\ CurInv'
    BY <1>5 DEF RunDoxygen, NoSilentStaleness, DraftInv, CurInv
  <2> QED
    BY <2>1, <2>2, <2>3
\* The XML becomes newer than every link.
<1>6. CASE DoxygenDone
  <2>1. ClockInv' /\ ParsedInv'
    BY <1>6 DEF DoxygenDone, DoxygenWrites, ClockInv, ParsedInv
  <2>2. XmlTrust'
    BY <1>6 DEF DoxygenDone, DoxygenWrites, XmlTrust, ParsedInv
  <2>3. ListingInv'
    BY <1>6 DEF DoxygenDone, DoxygenWrites, ListingInv
  <2>4. NoSilentStaleness' /\ DraftInv'
    BY <1>6 DEF DoxygenDone, DoxygenWrites, NoSilentStaleness, DraftInv,
        ClockInv
  <2>5. CurInv'
    BY <1>6 DEF DoxygenDone, DoxygenWrites, CurInv
  <2> QED
    BY <2>1, <2>2, <2>3, <2>4, <2>5
<1>7. CASE CollectOutdated
  <2>1. ClockInv' /\ ParsedInv' /\ XmlTrust' /\ ListingInv'
    BY <1>7 DEF CollectOutdated, ClockInv, ParsedInv, XmlTrust, ListingInv
  <2>2. NoSilentStaleness' /\ CurInv'
    BY <1>7 DEF CollectOutdated, NoSilentStaleness, CurInv
  <2>3. DraftInv'
    BY <1>7 DEF CollectOutdated, DraftInv
  <2> QED
    BY <2>1, <2>2, <2>3
\* The page begins empty.
<1>8. ASSUME NEW d \in Docs, BeginDoc(d) PROVE BuildInv'
  <2>1. ClockInv' /\ ParsedInv' /\ XmlTrust' /\ ListingInv'
    BY <1>8 DEF BeginDoc, ClockInv, ParsedInv, XmlTrust, ListingInv
  <2>2. NoSilentStaleness'
    BY <1>8 DEF BeginDoc, NoSilentStaleness
  <2>3. DraftInv'
    BY <1>8 DEF BeginDoc, DraftInv
  <2>4. CurInv'
    BY <1>8 DEF BeginDoc, CurInv
  <2> QED
    BY <2>1, <2>2, <2>3, <2>4
\* The link moves forward: CurInv excuses what it no longer does.
<1>9. ASSUME NEW h \in Headers, LinkDocname(h) PROVE BuildInv'
  <2>1. ClockInv' /\ ParsedInv' /\ XmlTrust' /\ ListingInv'
    BY <1>9 DEF LinkDocname, ClockInv, ParsedInv, XmlTrust, ListingInv
  <2>2. NoSilentStaleness'
    BY <1>9 DEF LinkDocname, NoSilentStaleness
  <2>3. DraftInv'
    BY <1>9 DEF LinkDocname, DraftInv, CurInv
  <2>4. CurInv'
    BY <1>9 DEF LinkDocname, CurInv
  <2> QED
    BY <2>1, <2>2, <2>3, <2>4
\* XmlTrust and ListingInv excuse the new entry.
<1>10. CASE Render
  <2>1. ClockInv' /\ ParsedInv' /\ XmlTrust'
    BY <1>10 DEF Render, Entry, Excerpt, ClockInv, ParsedInv, XmlTrust
  <2>2. ListingInv'
    BY <1>10 DEF Render, Entry, Excerpt, ListingInv
  <2>3. NoSilentStaleness'
    BY <1>10 DEF Render, Entry, Excerpt, NoSilentStaleness
  <2>4. DraftInv'
    BY <1>10 DEF Render, Entry, Excerpt, DraftInv, XmlTrust, ListingInv
  <2>5. CurInv'
    BY <1>10 DEF Render, Entry, Excerpt, CurInv, XmlTrust, ListingInv
  <2> QED
    BY <2>1, <2>2, <2>3, <2>4, <2>5
\* What is left is what was saved.
<1>11. CASE RenderFails
  <2>1. ClockInv' /\ ParsedInv' /\ XmlTrust'
    BY <1>11 DEF RenderFails, Abort, ProcessEnds, ClockInv, ParsedInv, XmlTrust
  <2>2. ListingInv'
    BY <1>11 DEF RenderFails, Abort, ProcessEnds, ListingInv
  <2>3. NoSilentStaleness' /\ CurInv'
    BY <1>11 DEF RenderFails, Abort, ProcessEnds, NoSilentStaleness, CurInv
  <2>4. DraftInv'
    BY <1>11 DEF RenderFails, Abort, ProcessEnds, DraftInv, NoSilentStaleness
  <2> QED
    BY <2>1, <2>2, <2>3, <2>4
<1>12. CASE EndDoc
  <2>1. ClockInv' /\ ParsedInv' /\ XmlTrust' /\ ListingInv'
    BY <1>12 DEF EndDoc, ClockInv, ParsedInv, XmlTrust, ListingInv
  <2>2. NoSilentStaleness' /\ DraftInv' /\ CurInv'
    BY <1>12 DEF EndDoc, NoSilentStaleness, DraftInv, CurInv
  <2> QED
    BY <2>1, <2>2
\* Nothing is left to be read, so DraftInv covers every page.
<1>13. CASE Commit
  <2>1. ClockInv' /\ ParsedInv' /\ XmlTrust'
    BY <1>13 DEF Commit, ProcessEnds, ClockInv, ParsedInv, XmlTrust
  <2>2. ListingInv'
    BY <1>13 DEF Commit, ProcessEnds, ListingInv
  <2>3. NoSilentStaleness'
    BY <1>13 DEF Commit, ProcessEnds, NoSilentStaleness, DraftInv
  <2>4. DraftInv' /\ CurInv'
    BY <1>13 DEF Commit, ProcessEnds, DraftInv, CurInv
  <2> QED
    BY <2>1, <2>2, <2>3, <2>4
<1>14. ASSUME NEW written \in SUBSET Headers, DoxygenFails(written) PROVE BuildInv'
  <2>1. ClockInv' /\ ParsedInv'
    BY <1>14 DEF DoxygenFails, Fault, Abort, ProcessEnds, ClockInv, ParsedInv
  <2>2. XmlTrust'
    BY <1>14 DEF DoxygenFails, Fault, Abort, ProcessEnds, XmlTrust, ParsedInv
  <2>3. ListingInv'
    BY <1>14 DEF DoxygenFails, Fault, Abort, ProcessEnds, ListingInv
  <2>4. NoSilentStaleness'
    BY <1>14 DEF DoxygenFails, Fault, Abort, ProcessEnds, NoSilentStaleness,
        ClockInv
  <2>5. DraftInv'
    BY <1>14 DEF DoxygenFails, Fault, Abort, ProcessEnds, DraftInv, ClockInv,
        NoSilentStaleness
  <2>6. CurInv'
    BY <1>14 DEF DoxygenFails, Fault, Abort, ProcessEnds, CurInv
  <2> QED
    BY <2>1, <2>2, <2>3, <2>4, <2>5, <2>6
<1>15. CASE Interrupt
  <2>1. ClockInv' /\ ParsedInv' /\ XmlTrust'
    BY <1>15 DEF Interrupt, Fault, Abort, ProcessEnds, ClockInv, ParsedInv,
        XmlTrust
  <2>2. ListingInv'
    BY <1>15 DEF Interrupt, Fault, Abort, ProcessEnds, ListingInv
  <2>3. NoSilentStaleness' /\ CurInv'
    BY <1>15 DEF Interrupt, Fault, Abort, ProcessEnds, NoSilentStaleness,
        CurInv
  <2>4. DraftInv'
    BY <1>15 DEF Interrupt, Fault, Abort, ProcessEnds, DraftInv,
        NoSilentStaleness
  <2> QED
    BY <2>1, <2>2, <2>3, <2>4
<1>16. CASE UNCHANGED vars
  <2>1. ClockInv' /\ ParsedInv' /\ XmlTrust' /\ ListingInv'
    BY <1>16 DEF vars, ClockInv, ParsedInv, XmlTrust, ListingInv
  <2>2. NoSilentStaleness' /\ DraftInv' /\ CurInv'
    BY <1>16 DEF vars, NoSilentStaleness, DraftInv, CurInv
  <2> QED
    BY <2>1, <2>2
<1> QED
  BY <1>1, <1>2, <1>3, <1>4, <1>5, <1>6, <1>7, <1>8, <1>9, <1>10,
     <1>11, <1>12, <1>13, <1>14, <1>15, <1>16
     DEF Next, Edit, BuildStep, Failure

\* The strengthening of XmlTrust and NoSilentStaleness, which every step keeps.
THEOREM BuildInvCorrect == Spec => []BuildInv
<1>1. Spec => []TypeOK
  BY TypeCorrect
<1> QED
  BY <1>1, BuildInvInit, BuildInvNext, PTL DEF Spec

\* Whatever people edit while builds run, fail or are interrupted, XML that
\* looks up to date is up to date for every header that is not late.
THEOREM XmlTrusted == Spec => []XmlTrust
<1>1. BuildInv => XmlTrust
  BY DEF BuildInv
<1> QED
  BY <1>1, BuildInvCorrect, PTL

\* ... and no page is stale without a later build noticing.
THEOREM StalenessIsNoticed == Spec => []NoSilentStaleness
<1>1. BuildInv => NoSilentStaleness
  BY DEF BuildInv
<1> QED
  BY <1>1, BuildInvCorrect, PTL

-----------------------------------------------------------------------------
\* Every step keeps the links of pages, also of those in the making.
LEMMA LinkInvNext ==
  TypeOK /\ BuildInv /\ LinkInv /\ [Next]_vars => LinkInv'
<1> SUFFICES ASSUME TypeOK, BuildInv, LinkInv, [Next]_vars PROVE LinkInv'
  OBVIOUS
<1>0. DraftInv /\ CurInv
  BY DEF BuildInv
<1> USE <1>0 DEF TypeOK, DraftInv, CurInv, LinkInv, EveryRenderedPageIsLinked,
        files, xml, saved, memory, timers, reader, counts
<1>1. ASSUME NEW h \in Headers, EditHeader(h) PROVE LinkInv'
  BY <1>1 DEF EditHeader, Edited
<1>2. ASSUME NEW h \in Headers, DeleteHeader(h) PROVE LinkInv'
  BY <1>2 DEF DeleteHeader, Edited
<1>3. ASSUME NEW d \in Docs, NEW u \in SUBSET Headers, EditDoc(d, u) PROVE LinkInv'
  BY <1>3 DEF EditDoc, Edited
<1>4. ASSUME NEW d \in Docs, BeginDoc(d) PROVE LinkInv'
  BY <1>4 DEF BeginDoc
<1>5. ASSUME NEW h \in Headers, LinkDocname(h) PROVE LinkInv'
  BY <1>5 DEF LinkDocname
<1>6. ASSUME NEW written \in SUBSET Headers, DoxygenFails(written) PROVE LinkInv'
  BY <1>6 DEF DoxygenFails, Fault, Abort, ProcessEnds
<1>7. CASE StartBuild
  BY <1>7 DEF StartBuild
<1>8. CASE RunDoxygen
  BY <1>8 DEF RunDoxygen
<1>9. CASE DoxygenDone
  BY <1>9 DEF DoxygenDone, DoxygenWrites
<1>10. CASE CollectOutdated
  BY <1>10 DEF CollectOutdated
<1>11. CASE Render
  BY <1>11 DEF Render
<1>12. CASE RenderFails
  BY <1>12 DEF RenderFails, Abort, ProcessEnds
<1>13. CASE EndDoc
  BY <1>13 DEF EndDoc
<1>14. CASE Commit
  BY <1>14 DEF Commit, ProcessEnds
<1>15. CASE Interrupt
  BY <1>15 DEF Interrupt, Fault, Abort, ProcessEnds
<1>16. CASE UNCHANGED vars
  BY <1>16 DEF vars
<1> QED
  BY <1>1, <1>2, <1>3, <1>4, <1>5, <1>6, <1>7, <1>8,
     <1>9, <1>10, <1>11, <1>12, <1>13, <1>14, <1>15, <1>16
     DEF Next, Edit, BuildStep, Failure

\* No page rendered from headers escapes the watcher.
THEOREM PagesAreLinked == Spec => []EveryRenderedPageIsLinked
<1>1. Init => LinkInv
  BY DEF Init, LinkInv, EveryRenderedPageIsLinked
<1>2. LinkInv => EveryRenderedPageIsLinked
  BY DEF LinkInv
<1>3. Spec => []TypeOK
  BY TypeCorrect
<1>4. Spec => []BuildInv
  BY BuildInvCorrect
<1> QED
  BY <1>1, <1>2, <1>3, <1>4, LinkInvNext, PTL DEF Spec

-----------------------------------------------------------------------------
\* An edit makes a version no document has been read in.
LEMMA VersionInvNext ==
  TypeOK /\ VersionInv /\ [Next]_vars => VersionInv'
<1> SUFFICES ASSUME TypeOK, VersionInv, [Next]_vars PROVE VersionInv'
  OBVIOUS
<1> USE DEF TypeOK, VersionInv, NamesInv, files, xml, saved, memory, timers, reader, counts
<1>1. ASSUME NEW h \in Headers, EditHeader(h) PROVE VersionInv'
  BY <1>1 DEF EditHeader, Edited
<1>2. ASSUME NEW h \in Headers, DeleteHeader(h) PROVE VersionInv'
  BY <1>2 DEF DeleteHeader, Edited
<1>3. ASSUME NEW d \in Docs, NEW u \in SUBSET Headers, EditDoc(d, u) PROVE VersionInv'
  BY <1>3 DEF EditDoc, Edited
<1>4. ASSUME NEW d \in Docs, BeginDoc(d) PROVE VersionInv'
  BY <1>4 DEF BeginDoc
<1>5. ASSUME NEW h \in Headers, LinkDocname(h) PROVE VersionInv'
  BY <1>5 DEF LinkDocname
<1>6. ASSUME NEW written \in SUBSET Headers, DoxygenFails(written) PROVE VersionInv'
  BY <1>6 DEF DoxygenFails, Fault, Abort, ProcessEnds
<1>7. CASE StartBuild
  BY <1>7 DEF StartBuild, NewestOf
<1>8. CASE RunDoxygen
  BY <1>8 DEF RunDoxygen
<1>9. CASE DoxygenDone
  BY <1>9 DEF DoxygenDone, DoxygenWrites
<1>10. CASE CollectOutdated
  BY <1>10 DEF CollectOutdated, Outdated
<1>11. CASE Render
  BY <1>11 DEF Render, Entry, Excerpt
<1>12. CASE RenderFails
  BY <1>12 DEF RenderFails, Abort, ProcessEnds
<1>13. CASE EndDoc
  BY <1>13 DEF EndDoc
<1>14. CASE Commit
  BY <1>14 DEF Commit, ProcessEnds
<1>15. CASE Interrupt
  BY <1>15 DEF Interrupt, Fault, Abort, ProcessEnds
<1>16. CASE UNCHANGED vars
  BY <1>16 DEF vars
<1> QED
  BY <1>1, <1>2, <1>3, <1>4, <1>5, <1>6, <1>7, <1>8,
     <1>9, <1>10, <1>11, <1>12, <1>13, <1>14, <1>15, <1>16
     DEF Next, Edit, BuildStep, Failure

\* What a page names is what its document named in the version it was read in: a
\* new version is none of those read before, and a directive that has run is on
\* the page.
LEMMA NamesInvNext ==
  TypeOK /\ BuildInv /\ VersionInv /\ NamesInv /\ [Next]_vars => NamesInv'
<1> SUFFICES ASSUME TypeOK, BuildInv, VersionInv, NamesInv, [Next]_vars PROVE NamesInv'
  OBVIOUS
<1> USE ConstantsAssumption DEF TypeOK, BuildInv, DraftInv, CurInv, VersionInv, NamesInv, Named, files, xml, saved, memory, timers, reader, counts
<1>1. ASSUME NEW h \in Headers, EditHeader(h) PROVE NamesInv'
  BY <1>1 DEF EditHeader, Edited
<1>2. ASSUME NEW h \in Headers, DeleteHeader(h) PROVE NamesInv'
  BY <1>2 DEF DeleteHeader, Edited
<1>3. ASSUME NEW d \in Docs, NEW u \in SUBSET Headers, EditDoc(d, u) PROVE NamesInv'
  BY <1>3 DEF EditDoc, Edited
<1>4. ASSUME NEW d \in Docs, BeginDoc(d) PROVE NamesInv'
  BY <1>4 DEF BeginDoc
<1>5. ASSUME NEW h \in Headers, LinkDocname(h) PROVE NamesInv'
  BY <1>5 DEF LinkDocname
<1>6. ASSUME NEW written \in SUBSET Headers, DoxygenFails(written) PROVE NamesInv'
  BY <1>6 DEF DoxygenFails, Fault, Abort, ProcessEnds
<1>7. CASE StartBuild
  BY <1>7 DEF StartBuild, NewestOf
<1>8. CASE RunDoxygen
  BY <1>8 DEF RunDoxygen
<1>9. CASE DoxygenDone
  BY <1>9 DEF DoxygenDone, DoxygenWrites
<1>10. CASE CollectOutdated
  BY <1>10 DEF CollectOutdated, Outdated
<1>11. CASE Render
  <2>1. /\ cur \in Docs /\ dir \in rest
        /\ \E e : e.h = dir /\ draft' = [draft EXCEPT ![cur] = draft[cur] \cup {e}]
    BY <1>11 DEF Render, Entry
  <2>2. Named(draft'[cur]) = Named(draft[cur]) \cup {dir}
    BY <2>1
  <2>3. \A d \in Docs \ {cur} : draft'[d] = draft[d]
    BY <2>1
  <2>4. rest \subseteq uses[cur] => uses[cur] \ rest' = (uses[cur] \ rest) \cup {dir}
    BY <2>1, <1>11 DEF Render
  <2> QED
    BY <2>1, <2>2, <2>3, <2>4, <1>11 DEF Render
<1>12. CASE RenderFails
  BY <1>12 DEF RenderFails, Abort, ProcessEnds
<1>13. CASE EndDoc
  BY <1>13 DEF EndDoc
<1>14. CASE Commit
  BY <1>14 DEF Commit, ProcessEnds
<1>15. CASE Interrupt
  BY <1>15 DEF Interrupt, Fault, Abort, ProcessEnds
<1>16. CASE UNCHANGED vars
  BY <1>16 DEF vars
<1> QED
  BY <1>1, <1>2, <1>3, <1>4, <1>5, <1>6, <1>7, <1>8,
     <1>9, <1>10, <1>11, <1>12, <1>13, <1>14, <1>15, <1>16
     DEF Next, Edit, BuildStep, Failure

\* While nobody edits, doxygen runs at most once, and every modified document is
\* read.
LEMMA CalmInvNext ==
  TypeOK /\ BuildInv /\ NamesInv /\ CalmInv /\ [Next]_vars => CalmInv'
<1> SUFFICES ASSUME TypeOK, BuildInv, NamesInv, CalmInv, [Next]_vars PROVE CalmInv'
  OBVIOUS
<1> USE ConstantsAssumption
        DEF TypeOK, BuildInv, ClockInv, DraftInv, CurInv, NamesInv, CalmInv, NewerThanXml, Present, files, xml, saved, memory, timers, reader, counts
<1>1. ASSUME NEW h \in Headers, EditHeader(h) PROVE CalmInv'
  BY <1>1 DEF EditHeader, Edited
<1>2. ASSUME NEW h \in Headers, DeleteHeader(h) PROVE CalmInv'
  BY <1>2 DEF DeleteHeader, Edited
<1>3. ASSUME NEW d \in Docs, NEW u \in SUBSET Headers, EditDoc(d, u) PROVE CalmInv'
  BY <1>3 DEF EditDoc, Edited
<1>4. ASSUME NEW d \in Docs, BeginDoc(d) PROVE CalmInv'
  BY <1>4 DEF BeginDoc
<1>5. ASSUME NEW h \in Headers, LinkDocname(h) PROVE CalmInv'
  BY <1>5 DEF LinkDocname
<1>6. ASSUME NEW written \in SUBSET Headers, DoxygenFails(written) PROVE CalmInv'
  BY <1>6 DEF DoxygenFails, Fault, Abort, ProcessEnds
<1>7. CASE StartBuild
  <2>0. {0} \cup {hppStamp[h] : h \in Present} \subseteq Nat
    OBVIOUS
  <2>1. PICK t \in Nat : /\ NewestOf(t, {hppStamp[h] : h \in Present})
                         /\ hpp_mtime' = t
                         /\ pc' = IF xmlStamp < t THEN "doxygen" ELSE "outdated"
    <3> HIDE DEF TypeOK, BuildInv, ClockInv, DraftInv, CurInv, NamesInv, CalmInv, Present
    <3> QED
      BY <1>7, <2>0 DEF StartBuild
  <2>2. t # 0 => \E h \in Present : hppStamp[h] = t
    BY <2>1 DEF NewestOf
  <2>3. \A h \in Headers : h \in Present => hppStamp[h] <= t
    <3> SUFFICES ASSUME NEW h \in Present PROVE hppStamp[h] <= t
      OBVIOUS
    <3>1. hppStamp[h] \in {hppStamp[k] : k \in Present}
      OBVIOUS
    <3> QED
      BY <2>1, <3>1 DEF NewestOf
  <2>4. quiet > 0 => pc' = "outdated"
    BY <2>1, <2>2
  <2>5. /\ quiet' = quiet /\ read' = read /\ rstVer' = rstVer /\ mread' = mread
        /\ xmlStamp' = xmlStamp /\ hppStamp' = hppStamp /\ hppVer' = hppVer
        /\ calm' = TRUE /\ xml_mtime' = xmlStamp
        /\ todo' = {d \in Docs : rstVer[d] # read[d]} /\ mread = read
    BY <1>7 DEF StartBuild
  <2>6. pc' = "outdated" => hpp_mtime' <= xmlStamp
    BY <2>1
  <2>7. pc' = "outdated" => \A h \in Headers : ~NewerThanXml(h)
    BY <2>1, <2>3
  <2>8. quiet > 0 => \A d \in Docs : read[d] = rstVer[d]
    OBVIOUS
  <2>9. pc' \in {"doxygen", "outdated"}
    BY <2>1
  <2>10. cur' = None /\ \A d \in Docs \ todo' : mread'[d] = rstVer'[d]
    BY <1>7, <2>5 DEF StartBuild
  <2>11. \A h \in Headers : NewerThanXml(h)' <=> NewerThanXml(h)
    BY <2>5
  <2>12. quiet > 0 => calm /\ \A h \in Headers : ~NewerThanXml(h)
    OBVIOUS
  <2> HIDE DEF NewerThanXml, TypeOK, BuildInv, NamesInv, ClockInv, DraftInv, CurInv
  <2> QED
    BY <2>4, <2>5, <2>6, <2>7, <2>8, <2>9, <2>10, <2>11, <2>12
<1>8. CASE RunDoxygen
  BY <1>8 DEF RunDoxygen
<1>9. CASE DoxygenDone
  BY <1>9 DEF DoxygenDone, DoxygenWrites
<1>10. CASE CollectOutdated
  BY <1>10 DEF CollectOutdated, Outdated
<1>11. CASE Render
  BY <1>11 DEF Render, Entry, Excerpt
<1>12. CASE RenderFails
  BY <1>12 DEF RenderFails, Abort, ProcessEnds
<1>13. CASE EndDoc
  BY <1>13 DEF EndDoc
<1>14. CASE Commit
  BY <1>14 DEF Commit, ProcessEnds
<1>15. CASE Interrupt
  BY <1>15 DEF Interrupt, Fault, Abort, ProcessEnds
<1>16. CASE UNCHANGED vars
  BY <1>16 DEF vars
<1> QED
  BY <1>1, <1>2, <1>3, <1>4, <1>5, <1>6, <1>7, <1>8,
     <1>9, <1>10, <1>11, <1>12, <1>13, <1>14, <1>15, <1>16
     DEF Next, Edit, BuildStep, Failure

\* A build that compares links with the XML as it is reads every page that has
\* something stale: DraftInv says that the link of such a page is older.
LEMMA FreshInvNext ==
  TypeOK /\ BuildInv /\ LinkInv /\ CalmInv /\ FreshInv /\ [Next]_vars => FreshInv'
<1> SUFFICES ASSUME TypeOK, BuildInv, LinkInv, CalmInv, FreshInv, [Next]_vars PROVE FreshInv'
  OBVIOUS
<1> USE DEF TypeOK, BuildInv, DraftInv, CurInv, LinkInv, XmlTrust, ListingInv, CalmInv, FreshInv, OnlyLateIsStale, Stale, Excused, Entries, files, xml, saved, memory, timers, reader, counts
<1>1. ASSUME NEW h \in Headers, EditHeader(h) PROVE FreshInv'
  BY <1>1 DEF EditHeader, Edited
<1>2. ASSUME NEW h \in Headers, DeleteHeader(h) PROVE FreshInv'
  BY <1>2 DEF DeleteHeader, Edited
<1>3. ASSUME NEW d \in Docs, NEW u \in SUBSET Headers, EditDoc(d, u) PROVE FreshInv'
  BY <1>3 DEF EditDoc, Edited
<1>4. ASSUME NEW d \in Docs, BeginDoc(d) PROVE FreshInv'
  BY <1>4 DEF BeginDoc
<1>5. ASSUME NEW h \in Headers, LinkDocname(h) PROVE FreshInv'
  BY <1>5 DEF LinkDocname
<1>6. ASSUME NEW written \in SUBSET Headers, DoxygenFails(written) PROVE FreshInv'
  BY <1>6 DEF DoxygenFails, Fault, Abort, ProcessEnds
<1>7. CASE StartBuild
  BY <1>7 DEF StartBuild, NewestOf
<1>8. CASE RunDoxygen
  BY <1>8 DEF RunDoxygen
<1>9. CASE DoxygenDone
  BY <1>9 DEF DoxygenDone, DoxygenWrites
<1>10. CASE CollectOutdated
  BY <1>10 DEF CollectOutdated, Outdated
<1>11. CASE Render
  BY <1>11 DEF Render, Entry, Excerpt
<1>12. CASE RenderFails
  BY <1>12 DEF RenderFails, Abort, ProcessEnds
<1>13. CASE EndDoc
  BY <1>13 DEF EndDoc
<1>14. CASE Commit
  BY <1>14 DEF Commit, ProcessEnds
<1>15. CASE Interrupt
  BY <1>15 DEF Interrupt, Fault, Abort, ProcessEnds
<1>16. CASE UNCHANGED vars
  BY <1>16 DEF vars
<1> QED
  BY <1>1, <1>2, <1>3, <1>4, <1>5, <1>6, <1>7, <1>8,
     <1>9, <1>10, <1>11, <1>12, <1>13, <1>14, <1>15, <1>16
     DEF Next, Edit, BuildStep, Failure

\* A page read by an undisturbed build is linked after the XML was written.
LEMMA RestInvNext ==
  TypeOK /\ BuildInv /\ NamesInv /\ CalmInv /\ RestInv /\ [Next]_vars => RestInv'
<1> SUFFICES ASSUME TypeOK, BuildInv, NamesInv, CalmInv, RestInv, [Next]_vars PROVE RestInv'
  OBVIOUS
<1> USE ConstantsAssumption DEF TypeOK, BuildInv, ClockInv, DraftInv, CurInv, NamesInv, Named, CalmInv, RestInv, NothingNew, files, xml, saved, memory, timers, reader, counts
<1>1. ASSUME NEW h \in Headers, EditHeader(h) PROVE RestInv'
  BY <1>1 DEF EditHeader, Edited
<1>2. ASSUME NEW h \in Headers, DeleteHeader(h) PROVE RestInv'
  BY <1>2 DEF DeleteHeader, Edited
<1>3. ASSUME NEW d \in Docs, NEW u \in SUBSET Headers, EditDoc(d, u) PROVE RestInv'
  BY <1>3 DEF EditDoc, Edited
<1>4. ASSUME NEW d \in Docs, BeginDoc(d) PROVE RestInv'
  BY <1>4 DEF BeginDoc
<1>5. ASSUME NEW h \in Headers, LinkDocname(h) PROVE RestInv'
  BY <1>5 DEF LinkDocname
<1>6. ASSUME NEW written \in SUBSET Headers, DoxygenFails(written) PROVE RestInv'
  BY <1>6 DEF DoxygenFails, Fault, Abort, ProcessEnds
<1>7. CASE StartBuild
  BY <1>7 DEF StartBuild, NewestOf
<1>8. CASE RunDoxygen
  BY <1>8 DEF RunDoxygen
<1>9. CASE DoxygenDone
  BY <1>9 DEF DoxygenDone, DoxygenWrites
<1>10. CASE CollectOutdated
  BY <1>10 DEF CollectOutdated, Outdated
<1>11. CASE Render
  BY <1>11 DEF Render, Entry, Excerpt
<1>12. CASE RenderFails
  BY <1>12 DEF RenderFails, Abort, ProcessEnds
<1>13. CASE EndDoc
  BY <1>13 DEF EndDoc
<1>14. CASE Commit
  BY <1>14 DEF Commit, ProcessEnds
<1>15. CASE Interrupt
  BY <1>15 DEF Interrupt, Fault, Abort, ProcessEnds
<1>16. CASE UNCHANGED vars
  BY <1>16 DEF vars
<1> QED
  BY <1>1, <1>2, <1>3, <1>4, <1>5, <1>6, <1>7, <1>8,
     <1>9, <1>10, <1>11, <1>12, <1>13, <1>14, <1>15, <1>16
     DEF Next, Edit, BuildStep, Failure


\* Every step keeps all of them.
THEOREM QuietInvCorrect == Spec => []QuietInv
<1>1. Init => LinkInv
  BY DEF Init, LinkInv, EveryRenderedPageIsLinked
<1>2. Init => VersionInv /\ NamesInv /\ CalmInv /\ FreshInv /\ RestInv
  BY ConstantsAssumption
     DEF Init, VersionInv, NamesInv, CalmInv, FreshInv, RestInv
<1>3. Spec => []TypeOK
  BY TypeCorrect
<1>4. Spec => []BuildInv
  BY BuildInvCorrect
<1>5. TypeOK /\ BuildInv /\ LinkInv /\ VersionInv /\ NamesInv /\ CalmInv /\ FreshInv
        /\ RestInv /\ [Next]_vars
      => LinkInv' /\ VersionInv' /\ NamesInv' /\ CalmInv' /\ FreshInv' /\ RestInv'
  BY LinkInvNext, VersionInvNext, NamesInvNext, CalmInvNext, FreshInvNext, RestInvNext
<1>6. BuildInv /\ LinkInv /\ VersionInv /\ NamesInv /\ CalmInv /\ FreshInv /\ RestInv
      <=> QuietInv
  BY DEF QuietInv
<1> QED
  BY <1>1, <1>2, <1>3, <1>4, <1>5, <1>6, PTL DEF Spec

\* A page that names what its document does, and on which only what is late is
\* stale, is fresh if nothing it names is late.
LEMMA NothingStaleIsFresh ==
  ASSUME TypeOK, NEW d \in Docs, read[d] = rstVer[d],
         Named(page[d]) = uses[d], OnlyLateIsStale(page[d])
  PROVE  Fresh(d) \/ uses[d] \cap late # {}
<1> SUFFICES ASSUME uses[d] \cap late = {} PROVE Fresh(d)
  OBVIOUS
<1>1. \A e \in page[d] : e \in Entries /\ e.h \in uses[d]
  BY DEF TypeOK, Named
<1>2. \A e \in page[d] : e = Entry(e.h, hppVer[e.h], hppVer[e.h])
  BY <1>1 DEF OnlyLateIsStale, Stale, Entry, Entries
<1>3. \A h \in uses[d] : \E e \in page[d] : e.h = h
  BY DEF Named
<1> QED
  BY <1>1, <1>2, <1>3 DEF Fresh

\* Two complete builds after the last edit bring every page up to date.
THEOREM TwoBuildsSuffice == Spec => []TwoQuietBuildsSuffice
<1>1. TypeOK /\ QuietInv => TwoQuietBuildsSuffice
  <2> SUFFICES ASSUME TypeOK, QuietInv, quiet = 2, NEW d \in Docs, ~Overlooked(d)
               PROVE  Fresh(d) \/ uses[d] \cap late # {}
    BY DEF TwoQuietBuildsSuffice
  <2>1. read[d] = rstVer[d] /\ OnlyLateIsStale(page[d])
    BY DEF QuietInv, CalmInv, FreshInv
  <2>2. Named(page[d]) = uses[d]
    BY <2>1 DEF QuietInv, NamesInv, Overlooked
  <2> QED
    BY <2>1, <2>2, NothingStaleIsFresh
<1> QED
  BY <1>1, QuietInvCorrect, TypeCorrect, PTL

\* With DALAPI_ALWAYS_REBUILD one does.
THEOREM OneForcedBuildIsEnough == Spec => []OneForcedBuildSuffices
<1>1. TypeOK /\ QuietInv => OneForcedBuildSuffices
  <2> SUFFICES ASSUME TypeOK, QuietInv, AlwaysRebuild, quiet >= 1,
                      NEW d \in Docs, ~Overlooked(d)
               PROVE  Fresh(d) \/ uses[d] \cap late # {}
    BY DEF OneForcedBuildSuffices
  <2>0. quiet > 0
    BY DEF TypeOK
  <2>1. read[d] = rstVer[d] /\ OnlyLateIsStale(page[d])
    BY <2>0 DEF QuietInv, CalmInv, FreshInv
  <2>2. Named(page[d]) = uses[d]
    BY <2>1 DEF QuietInv, NamesInv, Overlooked
  <2> QED
    BY <2>1, <2>2, NothingStaleIsFresh
<1> QED
  BY <1>1, QuietInvCorrect, TypeCorrect, PTL

\* The third build has nothing to read but documents without directives.
THEOREM ThirdBuildIsIdle == Spec => []ThirdBuildReadsNothing
<1>1. QuietInv => ThirdBuildReadsNothing
  BY DEF QuietInv, RestInv, ThirdBuildReadsNothing
<1> QED
  BY <1>1, QuietInvCorrect, PTL

-----------------------------------------------------------------------------
(***************************************************************************)
(* The scripted build.  Seen from Sphinx, a step of the driver is a step   *)
(* of DalapiBuild or one of four that DalapiBuild does not have (below),   *)
(* so the lemmas above carry over; the rest is about the driver's own      *)
(* state.                                                                  *)
(***************************************************************************)

\* prep starts doxygen where no Sphinx runs ...
StartsPrep ==
  /\ pc = "idle" /\ pc' = "running"
  /\ parsed' = [h \in Headers |-> {hppVer[h]}]
  /\ UNCHANGED <<now, faults, files, xml, saved, memory, timers, reader, late,
                 counts>>

\* ... and doxygen leaves none behind.
EndsPrep ==
  /\ pc = "running" /\ pc' = "idle"
  /\ mlinked = linked /\ mread = read /\ mtext = text /\ draft = page /\ todo = {}
  /\ DoxygenWrites
  /\ UNCHANGED <<faults, files, saved, memory, timers, reader, counts>>

\* What was saved is gone.
Wipes ==
  /\ pc = "idle"
  /\ linked' = [d \in Docs |-> 0] /\ read' = linked' /\ text' = linked'
  /\ page' = [d \in Docs |-> {}]
  /\ mlinked' = linked' /\ mread' = read' /\ mtext' = text' /\ draft' = page'
  /\ calm' = FALSE /\ quiet' = 0
  /\ UNCHANGED <<now, faults, files, xml, pc, timers, parsed, reader, late>>

OnlyCountsFault ==
  /\ faults' = faults + 1
  /\ UNCHANGED <<now, files, xml, saved, pc, memory, timers, parsed, reader,
                 late, counts>>

LEMMA ScriptStep ==
  ScriptTypeOK /\ PrepInv /\ [ScriptNext]_<<vars, svars>> =>
    [Next]_vars \/ StartsPrep \/ EndsPrep \/ Wipes \/ OnlyCountsFault
<1> SUFFICES ASSUME ScriptTypeOK, PrepInv, [ScriptNext]_<<vars, svars>>
             PROVE [Next]_vars \/ StartsPrep \/ EndsPrep \/ Wipes \/ OnlyCountsFault
  OBVIOUS
<1>1. CASE ScriptEdit
  BY <1>1, Zenon DEF ScriptEdit, Next, Edit
<1>2. CASE Clean
  BY <1>2, Zenon DEF Clean, Wipes, ScriptTypeOK
<1>3. ASSUME NEW t \in Targets, Build(t)
      PROVE StartsPrep \/ UNCHANGED vars
  BY <1>3 DEF Build, StartsPrep, ScriptTypeOK, vars
<1>4. CASE PrepEnds
  BY <1>4, Zenon DEF PrepEnds, EndsPrep, PrepInv, ScriptTypeOK
<1>5. CASE PrepFails
  BY <1>5, Zenon DEF PrepFails, HalfWrites, Next, Failure
<1>6. CASE LaterPrepFails
  BY <1>6, Zenon DEF LaterPrepFails, Fault, OnlyCountsFault
<1>7. CASE SphinxStarts
  BY <1>7, Zenon DEF SphinxStarts, Next, BuildStep
<1>8. CASE SphinxReads
  BY <1>8, Zenon DEF SphinxReads, Next, BuildStep
<1>9. CASE SphinxDoxygenDone
  BY <1>9, Zenon DEF SphinxDoxygenDone, Next, BuildStep
<1>10. CASE SphinxPickles
  BY <1>10, Zenon DEF SphinxPickles, Next, BuildStep
<1>11. CASE SphinxWrites
  BY <1>11, Zenon DEF SphinxWrites
<1>12. CASE SphinxFailsToWrite
  BY <1>12, Zenon DEF SphinxFailsToWrite, Fault, OnlyCountsFault
<1>13. CASE SphinxFails
  BY <1>13, Zenon DEF SphinxFails, HalfWrites, Next, BuildStep, Failure
<1>14. CASE UNCHANGED <<vars, svars>>
  BY <1>14, Zenon
<1> QED
  BY <1>1, <1>2, <1>3, <1>4, <1>5, <1>6, <1>7, <1>8, <1>9, <1>10, <1>11,
     <1>12, <1>13, <1>14, Zenon DEF ScriptNext

-----------------------------------------------------------------------------
(* The invariants of DalapiBuild survive the driver.                       *)

LEMMA TypeOKKept ==
  TypeOK /\ ScriptTypeOK /\ PrepInv /\ [ScriptNext]_<<vars, svars>> => TypeOK'
<1> SUFFICES ASSUME TypeOK, ScriptTypeOK, PrepInv, [ScriptNext]_<<vars, svars>>
             PROVE TypeOK'
  OBVIOUS
<1> USE DEF TypeOK, files, xml, saved, memory, timers, reader, counts
<1>1. CASE [Next]_vars
  BY <1>1, TypeOKNext
<1>2. CASE StartsPrep
  BY <1>2 DEF StartsPrep
<1>3. CASE EndsPrep
  BY <1>3 DEF EndsPrep, DoxygenWrites, NoParse
<1>4. CASE Wipes
  <2>1. calm' \in BOOLEAN
    BY <1>4, Zenon DEF Wipes
  <2> QED
    BY <1>4, <2>1 DEF Wipes
<1>5. CASE OnlyCountsFault
  BY <1>5 DEF OnlyCountsFault
<1> QED
  BY <1>1, <1>2, <1>3, <1>4, <1>5, ScriptStep

LEMMA BuildInvKept ==
  /\ TypeOK /\ TypeOK' /\ ScriptTypeOK /\ PrepInv /\ BuildInv
  /\ [ScriptNext]_<<vars, svars>>
  => BuildInv'
<1> SUFFICES ASSUME TypeOK, TypeOK', ScriptTypeOK, PrepInv, BuildInv,
                    [ScriptNext]_<<vars, svars>>
             PROVE BuildInv'
  OBVIOUS
<1> USE ConstantsAssumption
        DEF TypeOK, BuildInv, files, xml, saved, memory, timers, reader, counts,
            Stale, Excused, NewerThanXml, Present, Entries, NoListing
<1>1. CASE [Next]_vars
  BY <1>1, BuildInvNext
<1>2. CASE StartsPrep
  <2>1. ClockInv' /\ ParsedInv' /\ XmlTrust' /\ ListingInv'
    BY <1>2 DEF StartsPrep, ClockInv, ParsedInv, XmlTrust, ListingInv
  <2>2. NoSilentStaleness' /\ DraftInv' /\ CurInv'
    BY <1>2 DEF StartsPrep, NoSilentStaleness, DraftInv, CurInv
  <2> QED
    BY <2>1, <2>2
<1>3. CASE EndsPrep
  <2>1. ClockInv' /\ ParsedInv'
    BY <1>3 DEF EndsPrep, DoxygenWrites, ClockInv, ParsedInv
  <2>2. XmlTrust'
    BY <1>3 DEF EndsPrep, DoxygenWrites, XmlTrust, ParsedInv
  <2>3. ListingInv'
    BY <1>3 DEF EndsPrep, DoxygenWrites, ListingInv
  <2>4. NoSilentStaleness' /\ DraftInv'
    BY <1>3 DEF EndsPrep, DoxygenWrites, NoSilentStaleness, DraftInv, ClockInv
  <2>5. CurInv'
    BY <1>3 DEF EndsPrep, DoxygenWrites, CurInv
  <2> QED
    BY <2>1, <2>2, <2>3, <2>4, <2>5
<1>4. CASE Wipes
  <2>1. ClockInv' /\ ParsedInv' /\ XmlTrust' /\ ListingInv'
    BY <1>4 DEF Wipes, ClockInv, ParsedInv, XmlTrust, ListingInv
  <2>2. NoSilentStaleness' /\ DraftInv' /\ CurInv'
    BY <1>4 DEF Wipes, NoSilentStaleness, DraftInv, CurInv
  <2> QED
    BY <2>1, <2>2
<1>5. CASE OnlyCountsFault
  <2>1. ClockInv' /\ ParsedInv' /\ XmlTrust' /\ ListingInv'
    BY <1>5 DEF OnlyCountsFault, ClockInv, ParsedInv, XmlTrust, ListingInv
  <2>2. NoSilentStaleness' /\ DraftInv' /\ CurInv'
    BY <1>5 DEF OnlyCountsFault, NoSilentStaleness, DraftInv, CurInv
  <2> QED
    BY <2>1, <2>2
<1> QED
  BY <1>1, <1>2, <1>3, <1>4, <1>5, ScriptStep

LEMMA LinkNamesKept ==
  /\ TypeOK /\ ScriptTypeOK /\ PrepInv
  /\ BuildInv /\ LinkInv /\ VersionInv /\ NamesInv
  /\ [ScriptNext]_<<vars, svars>>
  => LinkInv' /\ VersionInv' /\ NamesInv'
<1> SUFFICES ASSUME TypeOK, ScriptTypeOK, PrepInv,
                    BuildInv, LinkInv, VersionInv, NamesInv,
                    [ScriptNext]_<<vars, svars>>
             PROVE LinkInv' /\ VersionInv' /\ NamesInv'
  OBVIOUS
<1> USE ConstantsAssumption
        DEF TypeOK, BuildInv, DraftInv, CurInv, LinkInv,
            EveryRenderedPageIsLinked, VersionInv, NamesInv, Named,
            files, xml, saved, memory, timers, reader, counts
<1>1. CASE [Next]_vars
  BY <1>1, LinkInvNext, VersionInvNext, NamesInvNext
<1>2. CASE StartsPrep
  BY <1>2 DEF StartsPrep
<1>3. CASE EndsPrep
  BY <1>3 DEF EndsPrep, DoxygenWrites
<1>4. CASE Wipes
  BY <1>4 DEF Wipes
<1>5. CASE OnlyCountsFault
  BY <1>5 DEF OnlyCountsFault
<1> QED
  BY <1>1, <1>2, <1>3, <1>4, <1>5, ScriptStep

-----------------------------------------------------------------------------
(* The driver's own state.                                                 *)

\* The driver's variables keep their types, and nothing runs behind its back.
LEMMA ScriptTypeOKNext ==
  /\ TypeOK /\ TypeOK' /\ ScriptTypeOK
  /\ [ScriptNext]_<<vars, svars>>
  => ScriptTypeOK'
<1> SUFFICES ASSUME TypeOK, TypeOK', ScriptTypeOK,
                    [ScriptNext]_<<vars, svars>>
             PROVE ScriptTypeOK'
  OBVIOUS
<1> USE ConstantsAssumption, ScriptAssumption
        DEF TypeOK, ScriptTypeOK, svars, driver, out,
            files, xml, saved, memory, timers, reader, counts
<1>1. CASE ScriptEdit
  BY <1>1 DEF ScriptEdit, EditHeader, DeleteHeader, EditDoc, Edited
<1>2. CASE Clean
  BY <1>2 DEF Clean
<1>3. ASSUME NEW t \in Targets, Build(t) PROVE ScriptTypeOK'
  <2>1. steady' \in BOOLEAN /\ done' \in BOOLEAN
    BY <1>3, Zenon DEF Build
  <2> QED
    BY <1>3, <2>1 DEF Build
<1>4. CASE PrepEnds
  BY <1>4 DEF PrepEnds, DoxygenWrites
<1>5. CASE PrepFails
  BY <1>5 DEF PrepFails, HalfWrites, DoxygenFails, Fault, Abort, ProcessEnds
<1>6. CASE LaterPrepFails
  BY <1>6 DEF LaterPrepFails, Fault
<1>7. CASE SphinxStarts
  BY <1>7 DEF SphinxStarts, StartBuild
<1>8. CASE SphinxReads
  BY <1>8 DEF SphinxReads, BeginDoc, RunDoxygen, CollectOutdated, Render, EndDoc,
      LinkDocname
<1>9. CASE SphinxDoxygenDone
  BY <1>9 DEF SphinxDoxygenDone, DoxygenDone, DoxygenWrites
<1>10. CASE SphinxPickles
  BY <1>10 DEF SphinxPickles, Commit, ProcessEnds
<1>11. CASE SphinxWrites
  BY <1>11 DEF SphinxWrites, WriteHtml, vars
<1>12. CASE SphinxFailsToWrite
  BY <1>12 DEF SphinxFailsToWrite, Fault
<1>13. CASE SphinxFails
  BY <1>13 DEF SphinxFails, RenderFails, Interrupt, HalfWrites, DoxygenFails, Fault,
      Abort, ProcessEnds
<1>14. CASE UNCHANGED <<vars, svars>>
  BY <1>14 DEF vars
<1> QED
  BY <1>1, <1>2, <1>3, <1>4, <1>5, <1>6, <1>7, <1>8, <1>9, <1>10,
     <1>11, <1>12, <1>13, <1>14 DEF ScriptNext

\* An edit stamps include/ last; doxygen writes index.xml with the rest.
LEMMA StampsInvNext ==
  /\ TypeOK /\ ScriptTypeOK /\ BuildInv /\ StampsInv
  /\ [ScriptNext]_<<vars, svars>>
  => StampsInv'
<1> SUFFICES ASSUME TypeOK, ScriptTypeOK, BuildInv, StampsInv,
                    [ScriptNext]_<<vars, svars>>
             PROVE StampsInv'
  OBVIOUS
<1> USE ConstantsAssumption, ScriptAssumption
        DEF TypeOK, ScriptTypeOK, BuildInv, ClockInv, StampsInv,
            svars, driver, out, files, xml, saved, memory, timers, reader, counts
<1>1. CASE ScriptEdit
  BY <1>1 DEF ScriptEdit, EditHeader, DeleteHeader, EditDoc, Edited
<1>2. CASE Clean
  BY <1>2 DEF Clean
<1>3. ASSUME NEW t \in Targets, Build(t) PROVE StampsInv'
  BY <1>3 DEF Build
<1>4. CASE PrepEnds
  BY <1>4 DEF PrepEnds, DoxygenWrites
<1>5. CASE PrepFails
  BY <1>5 DEF PrepFails, HalfWrites, DoxygenFails, Fault, Abort, ProcessEnds
<1>6. CASE LaterPrepFails
  BY <1>6 DEF LaterPrepFails, Fault
<1>7. CASE SphinxStarts
  BY <1>7 DEF SphinxStarts, StartBuild
<1>8. CASE SphinxReads
  BY <1>8 DEF SphinxReads, BeginDoc, RunDoxygen, CollectOutdated, Render, EndDoc,
      LinkDocname
<1>9. CASE SphinxDoxygenDone
  BY <1>9 DEF SphinxDoxygenDone, DoxygenDone, DoxygenWrites
<1>10. CASE SphinxPickles
  BY <1>10 DEF SphinxPickles, Commit, ProcessEnds
<1>11. CASE SphinxWrites
  BY <1>11 DEF SphinxWrites, WriteHtml, vars
<1>12. CASE SphinxFailsToWrite
  BY <1>12 DEF SphinxFailsToWrite, Fault
<1>13. CASE SphinxFails
  BY <1>13 DEF SphinxFails, RenderFails, Interrupt, HalfWrites, DoxygenFails, Fault,
      Abort, ProcessEnds
<1>14. CASE UNCHANGED <<vars, svars>>
  BY <1>14 DEF vars
<1> QED
  BY <1>1, <1>2, <1>3, <1>4, <1>5, <1>6, <1>7, <1>8, <1>9, <1>10,
     <1>11, <1>12, <1>13, <1>14 DEF ScriptNext

\* A build starts where no Sphinx runs.
LEMMA PrepInvNext ==
  /\ TypeOK /\ BuildInv /\ NamesInv /\ ScriptTypeOK /\ PrepInv
  /\ [ScriptNext]_<<vars, svars>>
  => PrepInv'
<1> SUFFICES ASSUME TypeOK, BuildInv, NamesInv, ScriptTypeOK, PrepInv,
                    [ScriptNext]_<<vars, svars>>
             PROVE PrepInv'
  OBVIOUS
<1> USE ConstantsAssumption, ScriptAssumption
        DEF TypeOK, BuildInv, DraftInv, NamesInv, ScriptTypeOK, PrepInv, svars, driver, out,
            files, xml, saved, memory, timers, reader, counts
<1>1. CASE ScriptEdit
  BY <1>1 DEF ScriptEdit, EditHeader, DeleteHeader, EditDoc, Edited
<1>2. CASE Clean
  BY <1>2 DEF Clean
<1>3. ASSUME NEW t \in Targets, Build(t) PROVE PrepInv'
  BY <1>3 DEF Build
<1>4. CASE PrepEnds
  BY <1>4 DEF PrepEnds, DoxygenWrites
<1>5. CASE PrepFails
  BY <1>5 DEF PrepFails, HalfWrites, DoxygenFails, Fault, Abort, ProcessEnds
<1>6. CASE LaterPrepFails
  BY <1>6 DEF LaterPrepFails, Fault
<1>7. CASE SphinxStarts
  BY <1>7 DEF SphinxStarts, StartBuild
<1>8. CASE SphinxReads
  BY <1>8 DEF SphinxReads, BeginDoc, RunDoxygen, CollectOutdated, Render, EndDoc,
      LinkDocname
<1>9. CASE SphinxDoxygenDone
  BY <1>9 DEF SphinxDoxygenDone, DoxygenDone, DoxygenWrites
<1>10. CASE SphinxPickles
  BY <1>10 DEF SphinxPickles, Commit, ProcessEnds
<1>11. CASE SphinxWrites
  BY <1>11 DEF SphinxWrites, WriteHtml, vars
<1>12. CASE SphinxFailsToWrite
  BY <1>12 DEF SphinxFailsToWrite, Fault
<1>13. CASE SphinxFails
  BY <1>13 DEF SphinxFails, RenderFails, Interrupt, HalfWrites, DoxygenFails, Fault,
      Abort, ProcessEnds
<1>14. CASE UNCHANGED <<vars, svars>>
  BY <1>14 DEF vars
<1> QED
  BY <1>1, <1>2, <1>3, <1>4, <1>5, <1>6, <1>7, <1>8, <1>9, <1>10,
     <1>11, <1>12, <1>13, <1>14 DEF ScriptNext

\* An undisturbed Sphinx compares the links with XML newer than every header.  One
\* that ran doxygen again, or was edited under, is none.
LEMMA SteadyInvNext ==
  /\ TypeOK /\ ScriptTypeOK /\ BuildInv /\ LinkInv /\ NamesInv /\ StampsInv /\ PrepInv /\ HtmlInv /\ SteadyInv
  /\ [ScriptNext]_<<vars, svars>>
  => SteadyInv'
<1> SUFFICES ASSUME TypeOK, ScriptTypeOK, BuildInv, LinkInv, NamesInv, StampsInv, PrepInv, HtmlInv, SteadyInv,
                    [ScriptNext]_<<vars, svars>>
             PROVE SteadyInv'
  OBVIOUS
<1> USE ConstantsAssumption, ScriptAssumption
        DEF TypeOK, ScriptTypeOK, BuildInv, ClockInv, DraftInv, CurInv, LinkInv, NamesInv,
            XmlTrust, ListingInv, StampsInv, PrepInv, HtmlInv, SteadyInv, NewerThanXml,
            Present, OnlyLateIsStale, Stale, Excused, Entries, svars, driver, out,
            files, xml, saved, memory, timers, reader, counts
<1>1. CASE ScriptEdit
  BY <1>1 DEF ScriptEdit, EditHeader, DeleteHeader, EditDoc, Edited
<1>2. CASE Clean
  BY <1>2 DEF Clean
<1>3. ASSUME NEW t \in Targets, Build(t) PROVE SteadyInv'
  BY <1>3 DEF Build, UpToDate
<1>4. CASE PrepEnds
  BY <1>4 DEF PrepEnds, DoxygenWrites
<1>5. CASE PrepFails
  BY <1>5 DEF PrepFails, HalfWrites, DoxygenFails, Fault, Abort, ProcessEnds
<1>6. CASE LaterPrepFails
  BY <1>6 DEF LaterPrepFails, Fault
<1>7. CASE SphinxStarts
  <2>0. StartBuild
    BY <1>7, Zenon DEF SphinxStarts
  <2>1. PICK t \in {0} \cup {hppStamp[h] : h \in Present} :
                         /\ NewestOf(t, {hppStamp[h] : h \in Present})
                         /\ pc' = IF xmlStamp < t THEN "doxygen" ELSE "outdated"
    BY <2>0, Zenon DEF StartBuild
  <2>2. t \in Nat /\ (t # 0 => \E h \in Present : hppStamp[h] = t)
    BY <2>1 DEF NewestOf
  <2>3. steady => pc' = "outdated"
    BY <2>1, <2>2, <1>7 DEF SphinxStarts
  <2> QED
    BY <2>3, <1>7 DEF SphinxStarts, StartBuild
<1>8. CASE SphinxReads
  <2>1. ASSUME NEW d \in Docs, BeginDoc(d), toWrite' = toWrite \cup {d} PROVE SteadyInv'
    BY <2>1, <1>8 DEF SphinxReads, BeginDoc
  <2>2. CASE RunDoxygen /\ UNCHANGED toWrite
    BY <2>2, <1>8 DEF SphinxReads, RunDoxygen
  <2>3. CASE CollectOutdated /\ UNCHANGED toWrite
    BY <2>3, <1>8 DEF SphinxReads, CollectOutdated, Outdated
  <2>4. CASE Render /\ UNCHANGED toWrite
    BY <2>4, <1>8 DEF SphinxReads, Render, Excerpt, Entry
  <2>5. CASE EndDoc /\ UNCHANGED toWrite
    BY <2>5, <1>8 DEF SphinxReads, EndDoc
  <2>6. ASSUME NEW h \in Headers, LinkDocname(h), UNCHANGED toWrite PROVE SteadyInv'
    BY <2>6, <1>8 DEF SphinxReads, LinkDocname
  <2> QED
    BY <2>1, <2>2, <2>3, <2>4, <2>5, <2>6, <1>8, Zenon DEF SphinxReads
<1>9. CASE SphinxDoxygenDone
  BY <1>9 DEF SphinxDoxygenDone, DoxygenDone, DoxygenWrites
<1>10. CASE SphinxPickles
  BY <1>10 DEF SphinxPickles, Commit, ProcessEnds
<1>11. CASE SphinxWrites
  BY <1>11 DEF SphinxWrites, WriteHtml, vars
<1>12. CASE SphinxFailsToWrite
  BY <1>12 DEF SphinxFailsToWrite, Fault
<1>13. CASE SphinxFails
  BY <1>13 DEF SphinxFails, RenderFails, Interrupt, HalfWrites, DoxygenFails, Fault,
      Abort, ProcessEnds
<1>14. CASE UNCHANGED <<vars, svars>>
  BY <1>14 DEF vars
<1> QED
  BY <1>1, <1>2, <1>3, <1>4, <1>5, <1>6, <1>7, <1>8, <1>9, <1>10,
     <1>11, <1>12, <1>13, <1>14 DEF ScriptNext

\* What such a Sphinx pickles and writes is what it has read.
LEMMA SavedInvNext ==
  /\ TypeOK /\ ScriptTypeOK /\ BuildInv /\ SteadyInv /\ SavedInv
  /\ [ScriptNext]_<<vars, svars>>
  => SavedInv'
<1> SUFFICES ASSUME TypeOK, ScriptTypeOK, BuildInv, SteadyInv, SavedInv,
                    [ScriptNext]_<<vars, svars>>
             PROVE SavedInv'
  OBVIOUS
<1> USE ConstantsAssumption, ScriptAssumption
        DEF TypeOK, ScriptTypeOK, BuildInv, DraftInv, CurInv, SteadyInv, SavedInv,
            OnlyLateIsStale, Stale, svars, driver, out,
            files, xml, saved, memory, timers, reader, counts
<1>1. CASE ScriptEdit
  BY <1>1 DEF ScriptEdit, EditHeader, DeleteHeader, EditDoc, Edited
<1>2. CASE Clean
  BY <1>2 DEF Clean
<1>3. ASSUME NEW t \in Targets, Build(t) PROVE SavedInv'
  BY <1>3 DEF Build
<1>4. CASE PrepEnds
  BY <1>4 DEF PrepEnds, DoxygenWrites
<1>5. CASE PrepFails
  BY <1>5 DEF PrepFails, HalfWrites, DoxygenFails, Fault, Abort, ProcessEnds
<1>6. CASE LaterPrepFails
  BY <1>6 DEF LaterPrepFails, Fault
<1>7. CASE SphinxStarts
  BY <1>7 DEF SphinxStarts, StartBuild
<1>8. CASE SphinxReads
  BY <1>8 DEF SphinxReads, BeginDoc, RunDoxygen, CollectOutdated, Render, EndDoc,
      LinkDocname
<1>9. CASE SphinxDoxygenDone
  BY <1>9 DEF SphinxDoxygenDone, DoxygenDone, DoxygenWrites
<1>10. CASE SphinxPickles
  BY <1>10 DEF SphinxPickles, Commit, ProcessEnds
<1>11. CASE SphinxWrites
  BY <1>11 DEF SphinxWrites, WriteHtml, vars
<1>12. CASE SphinxFailsToWrite
  BY <1>12 DEF SphinxFailsToWrite, Fault
<1>13. CASE SphinxFails
  BY <1>13 DEF SphinxFails, RenderFails, Interrupt, HalfWrites, DoxygenFails, Fault,
      Abort, ProcessEnds
<1>14. CASE UNCHANGED <<vars, svars>>
  BY <1>14 DEF vars
<1> QED
  BY <1>1, <1>2, <1>3, <1>4, <1>5, <1>6, <1>7, <1>8, <1>9, <1>10,
     <1>11, <1>12, <1>13, <1>14 DEF ScriptNext

\* What is read is written, unless it is not for html.
LEMMA HtmlInvNext ==
  /\ TypeOK /\ ScriptTypeOK /\ BuildInv /\ PrepInv /\ HtmlInv
  /\ [ScriptNext]_<<vars, svars>>
  => HtmlInv'
<1> SUFFICES ASSUME TypeOK, ScriptTypeOK, BuildInv, PrepInv, HtmlInv,
                    [ScriptNext]_<<vars, svars>>
             PROVE HtmlInv'
  OBVIOUS
<1> USE ConstantsAssumption, ScriptAssumption
        DEF TypeOK, ScriptTypeOK, BuildInv, DraftInv, CurInv, PrepInv, HtmlInv, svars, driver, out,
            files, xml, saved, memory, timers, reader, counts
<1>1. CASE ScriptEdit
  BY <1>1 DEF ScriptEdit, EditHeader, DeleteHeader, EditDoc, Edited
<1>2. CASE Clean
  BY <1>2 DEF Clean
<1>3. ASSUME NEW t \in Targets, Build(t) PROVE HtmlInv'
  BY <1>3 DEF Build
<1>4. CASE PrepEnds
  BY <1>4 DEF PrepEnds, DoxygenWrites
<1>5. CASE PrepFails
  BY <1>5 DEF PrepFails, HalfWrites, DoxygenFails, Fault, Abort, ProcessEnds
<1>6. CASE LaterPrepFails
  BY <1>6 DEF LaterPrepFails, Fault
<1>7. CASE SphinxStarts
  BY <1>7 DEF SphinxStarts, StartBuild
<1>8. CASE SphinxReads
  <2>1. ASSUME NEW d \in Docs, BeginDoc(d), toWrite' = toWrite \cup {d} PROVE HtmlInv'
    BY <2>1, <1>8 DEF SphinxReads, BeginDoc
  <2>2. CASE RunDoxygen /\ UNCHANGED toWrite
    BY <2>2, <1>8 DEF SphinxReads, RunDoxygen
  <2>3. CASE CollectOutdated /\ UNCHANGED toWrite
    BY <2>3, <1>8 DEF SphinxReads, CollectOutdated
  <2>4. CASE Render /\ UNCHANGED toWrite
    BY <2>4, <1>8 DEF SphinxReads, Render
  <2>5. CASE EndDoc /\ UNCHANGED toWrite
    BY <2>5, <1>8 DEF SphinxReads, EndDoc
  <2>6. ASSUME NEW h \in Headers, LinkDocname(h), UNCHANGED toWrite PROVE HtmlInv'
    BY <2>6, <1>8 DEF SphinxReads, LinkDocname
  <2> QED
    BY <2>1, <2>2, <2>3, <2>4, <2>5, <2>6, <1>8, Zenon DEF SphinxReads
<1>9. CASE SphinxDoxygenDone
  BY <1>9 DEF SphinxDoxygenDone, DoxygenDone, DoxygenWrites
<1>10. CASE SphinxPickles
  BY <1>10 DEF SphinxPickles, Commit, ProcessEnds
<1>11. CASE SphinxWrites
  BY <1>11 DEF SphinxWrites, WriteHtml, vars
<1>12. CASE SphinxFailsToWrite
  BY <1>12 DEF SphinxFailsToWrite, Fault
<1>13. CASE SphinxFails
  BY <1>13 DEF SphinxFails, RenderFails, Interrupt, HalfWrites, DoxygenFails, Fault,
      Abort, ProcessEnds
<1>14. CASE UNCHANGED <<vars, svars>>
  BY <1>14 DEF vars
<1> QED
  BY <1>1, <1>2, <1>3, <1>4, <1>5, <1>6, <1>7, <1>8, <1>9, <1>10,
     <1>11, <1>12, <1>13, <1>14 DEF ScriptNext

-----------------------------------------------------------------------------
LEMMA ScriptInvInit == ScriptInit => ScriptInv
<1> SUFFICES ASSUME ScriptInit PROVE ScriptInv
  OBVIOUS
<1>0. Init
  BY DEF ScriptInit
<1>1. calm \in BOOLEAN /\ steady \in BOOLEAN /\ done \in BOOLEAN
  BY <1>0, Zenon DEF Init, ScriptInit
<1>2. TypeOK
  BY <1>0, <1>1, ConstantsAssumption DEF Init, TypeOK, NoParse, NoListing
<1>3. ScriptTypeOK
  BY <1>0, <1>1, <1>2, ScriptAssumption DEF Init, ScriptInit, ScriptTypeOK, TypeOK
<1>4. BuildInv
  BY <1>0, BuildInvInit
<1>5. LinkInv /\ VersionInv /\ NamesInv
  BY <1>0, ConstantsAssumption
     DEF Init, LinkInv, EveryRenderedPageIsLinked, VersionInv, NamesInv, Named
<1>6. StampsInv /\ PrepInv /\ SteadyInv /\ SavedInv /\ HtmlInv
  BY <1>0, ConstantsAssumption
     DEF Init, ScriptInit, StampsInv, PrepInv, SteadyInv, SavedInv, HtmlInv
<1> QED
  BY <1>2, <1>3, <1>4, <1>5, <1>6 DEF ScriptInv

LEMMA ScriptInvNext == ScriptInv /\ [ScriptNext]_<<vars, svars>> => ScriptInv'
<1> SUFFICES ASSUME ScriptInv, [ScriptNext]_<<vars, svars>> PROVE ScriptInv'
  OBVIOUS
<1>0. /\ TypeOK /\ ScriptTypeOK
      /\ BuildInv /\ LinkInv /\ VersionInv /\ NamesInv
      /\ StampsInv /\ PrepInv /\ SteadyInv /\ SavedInv /\ HtmlInv
  BY DEF ScriptInv
<1>1. TypeOK'
  BY <1>0, TypeOKKept
<1>2. ScriptTypeOK'
  BY <1>0, <1>1, ScriptTypeOKNext
<1>3. BuildInv' /\ LinkInv' /\ VersionInv' /\ NamesInv'
  BY <1>0, <1>1, BuildInvKept, LinkNamesKept
<1>4. StampsInv' /\ PrepInv' /\ SteadyInv' /\ SavedInv' /\ HtmlInv'
  BY <1>0, StampsInvNext, PrepInvNext, SteadyInvNext, SavedInvNext, HtmlInvNext
<1> QED
  BY <1>1, <1>2, <1>3, <1>4 DEF ScriptInv

\* Whatever is edited, built, cleaned or fails, and in whatever order.
THEOREM ScriptInvCorrect == ScriptSpec => []ScriptInv
  BY ScriptInvInit, ScriptInvNext, PTL DEF ScriptSpec

\* The driver's variables keep their types, and doxygen and Sphinx never run
\* together.
THEOREM ScriptTypeCorrect == ScriptSpec => []ScriptTypeOK
<1>1. ScriptInv => ScriptTypeOK
  BY DEF ScriptInv
<1> QED
  BY <1>1, ScriptInvCorrect, PTL

\* What DalapiBuild promises of stale pages it also promises under the driver.
THEOREM ScriptedStalenessIsNoticed == ScriptSpec => []NoSilentStaleness
<1>1. ScriptInv => NoSilentStaleness
  BY DEF ScriptInv, BuildInv
<1> QED
  BY <1>1, ScriptInvCorrect, PTL

\* One undisturbed build with the driver brings every doctree up to date.
THEOREM OneScriptedBuildIsEnough == ScriptSpec => []ScriptedBuildSuffices
<1>1. ScriptInv => ScriptedBuildSuffices
  <2> SUFFICES ASSUME ScriptInv, done, NEW d \in Docs, ~Overlooked(d)
               PROVE  Fresh(d) \/ (AbsoluteRoot /\ uses[d] \cap late # {})
    BY DEF ScriptedBuildSuffices
  <2>1. read[d] = rstVer[d] /\ OnlyLateIsStale(page[d]) /\ (~AbsoluteRoot => late = {})
    BY DEF ScriptInv, SavedInv
  <2>2. Fresh(d) \/ uses[d] \cap late # {}
    <3>1. Named(page[d]) = uses[d]
      BY <2>1 DEF ScriptInv, NamesInv, Overlooked
    <3> QED
      BY <2>1, <3>1, NothingStaleIsFresh DEF ScriptInv
  <2> QED
    BY <2>1, <2>2
<1> QED
  BY <1>1, ScriptInvCorrect, PTL

\* ... and so does one html build with the html of every document that no other
\* target's build has read in between.
THEOREM HtmlFollows == ScriptSpec => []HtmlIsCurrent
<1>1. ScriptInv => HtmlIsCurrent
  <2> SUFFICES ASSUME ScriptInv, done, target = "html", NEW d \in Docs,
                      ~Overlooked(d)
               PROVE  \/ html[d] = {Entry(h, hppVer[h], hppVer[h]) : h \in uses[d]}
                      \/ AbsoluteRoot /\ (uses[d] \cap late # {} \/ d \in skipped)
                      \/ linked[d] = 0 /\ d \in skipped
    BY DEF HtmlIsCurrent
  <2>1. /\ read[d] = rstVer[d] /\ OnlyLateIsStale(page[d])
        /\ ~AbsoluteRoot => late = {}
        /\ ~AbsoluteRoot => d \notin skipped \/ linked[d] = 0
    BY DEF ScriptInv, SavedInv
  <2>2. Fresh(d) \/ uses[d] \cap late # {}
    <3>1. Named(page[d]) = uses[d]
      BY <2>1 DEF ScriptInv, NamesInv, Overlooked
    <3> QED
      BY <2>1, <3>1, NothingStaleIsFresh DEF ScriptInv
  <2>3. html[d] = page[d] \/ d \in skipped
    BY DEF ScriptInv, SavedInv, HtmlInv
  <2> QED
    BY <2>1, <2>2, <2>3 DEF Fresh
<1> QED
  BY <1>1, ScriptInvCorrect, PTL
=============================================================================
