---------------------------- MODULE ParallelRead ----------------------------
(***************************************************************************)
(* The incremental build of DalapiBuild when Sphinx reads in parallel.     *)
(*                                                                         *)
(* The extension declares itself safe for that (parallel_read_safe).       *)
(* Sphinx then forks workers, each with a copy of the environment, and     *)
(* merges what it knows of from their copies when they end; anything else  *)
(* an extension keeps in the environment it must merge itself, in a        *)
(* handler of env-merge-info.  The extension connects none, so the links   *)
(* its directives make stay in the workers.                                *)
(*                                                                         *)
(* A worker reads one document, in one step: what is looked at here is not *)
(* an edit during the reading (DalapiBuild has those) but what is left of  *)
(* the reading after the merge.                                            *)
(***************************************************************************)
EXTENDS DalapiBuild

\* The worker's document and page reach the main process, its link does not.
ReadInWorker(d) ==
  /\ pc = "read" /\ d \in todo
  /\ \A h \in uses[d] : xmlVer[h] # 0 /\ hppVer[h] # 0
  /\ todo' = todo \ {d}
  /\ mread' = [mread EXCEPT ![d] = rstVer[d]]
  /\ mtext' = [mtext EXCEPT ![d] = rstVer[d]]
  /\ draft' = [draft EXCEPT ![d] =
                 {Entry(h, xmlVer[h], hppVer[h]) : h \in uses[d]}]
  /\ UNCHANGED <<now, faults, files, xml, saved, pc, mlinked, timers, parsed, cur,
                 rest, dir, listing, late, counts>>

\* An exception in a worker ends the build.
WorkerFails(d) ==
  /\ pc = "read" /\ d \in todo
  /\ \E h \in uses[d] : xmlVer[h] = 0 \/ hppVer[h] = 0 \/ xmlVer[h] # hppVer[h]
  /\ Abort
  /\ UNCHANGED <<now, faults, xml, late>>

ParallelNext ==
  \/ Edit \/ Failure
  \/ StartBuild \/ RunDoxygen \/ DoxygenDone \/ CollectOutdated \/ Commit
  \/ \E d \in Docs : ReadInWorker(d) \/ WorkerFails(d)

ParallelSpec == Init /\ [][ParallelNext]_vars

\* 'parallel_read_safe': True -- what serial reading guarantees
\* (TwoQuietBuildsSuffice), parallel reading does.
ParallelReadIsSafe == TwoQuietBuildsSuffice
=============================================================================
