----------------------- MODULE PublishPipeline_proofs -----------------------
(***************************************************************************)
(* Proofs about PublishPipeline, for every set of pages and every number   *)
(* of runs.                                                                *)
(***************************************************************************)
EXTENDS PublishPipeline, TLAPS

\* The variables keep their types, and publish_site waits for the jobs it needs.
THEOREM TypeCorrect == Spec => []TypeOK
<1> USE PipelineAssumption DEF Runs, Outcome, Trees, NoTree, MayPublish, TypeOK
<1>1. Init => TypeOK
  BY DEF Init
<1>2. TypeOK /\ [Next]_vars => TypeOK'
  <2> SUFFICES ASSUME TypeOK, [Next]_vars PROVE TypeOK'
    OBVIOUS
  <2>1. ASSUME NEW b \in {"main", "pull"}, NEW ps \in SUBSET Pages, Start(b, ps)
        PROVE TypeOK'
    BY <2>1 DEF Start
  <2>2. ASSUME NEW r \in Runs, NEW outcome \in {"ok", "failed"},
               ChecksEnd(r, outcome) \/ BuildEnd(r, outcome)
        PROVE TypeOK'
    <3>1. CASE ChecksEnd(r, outcome)
      BY <3>1 DEF ChecksEnd
    <3>2. CASE BuildEnd(r, outcome)
      BY <3>2 DEF BuildEnd
    <3> QED
      BY <2>2, <3>1, <3>2
  <2>3. ASSUME NEW r \in Runs, CheckoutPages(r) PROVE TypeOK'
    BY <2>3 DEF CheckoutPages
  <2>4. ASSUME NEW r \in Runs, PushPages(r) PROVE TypeOK'
    <3>1. Overlay(r) \in Trees
      BY DEF Overlay
    <3> QED
      BY <2>4, <3>1 DEF PushPages
  <2>5. ASSUME NEW r \in Runs, PublishFails(r) PROVE TypeOK'
    BY <2>5 DEF PublishFails
  <2>6. CASE UNCHANGED vars
    BY <2>6 DEF vars
  <2> QED
    BY <2>1, <2>2, <2>3, <2>4, <2>5, <2>6 DEF Next, Job
<1> QED
  BY <1>1, <1>2, PTL DEF Spec

-----------------------------------------------------------------------------
\* A run that has not started has no outcome; a job that publishes may.
RunsInv ==
  \A r \in Runs :
    /\ r > started => checks[r] = "none" /\ build[r] = "none"
    /\ publish[r] # "none" => MayPublish(r)

\* Every page of the tree comes from a run that may publish.
Vetted(tree) == \A p \in Pages : tree[p] # 0 => MayPublish(tree[p])

\* The strengthening: what holds of the site holds of every tree a publish job
\* has checked out, for the job will push it back.
SiteInv ==
  /\ RunsInv
  /\ Vetted(site) /\ \A r \in Runs : Vetted(base[r])
  /\ SiteHasAWholeBuild

LEMMA SiteInvInit == Init => SiteInv
  BY PipelineAssumption
     DEF Init, SiteInv, RunsInv, Vetted, NoTree, Runs, SiteHasAWholeBuild

\* What may be published may be published for ever.
LEMMA MayPublishStable ==
  ASSUME TypeOK, RunsInv, [Next]_vars, NEW r \in Runs, MayPublish(r)
  PROVE  MayPublish(r)'
<1> USE PipelineAssumption DEF TypeOK, Runs, MayPublish, RunsInv
<1>1. ASSUME NEW b \in {"main", "pull"}, NEW ps \in SUBSET Pages, Start(b, ps)
      PROVE MayPublish(r)'
  BY <1>1 DEF Start
<1>2. ASSUME NEW s \in Runs, Job(s) PROVE MayPublish(r)'
  BY <1>2 DEF Job, ChecksEnd, BuildEnd, CheckoutPages, PushPages, PublishFails
<1>3. CASE UNCHANGED vars
  BY <1>3 DEF vars
<1> QED
  BY <1>1, <1>2, <1>3 DEF Next

LEMMA SiteInvNext == TypeOK /\ TypeOK' /\ SiteInv /\ [Next]_vars => SiteInv'
<1> SUFFICES ASSUME TypeOK, TypeOK', SiteInv, [Next]_vars PROVE SiteInv'
  OBVIOUS
<1> USE PipelineAssumption DEF SiteInv
<1>1. \A r \in Runs : MayPublish(r) => MayPublish(r)'
  BY MayPublishStable
<1>2. \A tree \in Trees : Vetted(tree) => Vetted(tree)'
  <2> SUFFICES ASSUME NEW tree \in Trees, Vetted(tree),
                      NEW p \in Pages, tree[p] # 0
               PROVE  MayPublish(tree[p])'
    BY DEF Vetted
  <2>1. tree[p] \in Runs
    BY DEF Trees, Runs
  <2>2. MayPublish(tree[p])
    BY DEF Vetted
  <2> QED
    BY <1>1, <2>1, <2>2
<1>3. site \in Trees /\ \A r \in Runs : base[r] \in Trees
  BY DEF TypeOK
<1>4. ASSUME UNCHANGED <<base, site>> PROVE Vetted(site)' /\ \A r \in Runs : Vetted(base[r])'
  BY <1>2, <1>3, <1>4 DEF Vetted
<1>5. ASSUME NEW b \in {"main", "pull"}, NEW ps \in SUBSET Pages, Start(b, ps)
      PROVE SiteInv'
  <2>1. RunsInv'
    BY <1>1, <1>5 DEF Start, RunsInv, Runs, TypeOK
  <2>2. SiteHasAWholeBuild'
    BY <1>5 DEF Start, SiteHasAWholeBuild, RunsInv, MayPublish, Runs, TypeOK
  <2> QED
    BY <1>4, <1>5, <2>1, <2>2 DEF Start
<1>6. ASSUME NEW r \in Runs, NEW outcome \in {"ok", "failed"},
             ChecksEnd(r, outcome) \/ BuildEnd(r, outcome)
      PROVE SiteInv'
  <2>1. RunsInv'
    BY <1>1, <1>6 DEF ChecksEnd, BuildEnd, RunsInv, Runs, TypeOK
  <2>2. SiteHasAWholeBuild'
    BY <1>6 DEF ChecksEnd, BuildEnd, SiteHasAWholeBuild
  <2> QED
    BY <1>4, <1>6, <2>1, <2>2 DEF ChecksEnd, BuildEnd
<1>7. ASSUME NEW r \in Runs, CheckoutPages(r) PROVE SiteInv'
  <2>1. RunsInv'
    BY <1>1, <1>7 DEF CheckoutPages, RunsInv, Runs, TypeOK, MayPublish
  <2>2. Vetted(site)' /\ \A s \in Runs : Vetted(base[s])'
    BY <1>2, <1>3, <1>7 DEF CheckoutPages, Vetted, TypeOK
  <2>3. SiteHasAWholeBuild'
    BY <1>7 DEF CheckoutPages, SiteHasAWholeBuild, TypeOK
  <2> QED
    BY <2>1, <2>2, <2>3
<1>8. ASSUME NEW r \in Runs, PushPages(r) PROVE SiteInv'
  <2>1. RunsInv'
    BY <1>1, <1>8 DEF PushPages, RunsInv, Runs, TypeOK
  <2>2. MayPublish(r)'
    BY <1>1, <1>8 DEF PushPages, RunsInv
  <2>3. Vetted(site)'
    BY <1>2, <1>3, <1>8, <2>2 DEF PushPages, Overlay, Vetted
  <2>4. \A s \in Runs : Vetted(base[s])'
    BY <1>2, <1>3, <1>8 DEF PushPages, Vetted
  <2>5. SiteHasAWholeBuild'
    BY <1>8 DEF PushPages, Overlay, SiteHasAWholeBuild, TypeOK
  <2> QED
    BY <2>1, <2>3, <2>4, <2>5
<1>9. ASSUME NEW r \in Runs, PublishFails(r) PROVE SiteInv'
  <2>1. RunsInv'
    BY <1>1, <1>9 DEF PublishFails, RunsInv, Runs, TypeOK
  <2>2. SiteHasAWholeBuild'
    BY <1>9 DEF PublishFails, SiteHasAWholeBuild, TypeOK
  <2> QED
    BY <1>4, <1>9, <2>1, <2>2 DEF PublishFails
<1>10. CASE UNCHANGED vars
  <2>1. RunsInv' /\ SiteHasAWholeBuild'
    BY <1>10 DEF vars, RunsInv, MayPublish, SiteHasAWholeBuild
  <2> QED
    BY <1>4, <1>10, <2>1 DEF vars
<1> QED
  BY <1>5, <1>6, <1>7, <1>8, <1>9, <1>10 DEF Next, Job

LEMMA SiteInvCorrect == Spec => []SiteInv
<1>1. Spec => []TypeOK
  BY TypeCorrect
<1> QED
  BY <1>1, SiteInvInit, SiteInvNext, PTL DEF Spec

\* However the runs overtake each other, nothing but what main built and passed
\* its checks reaches the site.
THEOREM OnlyVettedMainPublished == Spec => []OnlyVettedMainOnSite
<1>1. SiteInv => OnlyVettedMainOnSite
  BY DEF SiteInv, Vetted, OnlyVettedMainOnSite, MayPublish
<1> QED
  BY <1>1, SiteInvCorrect, PTL

\* ... and there is always one whole build on it.
THEOREM SiteStaysWhole == Spec => []SiteHasAWholeBuild
<1>1. SiteInv => SiteHasAWholeBuild
  BY DEF SiteInv
<1> QED
  BY <1>1, SiteInvCorrect, PTL
=============================================================================
