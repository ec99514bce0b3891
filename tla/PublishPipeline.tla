-------------------------- MODULE PublishPipeline --------------------------
(***************************************************************************)
(* The GitHub workflow .github/workflows/pr.yml.                           *)
(*                                                                         *)
(* Every push to main and every pull request starts a run with the jobs    *)
(* `checks` and `build`.  On main, `publish_site` follows when both are    *)
(* done: it checks out the gh-pages branch, lays the run's site over it,   *)
(* amends the branch's only commit and pushes it by force.  Runs are       *)
(* concurrent: the workflow names no concurrency group.                    *)
(*                                                                         *)
(* A run is known by its number, in the order of the pushes.  A tree says, *)
(* for every page, which run built it: 0 is "no such page".                *)
(***************************************************************************)
EXTENDS Naturals

CONSTANTS
  Pages,     \* the files a site may have
  MaxRuns    \* bound on the runs of a behaviour

ASSUME PipelineAssumption == MaxRuns \in Nat

VARIABLES
  started,   \* the number of runs started
  ref,       \* run -> "main" or "pull"
  artifact,  \* run -> pages of the site it builds
  checks,    \* run -> outcome of the job: "none" until it ends
  build,
  publish,   \* run -> "none", "base" (gh-pages checked out), "done", "failed"
  base,      \* run -> the gh-pages tree its publish job checked out
  site       \* the tree of the gh-pages branch

vars == <<started, ref, artifact, checks, build, publish, base, site>>

Runs == 1..MaxRuns
Outcome == {"none", "ok", "failed"}
NoTree == [p \in Pages |-> 0]

Init ==
  /\ started = 0
  /\ ref = [r \in Runs |-> "pull"]
  /\ artifact = [r \in Runs |-> {}]
  /\ checks = [r \in Runs |-> "none"] /\ build = [r \in Runs |-> "none"]
  /\ publish = [r \in Runs |-> "none"]
  /\ base = [r \in Runs |-> NoTree] /\ site = NoTree

\* on: push to main, or pull_request.
Start(b, ps) ==
  /\ started < MaxRuns
  /\ started' = started + 1
  /\ ref' = [ref EXCEPT ![started'] = b]
  /\ artifact' = [artifact EXCEPT ![started'] = ps]
  /\ UNCHANGED <<checks, build, publish, base, site>>

ChecksEnd(r, outcome) ==
  /\ r <= started /\ checks[r] = "none"
  /\ checks' = [checks EXCEPT ![r] = outcome]
  /\ UNCHANGED <<started, ref, artifact, build, publish, base, site>>

BuildEnd(r, outcome) ==
  /\ r <= started /\ build[r] = "none"
  /\ build' = [build EXCEPT ![r] = outcome]
  /\ UNCHANGED <<started, ref, artifact, checks, publish, base, site>>

\* Mutant: the job lacks its condition on github.ref.
MayPublish_AnyRef(r) == checks[r] = "ok" /\ build[r] = "ok"

\* Mutant: the job lacks its `needs`.
MayPublish_NoNeeds(r) == ref[r] = "main"

\* needs: [checks, build]; if: github.ref == 'refs/heads/main'
MayPublish(r) == checks[r] = "ok" /\ build[r] = "ok" /\ ref[r] = "main"

CheckoutPages(r) ==
  /\ MayPublish(r) /\ publish[r] = "none"
  /\ publish' = [publish EXCEPT ![r] = "base"]
  /\ base' = [base EXCEPT ![r] = site]
  /\ UNCHANGED <<started, ref, artifact, checks, build, site>>

\* The artifact extracted over the branch: pages it does not have stay.
Overlay(r) == [p \in Pages |-> IF p \in artifact[r] THEN r ELSE base[r][p]]

\* git commit --amend; git push --force: never rejected for what was pushed
\* since the checkout.
PushPages(r) ==
  /\ publish[r] = "base"
  /\ publish' = [publish EXCEPT ![r] = "done"]
  /\ site' = Overlay(r)
  /\ UNCHANGED <<started, ref, artifact, checks, build, base>>

\* Mutant: the pages are copied one by one, so a failure leaves some of them.
PublishFails_HalfCopied(r) ==
  /\ MayPublish(r) /\ publish[r] \in {"none", "base"}
  /\ publish' = [publish EXCEPT ![r] = "failed"]
  /\ \E ps \in SUBSET artifact[r] :
       site' = [p \in Pages |-> IF p \in ps THEN r ELSE site[p]]
  /\ UNCHANGED <<started, ref, artifact, checks, build, base>>

\* Any step of the job may fail before the push takes effect.
PublishFails(r) ==
  /\ MayPublish(r) /\ publish[r] \in {"none", "base"}
  /\ publish' = [publish EXCEPT ![r] = "failed"]
  /\ UNCHANGED <<started, ref, artifact, checks, build, base, site>>

\* Mutant: a newer run cancels the older ones.
Job_CancelsOlder(r) ==
  /\ r = started
  /\ \/ \E outcome \in {"ok", "failed"} :
          ChecksEnd(r, outcome) \/ BuildEnd(r, outcome)
     \/ CheckoutPages(r) \/ PushPages(r) \/ PublishFails(r)

Job(r) ==
  \/ \E outcome \in {"ok", "failed"} : ChecksEnd(r, outcome) \/ BuildEnd(r, outcome)
  \/ CheckoutPages(r) \/ PushPages(r) \/ PublishFails(r)

Next ==
  \/ \E b \in {"main", "pull"}, ps \in SUBSET Pages \ {{}} : Start(b, ps)
  \/ \E r \in Runs : Job(r)

Spec == Init /\ [][Next]_vars

\* GitHub runs every job of every run to its end.
LiveSpec == Spec /\ \A r \in Runs : WF_vars(Job(r))

-----------------------------------------------------------------------------
Trees == [Pages -> 0..MaxRuns]

\* Type invariant, and the order of a run's jobs: publish_site begins when both
\* of the jobs it needs have ended.
TypeOK ==
  /\ started \in 0..MaxRuns
  /\ ref \in [Runs -> {"main", "pull"}]
  /\ artifact \in [Runs -> SUBSET Pages]
  /\ checks \in [Runs -> Outcome] /\ build \in [Runs -> Outcome]
  /\ publish \in [Runs -> {"none", "base", "done", "failed"}]
  /\ base \in [Runs -> Trees] /\ site \in Trees
  /\ \A r \in Runs : publish[r] # "none" => checks[r] # "none" /\ build[r] # "none"

\* Nothing but what main built, and passed its checks, is ever on the site,
\* also by way of a tree checked out earlier.
OnlyVettedMainOnSite ==
  \A p \in Pages : site[p] # 0 =>
    LET r == site[p] IN ref[r] = "main" /\ checks[r] = "ok" /\ build[r] = "ok"

\* The pages of runs that overtake each other never mix: all the pages of some
\* published run are on the site (with pages that only older runs had).
SiteHasAWholeBuild ==
  site # NoTree =>
    \E r \in Runs : publish[r] = "done" /\ \A p \in artifact[r] : site[p] = r

\* A build that main passed reaches the branch unless its job fails.
EveryGoodBuildPublishes ==
  \A r \in Runs : MayPublish(r) ~> publish[r] \in {"done", "failed"}

\* No run is under way.
Settled ==
  \A r \in 1..started :
    /\ checks[r] # "none" /\ build[r] # "none"
    /\ MayPublish(r) => publish[r] \in {"done", "failed"}

\* r is the newest of the runs that published.
Newest(r) ==
  publish[r] = "done" /\ \A s \in Runs : publish[s] = "done" => s <= r

\* README.rst: "For the latest build from main branch, see HTML and PDF".  When
\* no run is under way, the site shows the newest of the builds published.
SiteShowsLatestBuild ==
  Settled =>
    \A r \in Runs : Newest(r) => \A p \in artifact[r] : site[p] = r
=============================================================================
