# Verification of the oneAPI specification's build tools

The repository holds the oneAPI specification and the programs that build and
publish it.  This directory models those programs in TLA+: what they promise,
checked by TLC on small instances and, for the central promises, proved by TLAPS
for every instance.

## The system

| part | source | state it keeps | operations |
|---|---|---|---|
| incremental build | `source/elements/oneDAL/dalapi/extension.py`, `utils.py` | links (document -> time) in Sphinx's pickled environment; modification times of headers and XML; per-process caches | `link_docname`, `get_outdated_docnames` (on `env-get-outdated`), running doxygen |
| directives | `dalapi/directives.py` | none of their own | `run`: link, look an entity up, excerpt its header, emit reStructuredText |
| reStructuredText builder | `dalapi/generator.py` | the list of lines | `add_*`, each with its assertions |
| index and loader | `dalapi/doxypy/index.py`, `loader.py`, `parser/__init__.py` | name -> entry, entry -> model, refid -> model | `find`, `load` |
| listing reader | `dalapi/doxypy/listing.py` | name -> lines | `read` |
| model and its builders | `dalapi/doxypy/model.py`, `builder.py` | the model tree | `build`, `visit` |
| transformers | `dalapi/transformers.py` | none (they change the model in place) | names, properties, descriptions |
| roles, command line | `dalapi/roles.py`, `doxypy/cli.py` | none | text functions, printing |
| build driver | `scripts/oneapi.py` | working directory, indentation, files | `html`, `latexpdf`, `spelling`, `prep`, `clean`, `sort-words`, docker commands |
| publishing pipeline | `.github/workflows/pr.yml` | the `gh-pages` branch, the artifact of each run | `checks`, `build`, `publish_site` |
| configuration | `source/conf*.py`, `source/conf/` | settings | read once |

How they interact.  The driver runs doxygen (`prep`) and `sphinx-build`; Sphinx
loads its pickled environment and the `dalapi` extension, asks the extension
(event `env-get-outdated`) which documents to read again, reads them, pickles
the environment and writes the pages.  Reading a document runs its directives,
which call back into the extension: they store a link in the environment, ask
the index (which parses doxygen's XML lazily) and the listing reader (which
reads the header itself).  The pipeline runs the driver for every push and lays
the result over the `gh-pages` branch.

What is hard: everything is decided by modification times while people edit the
files the build is reading; doxygen and Sphinx are separate processes that may
fail or be interrupted half way; a document combines two sources (XML and
header) read at different times; caches live as long as a process; runs of the
pipeline are concurrent and push by force.  `PROJECT.json` lists these hazards
at the line where each bites.

What makes each part correct:

- incremental build: no page stays stale without a later build noticing, builds
  converge, and a failed build harms nothing;
- index and loader: `find` returns what a plain lookup by name in the XML would,
  every model transformed exactly once;
- transformers: accessors and properties partition the functions of a class;
- listing reader: the lines returned are those of the declaration;
- directives and builder: no input the builders produce runs into an assertion;
- driver: the working directory is restored, outputs are not older than inputs;
- pipeline: only vetted builds of main are published, whole, the newest last.

## Modules

| module | models |
|---|---|
| `DalapiBuild` | the incremental build with serial reading |
| `ParallelRead` | the same build when Sphinx reads in parallel |
| `ScriptedBuild` | the same build started by `scripts/oneapi.py` |
| `PublishPipeline` | the GitHub workflow |
| `XmlNames` | what doxygen's XML says, and how it is named: shared by the next two |
| `Lookup` | abstract: what asking for a name promises |
| `DoxypyIndex` | the index and the loader, shown to implement `Lookup` |
| `TagsPage` | extends `DoxypyIndex`: a page put together by several finds |
| `Listing` | the excerpts of headers |
| `ClassPage` | from the functions of a class to the sections of its page |
| `Description` | from the text of a comment to the page |
| `FunctionPage` | from the documentation of parameters to the page |
| `CppScopes` | in which C++ scope directives declare what they show |
| `Roles` | `capterm` and `txtref` |
| `OneapiDriver` | every command of `scripts/oneapi.py` and its recursion |
| `WordList` | `sort-words` |
| `Ordered` | places of a list in their order: what a Python comprehension keeps |
| `Builds_proofs` | theorems about `DalapiBuild` and `ScriptedBuild` |
| `PublishPipeline_proofs`, `Listing_proofs` | theorems about the module they are named after |
| `OneapiDriver_proofs` | theorems about `OneapiDriver` and `WordList` |
| `DoxypyIndex_proofs` | theorems about `DoxypyIndex` and `TagsPage` |
| `ClassPage_proofs` | theorems about `ClassPage`, `FunctionPage` and `CppScopes` |
| `Text_proofs` | theorems about `Roles` and `Description` |
| `Recursion_proofs` | induction, recursive definitions, sequences, `Ordered` and ranks, as theorems the others cite |
| `MCDalapiBuild`, `MCParallelRead`, `MCScriptedBuild`, `MCPublishPipeline`, `MCTagsPage`, `MCListing` | small sets for TLC |
| `MCCommands` | `OneapiDriver` and `WordList` side by side, for TLC |
| `MCPages` | `ClassPage`, `Description`, `FunctionPage`, `CppScopes` and `Roles` side by side, for TLC |

Definitions named after a fault (`Render_Unchecked`, `Outdated_HppOnly`, ...) and
marked "Mutant" are variants of the definition that follows them; each breaks
one of the properties, which shows that the property depends on the code.

### DalapiBuild

A header declares one entity and a directive names one entity, so directives
name headers.  Contents are version numbers (0: no file, or no entry in the
XML); all that matters about a page is from which version of the XML and of the
header each of its entries was made.

| state | code |
|---|---|
| `hppVer`, `hppStamp` | the `*.hpp` files and their mtimes |
| `xmlVer`, `xmlStamp` | doxygen's XML; the newest mtime of its files, which is all `_xml_timer` looks at |
| `rstVer`, `uses` | the `.rst` sources |
| `linked`, `read`, `page` | what Sphinx saves: `env.dalapi_linked_docnames`, the stamp of each document, the output |
| `mlinked`, `mread`, `draft` | the same in the memory of a running build |
| `text`, `mtext` | history: the source each page, saved or in the making, was really made of |
| `xml_mtime`, `hpp_mtime` | the locals of `get_outdated_docnames` |
| `listing` | `ListingReader._cache` |
| `parsed` | the versions a running doxygen may have parsed |
| `late`, `calm`, `quiet` | history variables, used by properties only |

| action | code |
|---|---|
| `StartBuild` | Sphinx compares its documents; `get_outdated_docnames` up to the comparison of the timers |
| `RunDoxygen`, `DoxygenDone` (`DoxygenWrites`), `DoxygenFails` | `ProcessHandle.run`; `check_call` raises on failure, some files may be written, one of them cut off |
| `CollectOutdated` | the rest of `get_outdated_docnames` |
| `BeginDoc`, `EndDoc` | Sphinx reads one document: the source is taken first, and stamped as read last |
| `LinkDocname` | `DoxyDirective.init` -> `link_docname` |
| `Render`, `RenderFails` | `rst()`: `index.find` and `listing.read`, or their exceptions |
| `Commit` | Sphinx pickles the environment and writes the pages |
| `Interrupt` | the process ends anywhere else |
| `EditHeader`, `DeleteHeader`, `EditDoc` | people, at any time |

Time.  Only the order of stamps matters, because the code only compares them.
`now` is the stamp of the last file written; an edit is stamped `now + k` for a
`k` in `EditTicks` (0: the same tick of the file system's clock), a doxygen run
`now + 1`, a link `now`: a link compares with earlier and later stamps as the
real time between them would.

Sphinx stamps a document when it has read it, so an edit of a `.rst` during its own
reading is older than the stamp and stays out of the page until the next one.
`Overlooked(d)` names such a document, by comparing `text` with `read`; the
properties about fresh pages except it, and without the exception TLC finds the
edit.

`late` collects the headers whose XML the modification times *cannot* call
outdated: edited while doxygen ran, edited in the tick of its last file, deleted,
or left behind by a failed run.  The properties say that nothing else ever goes
unnoticed; what is late is unnoticed until the next edit of any header.

Taken together in one step: Sphinx's comparison of documents with the two timers
(only edits of headers could come between, and they count as before it), and the
pickling of the environment with the writing of the pages (Sphinx's own).
Directives run in any order; the order in a document does not matter to the
properties.  Removing a document is not modelled: Sphinx reports it in
`modified_docnames`, the link goes, and nothing refers to it.

Properties (`MCDalapiBuild`; run `build_safety` unless another is named):

- `XmlTrust`: XML that is not behind by its mtime was made from the headers as
  they are, except late ones.
- `NoSilentStaleness`: a page that shows an old version of a header was linked
  before the XML, or its header is newer than the XML or late.
- `EveryRenderedPageIsLinked`: a page with entries is watched.
- `TwoQuietBuildsSuffice`, `ThirdBuildReadsNothing`: two complete builds started
  after the last edit bring every page up to date, and a third reads nothing.
  Overlooked documents and late headers are excepted.  One build does not suffice, because links are compared with the mtime the XML
  had before the build ran doxygen.  The exception in `ThirdBuildReadsNothing`
  is real: a document that was outdated when the build began and lost its
  directives before it was read stays linked with an old time, and every build
  reads it again until it is edited.
- `OneForcedBuildSuffices` (run `build_forced`): with `DALAPI_ALWAYS_REBUILD` one build is enough.
- `EventuallyFresh` (run `build_live`): under `LiveSpec`, every page becomes and stays fresh,
  unless a header is late, a document overlooked or names an entity no header declares.
- `TypeOK` says among other things that a page shows no entity without XML or
  header: `Render` has its guard from `find` and `read`, which raise.
- `QuietInv`: the inductive invariant of the proofs; `BuildInv` is its part about staleness.

That a directive raises for what a comment says (an assertion of `RstBuilder`) is
not part of this module: `EventuallyFresh` speaks of documentation that renders.

Fairness: `WF_vars(BuildStep)` says that somebody keeps starting builds and that
a build in progress proceeds: a build is a sequential program without waiting.
Edits and faults have no fairness and are bounded.

Bounds: two headers and two documents (a document with several directives, two
documents sharing a cached listing), two edits (one before or during doxygen,
one while documents are read, which is what the two-build argument needs) and
one fault.  Builds are not bounded: the clock moves with edits and doxygen runs
only, so the state space is finite.  `build_live` uses one document, since
symmetry is unsound there and the pages do not interact except by the caches.

### ParallelRead

`dalapi/__init__.py:12` declares `parallel_read_safe`.  Sphinx (given `-j` and
more than five documents) then reads in forked workers and merges what it knows
of; an extension merges its own data in `env-merge-info`, which this one does not
handle.  The links stay in the workers.  `parallel_read` shows that what serial
reading guarantees (`TwoQuietBuildsSuffice`) fails: a page is never outdated.

### ScriptedBuild

`oneapi.py html` and its siblings run doxygen (`prep`) and then Sphinx.  The module
extends `DalapiBuild`: Sphinx's part of a scripted build *is* that build, with
`page` now the doctree, since here the outputs are told apart.

| state | code |
|---|---|
| `script`, `target` | where `build` is, and its `target` |
| `indexStamp`, `includeStamp` | the two sides of `up_to_date(index.xml, Doxyfile + include/**)` |
| `toWrite`, `html`, `htmlVer` | the documents Sphinx is to write; the html pages and which source they are not older than |
| `builds` | the bound on builds |
| `steady`, `done`, `skipped` | history variables |

| action | code |
|---|---|
| `Build(t)` | `build` -> `prep` -> `doxygen`, with `UpToDate` |
| `PrepEnds`, `PrepFails`, `LaterPrepFails` | `shell` returns or raises, for oneDAL or an element after it |
| `SphinxStarts`, `SphinxReads`, `SphinxDoxygenDone`, `SphinxFails` | the steps of `DalapiBuild` |
| `SphinxPickles`, `SphinxWrites`, `SphinxFailsToWrite` | its `Commit`, and the writing that follows |
| `Clean` | `clean` |

`doxygen` compares paths that begin with `root` after `cd(root)`, so with a relative
root (what README.rst shows: the script is started at the top, and the root of
oneDAL is `./source/elements/oneDAL`) `index.xml` is never found and doxygen runs
before every build.  The root `.` of a script started inside oneDAL is relative,
too, but joined twice it is still the same place: that is the case of
`AbsoluteRoot`.  `script_relative` shows what that buys:
`ScriptedBuildSuffices` (one build makes every doctree fresh, with no excuse for
what the modification times of headers hide) and `HtmlIsCurrent` (the html pages are current
although other targets use up the reasons to read a document, and although a
build may fail once the environment is pickled).  `script_absolute` is the same
with the comparison working as written: a header that is late stays late, and the
html page of a document last read by `latexpdf` stays old.  Both except overlooked
documents.  An edit between `prep` and Sphinx ends `steady`: that build promises
nothing, and the properties say that the next one does.  The one further excuse both
need in `HtmlIsCurrent` is a document without directives, edited while its html
was built and then read by `latexpdf`.  Each excuse was checked to be needed, by
leaving it out.
`ScriptInv` is the inductive invariant of the proofs.

Bounds: one header, one document, two edits, one fault and four builds: an html
build, one of another target, an html build that must repair what they left, and
one that may fail.  The builds are bounded because each doxygen run moves the clock.

### PublishPipeline

One record per run of the workflow, spread over functions: its ref, the pages of
its artifact, the outcome of `checks` and `build`, and how far `publish_site` has
come.  `TypeOK` also says that `publish_site` begins when both jobs it needs have
ended.  `CheckoutPages` copies the branch, `PushPages` replaces it by the artifact
laid over that copy: `git push --force` cannot be rejected.  Jobs of different
runs interleave freely since the workflow names no concurrency group; any job may
fail.  `publish` (three runs, two pages) checks `OnlyVettedMainOnSite`,
`SiteHasAWholeBuild` (runs that overtake each other never mix their pages: all those
of one published run are there, beside pages that only older runs had) and, with every job run to its end (GitHub's scheduler:
`WF_vars(Job(r))`), `EveryGoodBuildPublishes`.  The behaviours stop when every
run has ended, so deadlock is not checked.  `publish_race` shows that the README
promise of "the latest build from main branch" fails: of two pushes the older
run may publish last.

### XmlNames, Lookup, DoxypyIndex

`Lookup` is the contract a directive relies on: once a process has taken a
version of a compound's XML it keeps it, and a query is answered from what was
taken: the compound of that name, else the member a fixed order prefers, else
"missing".  `DoxypyIndex` does this lazily:

| state | code |
|---|---|
| `disk`, `catalog` | the XML file of each compound (0: none that can be read), and what `index.xml` lists |
| `listed` | `Index._index` |
| `tree` | `_IndexEntry._model` and `ModelLoader._cache`, which hold the same object; `passes` is 1 because `Load` parses, builds and transforms in one step: that the passes do this once is `ClassPage`'s subject |
| `stage`, `query`, `at` | where a `find` is |
| `reply`, `told` | the last answer; history: the first answer to each query |

| action | code |
|---|---|
| `Open` | `Index.__init__`, when `Context.index` is first used |
| `Find`, `FindNoEntry` | `Index.find`: a compound of that name, or of its prefix, or a KeyError |
| `Load`, `LoadFails` | `_IndexEntry.model`, `ModelLoader.load` |
| `FindOwn`, `FindInner`, `FindNothing` | the two ways `find` ends, `_find_inner` |
| `Exit` | the end of the process, with all it knew |
| `WriteXml`, `WriteIndexXml` | doxygen, at any time |

`AnswersAgree`: a process never answers a query in two ways.
`MissingIsUndeclared`: what it calls missing is declared nowhere that `find`
promises to look, in the XML it has taken; the exception, a compound hidden by a
later one whose name differs by an inline namespace, is real.  `ImplementsLookup`: the refinement;
`taken` is the version of each tree and everything before an answer stutters.

The accessors and the static functions of a class cannot be found by name: the
property transformer has removed the first, and the second are in a list `find`
does not look into.  `Findable` says so.

### TagsPage

`onedal_tags_namespace` finds the namespace, then each class its XML refers to,
by name.  Between two finds doxygen may write; other documents of the process
ask the same index (`Elsewhere`).  `PageIsComplete`: a page shows each class
referred to, in order, then each typedef; another class than the one meant only
if their names agree and the index hides the one meant, or keeps no entry of it.  That two pages of one
process agree is `AnswersAgree`.  `MixedOnlyWhenRewritten`: a page mixes versions of
the XML only if it was rewritten while the process lived.  Nothing prevents it then;
what the property excludes is that something is kept from an earlier process.

`index_pages` checks all of this on one instance: three compounds of which two
share a name, two versions each with different members (an enum, a typedef,
functions and overloads of one name; an accessor, a static function and
overloads of another), three queries.  A process may make any number of pages,
and processes follow one another.

### Listing

A header is a function from line numbers to kinds of lines: blank, comments with
and without braces and semicolons, code likewise.  `Declares` says in terms of
C++ (depth of braces outside comments) which locations doxygen may report;
`Read`, `Up`, `FindEnd`, `Semicolon`, `Braces`, `Collect` and `Fail` are the
reader's loops, a line at a time.

`ExcerptIsDeclaration`: of a header that is as doxygen saw it, the excerpt is the
declaration without its comments, provided it stands apart from what precedes it
and nothing in it looks like its end.  Both provisos are needed: without a blank
line or comment above, a declaration shows its neighbour; a `;` in a comment ends
the excerpt of what has no body.  `ReadsAgree`: all excerpts a process shows of a
declaration agree, whether or not blank lines are wanted and whatever is edited
in between; the exception is an empty excerpt, which counts as not read.

`listing`: all headers of up to four lines of nine kinds and of five lines of
seven, all declarations in them; headers of up to three lines (`EditLines`) are
edited, twice.  Five lines hold a namespace with a nested block and a comment, or
with a `}{` in it; a `{}` or a brace in a comment needs four at most; edits need a
line before, in and after a declaration.

### ClassPage, Description, FunctionPage

The three run once from the XML to the page, so every initial state is an input.

`ClassPage`: `MakeProperty` turns one pair of accessors into a property, in any
order (the code takes the intersection of two sets); `Describe` is the visit
of the last pass; `Render` the sections of `ClassDirective`.
`AccessorsBecomeProperties`: functions stay partitioned (`FunctionsPartitioned`)
and properties are made of last overloads (`LastOverloadWins`); each description is visited once although a property
shares its getter's (`DescriptionsVisitedOnce`), and the page shows each function
once (`EveryFunctionShownOnce`).  Destructors and conversion operators have no
return type, and stand under "Constructors".  Bounds: four functions, two names
of properties: an overloaded accessor and two pairs.

`Description`: texts are tokens, and what is written refers to places in
the comment.  `BuildRuns` is `DescriptionBuilder`, `Transform` is
`RstDescriptionTransformer`, `Format` is `format_description`.  `WordsSurvive`:
no word is lost, repeated, moved, or marked up as what it is not, except in
elements the builder ignores (links, emphasis, lists).  `RolesReachTheirCode`:
exactly the roles that end the text before code are applied to it; other code
or a formula between the two, even an empty one, keeps them apart, an element the
builder ignores does not.  The run checks both as `TextSurvives`.  Left out is how the code treats white space
other than blanks: a text of newlines and tabs alone is dropped (`builder.py:111`),
a role may stand before a last newline (`$` in `transformers.py:93`), and the
result is stripped (`directives.py:57`).  Bounds:
comments of three pieces of three tokens.

`FunctionPage`: `BuildParameters` finds what is said of each parameter, `Heading`,
`AddParams` and `AddConditions` write it, `AssertionFails` is `RstBuilder`'s.
`WhatIsSaidIsShown`: a row says what was said of a parameter of that name and sort
(`RowsMatchTheirParameters`), what is not shown stands in one of three places
the builder does not look at, and a page fails only for an item without words.
Bounds: two names, one of them of a parameter of both sorts; lists of up to three
items, two lists in a paragraph or two paragraphs.

### CppScopes

`RstBuilder` writes lines at a level; `Namespace`, `Declare` and `LeaveContent` are
what Sphinx's C++ domain makes of them (external, modelled from how the lines
must nest).  `NamesAreInTheirScopes`: whatever stands above a directive, a name
is declared in its parent; the exception, real, is a parent that is the global
namespace, for which nothing is written.  Properties, which have no namespace of
their own, must be declared in one symbol with the functions of their class.
`NothingLeaks`: after a directive no class it showed stays open.  The run checks
both as `ScopesAreKept`.
Bounds: all documents of three directives out of ten.

### Roles

A text is a sequence of characters.  `Capterm*` and `Txtref*` are the branches of
the two roles, `Resolve` is Sphinx's `XRefRole`.  Both roles' regular expressions
are greedy; `AuthorsAreUnderstood` (`TargetIsTheLabel`, `ShowsWhatIsWritten`) compares them with how an
author reads the text (the last brackets hold the label).  Exceptions that
are real: `capterm` drops what follows its brackets, and a `txtref` with an alias
keeps the blanks around its label.  Bounds: texts of six characters, enough for
two pairs of brackets with something in one of them.

`pages` checks these five modules side by side (`MCPages`): a behaviour is about
one of them and the variables of the others rest.  They stop when the page is
written, so deadlock is not checked.

### OneapiDriver and WordList

`OneapiDriver` keeps the calls in progress on a stack, one record per Python call.
`Main` starts a command, `NextElement` and `AfterElements` are the loop of
`apply_dirs`, `Leave` the end of `action`, `EnterCd` and `LeaveCd` the context
manager, `Sphinx`, `RunDoxygen`, `NothingToDo` and `Docker` the shell commands,
`Fail` and `Unwind` an exception on its way.  `DirectoriesKept`: a command runs in
its directory at any depth (`EachRunsInItsPlace`), and the script leaves the one it
was started in as it was (`Restored`); `EveryElementIsReached` says that a
command that ends well came to every root below its own and that no page is
written while the XML of one is not up to date; `EndsAtLast` that the recursion
ends.  What doxygen's skipping does to pages is `ScriptedBuild`'s subject.

Fairness: `WF_vars(Step)`, a script that runs goes on: it is one thread, and the
shell commands it waits for end.  Failures (`Fail`) and new commands have none.

`WordList` is `sort-words` while people edit the list, down to its characters,
since what is written may be cut anywhere.

| action | code |
|---|---|
| `Read`, `Truncate` | `readlines` and the sorting of what it returns; `open(..., 'w')` |
| `Write`, `Flush` | `fout.write` puts a line into the buffer, which is written to the file, up to any place, when it is full |
| `Close`, `Interrupt` | the end of the `with` statement, also by an exception: the rest of the buffer is written |
| `Kill` | the process ends without that |
| `Open`, `Save` | an editor opens the list, and saves it with a line more: in place, or as a new file under the name, which the open handle of `sort-words` does not notice |

Editors act at any step, also between two writes.  `WordsSurvive`: while nothing of
the file is still to be written, the list holds exactly the words people put into
it, unless one of these has happened, which `spoilt` records:

- the process ends before all is written to the file under the name;
- the list is saved between the read and the truncation;
- it is written to in place while it is half-written (one writes over the other);
- an editor saves a text it opened half-written;
- a last line without newline is sorted before another (two words become one).

Everything else does no harm: an edit before the read or after the end, a new file in
place of the one being written, an interrupt before the truncation or once all
lines are in the buffer.  A sort nobody disturbed leaves each line once, in order.
There is one editor, and a save is one step; `sort-words` ignores `--dry-run`.

`commands` checks both side by side (`MCCommands`): a tree of two elements, the
first of which has elements itself (two levels of recursion); three words (one begins
another), three edits and two interrupts, which is a disturbed sort, a second one
and what either leaves for the next.  Commands may end for good, so deadlock is not
checked.

## Proofs

All theorems hold for every value of the constants, under the assumptions the
modules state about them (mostly types; what `XmlAssumption`, `TagsAssumption`,
`FunctionAssumption` and `ScopesAssumption` say beyond that is how doxygen nests and
names things, and that a directive is given what it is for).
Each safety property below is proved in the same way: a stronger invariant holds
at first and is kept by every action, one step per action, and implies it.

### The incremental build

`BuildInv` strengthens `XmlTrust` and `NoSilentStaleness`.  A stale page is
excused by comparing its link with the XML, but a build moves links forward and
replaces pages while it reads.  So the invariant also says that no stamp lies in
the future (`ClockInv`: a doxygen run makes the XML newer than every link), that
doxygen's candidates include the header as it is (`ParsedInv`), that a cached
listing is current or its header changed after it was read (`ListingInv`), that
an unsaved page whose document is no longer to be read is as good as a saved one
(`DraftInv`), and that the page being read needs no link to be excused
(`CurInv`).  `PagesAreLinked` needs the same of links, in memory and saved
(`LinkInv`).

`QuietInv` adds what builds achieve while nobody edits.  `TwoBuildsSuffice`: the
first undisturbed build leaves the XML not behind any header (`CalmInv`), so the
second compares links with the XML as it is, reads every page that `BuildInv`
excuses by its link, and leaves only what is late (`FreshInv`).
`OneForcedBuildIsEnough` is the same argument with nothing compared.
`ThirdBuildIsIdle` needs that links made after the last doxygen run are not older
than the XML (`RestInv`), and that pages name what their documents do
(`NamesInv`, `VersionInv`: of the source they were made of, `text`), which is also
what makes "nothing stale" mean "fresh" of a document that is not overlooked.

For scripted builds `Builds_proofs` uses the lemmas about `DalapiBuild`'s actions for Sphinx's
part of a build, and adds one invariant for each stage: `prep` disturbs
nothing of Sphinx's (`PrepInv`); an undisturbed Sphinx after it finds the XML
newer than every header, and with a relative root newer than every link
(`SteadyInv`); what it then saves is fresh (`SavedInv`: `OneScriptedBuildIsEnough`);
and the html of a document is its doctree unless another target or a failure
kept it from being written (`HtmlInv`: `HtmlFollows`).

### The pipeline and the driver

`SiteInv` says of every tree a job has checked out what `OnlyVettedMainOnSite` says
of the site, and that a job that publishes was allowed to and stays so
(`MayPublishStable`).

`DriverInv` says of the whole stack that only its top can be inside a `cd`, that
the directory saved is the start, and how the indentation follows from the calls
in progress.  `ElementsAreReached` is about what the stack still owes: `ReachInv`
says that each call has left behind what the steps it has counted had to do,
except the one it waits for, which is the call above it.

`WordsInv` says that as long as nothing has spoilt the list, and only `sort-words` has
touched the file since it began to write, the file is the part of what was
written that has left the buffer, and the words written and those of the lines left
are all the words, each line in its place (`Follow`); once an editor has put a new
file in place, that file holds them all.  `SortedLists` is about the order:
text compares as a strict total order (`SmallerIsAnOrder`), so the lines before a
line are as many as its place, and sorting is a permutation.  `SpansAppend`,
`WordsAppend` and `LineMoves` say what a line more does to the lines, the words and the
order of a text; `FlushContinues` that the buffer goes on where it stopped.

### The index and the pages made from it

`IndexInv` is `TypeOK`, that a find under
way has come to the entry its query asks for (`FindInv`), and that every answer
remembered is what `Lookup` would answer from the trees kept now (`AnswerInv`).
The last is inductive because a tree, once kept, is not replaced before the
process ends (`AnswerStable`).  From it follow `ProcessAgrees`,
`MissingIsMissing` and, action by action, `IndexImplementsLookup`.

`PagesUseTheIndex`: each step of `TagsPage` is a step of the index or leaves it
alone, so all of the above holds while pages are made.  `TagsInv` adds where the
directive stands and what it has written (`PageInv`) and that the trees of a
process are what the disk holds unless that was rewritten (`ReadInv`);
`PagesAreComplete` and `VersionsAreOfOneDisk` follow.  That a page's typedefs are
those of the tree that was read needs the tree to be still the one kept when the
page ends (`PageStays`).

`ClassInv` says of every property which accessors it has and that the names still
to be made have theirs in the list; the property order does not matter.
`FunctionInv` says that the rows written are the descriptions found, for each
sort of parameter once it has been written; that every other thing said stands
in a place the builder does not look at is `DescribesIsSaid` and
`DescriptionIsFound`, about what the search returns.

`ScopesInv` has two halves.  What a directive writes (`DirectiveWrites`, for classes
of any size): a name follows its namespace at once, members come after the class, and
the properties after every namespace.  What the scope is when a line is parsed: the
one its namespace has just opened (`RstInv`); for a property the class with its
template parameters if no documented function came before it, and without them if one
did, since a namespace has set the scope once and for all of the content
(`MembersInv`); and, once all content is left, the parent of something shown
(`MarginInv`).  Each step takes the first line off, so both halves are about what is
left of the lines.

### Texts

`RolesInv` says of what a role hands to Sphinx that it is either the text as
written, of a `txtref` with an alias, or a title followed by a target in brackets
(`Says`), where the title is what is to be shown and the target has no `<` in it,
so that Sphinx takes the two apart where the role put them together.  What the
greedy regular expressions match is the last `<` and the last `>` of the text
(`LastBrackets` and what follows it), which is how an author reads it.  Texts with
brackets but without a label in them are those the property says nothing about.
Texts may be of any length.

`TextInv` says of each phase what the runs are: `Built` of the content, then the same
with roles applied (`WithRoles`), and that what is written is theirs.  It is simple
because each step happens once; the work is in what `Built` is.  Each run is cut
from one piece of the comment, later runs from later places (`IsCut`), and of
what the builder looks at nothing in front of a run is lost (`IsWhole`):
`RunsOfPiece` shows both of one piece, `FlatIsCut` of all pieces, and `BuiltIsCut` of
what is left without trailing blank runs.  So each word is written once and in order
(`WordsAreWritten`), since what `Transform` takes out of a text is a `:role:` at its
end.  For the second half, a run of code follows a text that ends with a role
exactly if that role is the last thing kept before it (`TakenIsBefore`,
`BeforeIsTaken`).  Comments may have any number of pieces, of any length.

### The listing reader

`CacheInv`: while a file is searched there is no content, and every excerpt shown
that is not empty comes from the content kept.  `ExcerptInv` states what each
loop has established: no line passed could have ended the search, and the
counter is the depth of braces at the line the loop has come to, a sum over the
lines (`DepthAddsUp`).

### Induction

The provers cannot instantiate a theorem about an operator, so
`Recursion_proofs` states what the others need about sets and functions:
`LeastNatural` and `Induction` about sets of naturals, `Recursion` and `Sums`
about functions defined along them, and `InOrderLists`: a finite set of numbers
can be put in order.  For the same reason `Ordered` stands where `SelectSeq` with a
test would.  `Flattened` is about `FlattenSeq`: blocks of a kind that is closed under
concatenation make one of that kind, and its elements are those of the blocks;
`FlattenedPlaces` says which element of which block stands where, and `ThoseLists` the
same of the elements `Ordered` picks.

### Model-checked only

- `EventuallyFresh`, `EveryGoodBuildPublishes` and `EndsAtLast`: liveness is out
  of the prover's reach.
- `CommandsTypeOK` and `PagesTypeOK` join the type invariants of modules that a run
  checks side by side; each of these is proved of its own module.
- The two violations: TLC shows a behaviour.

## What the runs found

- Links made in forked readers are lost (`parallel_read`).
- An older run of the pipeline can overwrite the pages of a newer one
  (`publish_race`).

Not findings, but worth knowing:

- an edit during a doxygen run is not noticed until the next edit of a header; a
  failed doxygen run can leave partial XML that counts as current; one build by
  Sphinx alone after an edit may not be enough; the doubled path in `oneapi.py`
  repairs all three;
- an `@param` that says nothing in words ends the build: `add_params`
  (`directives.py:77`) only checks that there is a `Description`, an object that is
  always true, and `RstBuilder.add_param` (`generator.py:29`) asserts its text;
- the order of a class's properties differs between processes
  (`transformers.py:79`);
- paragraphs of a description are joined without a separator (`builder.py:101`);
- the exceptions each property above calls real.

## State of the plan

All modules planned are written and checked, and every safety property of
`DalapiBuild`, `ScriptedBuild`, `PublishPipeline`, `DoxypyIndex`, `TagsPage`,
`Listing`, `ClassPage`, `Description`, `FunctionPage`, `CppScopes`, `Roles`,
`OneapiDriver` and `WordList` is proved.  What is left to TLC is listed under
"Model-checked only".

## Not modelled

- The XML bindings (`doxypy/parser/compound.py`, `index.py`) are generated by
  generateDS: 46,000 of the 49,000 lines of Python here, one class per
  element of doxygen's schema, each copying attributes and children.  They have no
  logic of this program's own; the modules take their result as what the XML says.
- The builders that copy single fields (declarations, template headers,
  locations) and the layout of lines in `generator.py`.
- `doxypy/cli.py` prints the index; it keeps and changes nothing.
- `source/conf.py`, `source/conf/`: assignments that Sphinx reads, and a table of
  regular expressions for highlighting.
- `.gitlab-ci-onetbb.yml`, `scripts/install.sh`: independent jobs that call the
  driver; a list of packages.
- The text of the specification, its C++ headers and examples: no program.
