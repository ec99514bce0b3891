---------------------------- MODULE OneapiDriver ----------------------------
(***************************************************************************)
(* scripts/oneapi.py: one command, applied to a root and, first, to each   *)
(* of the elements below it, by recursive calls.                           *)
(*                                                                         *)
(* A root is a path, relative to where the script was started: <<>> is     *)
(* ".", <<"oneDAL">> is source/elements/oneDAL.  So is the working         *)
(* directory.  `stack` holds the calls in progress, the last one running.  *)
(* A shell command may fail, and any call may be interrupted: an exception *)
(* leaves the calls one by one and ends the process.                       *)
(***************************************************************************)
EXTENDS Integers, Sequences, FiniteSets

CONSTANTS
  dirs,        \* the elements, a sequence of names
  Roots,       \* the directories there are
  Nested,      \* those that have source/elements
  Doxyfiles,   \* those that have a Doxyfile
  Start,       \* the roots the script is called with
  None         \* "no command"

\* Paths below the start, by the names of elements.
Paths == Seq({dirs[k] : k \in DOMAIN dirs})

ASSUME DriverAssumption ==
  /\ dirs \in Paths /\ Roots \subseteq Paths
  /\ <<>> \in Roots /\ Start \subseteq Roots
  /\ Nested \subseteq Roots /\ Doxyfiles \subseteq Roots
  /\ \A r \in Nested, k \in DOMAIN dirs : Append(r, dirs[k]) \in Roots

Commands == {"html", "clean", "prep", "dockerbuild", "dockerpush", "dockerrun"}
Calls    == {"build", "clean", "prep", "doxygen", "docker"}

VARIABLES
  stack,     \* the calls in progress: [call, root, at, saved]
  command,   \* what was asked for
  dry_run,
  cwd,
  indent,
  raised,    \* an exception is on its way out
  ran,       \* history: the shell commands that succeeded: [what, root, in]
  upToDate   \* history: roots that need no doxygen run (any more)

options == <<command, dry_run>>
vars    == <<stack, options, cwd, indent, raised, ran, upToDate>>

Call(call, root) == [call |-> call, root |-> root, at |-> 1, saved |-> <<>>]

Function(c) ==
  CASE c = "html" -> "build"
    [] c \in {"clean", "prep"} -> c
    [] OTHER -> "docker"

Init ==
  /\ stack = <<>> /\ command = None /\ dry_run = FALSE
  /\ cwd = <<>> /\ indent = 0 /\ raised = FALSE
  /\ ran = {} /\ upToDate = {}

-----------------------------------------------------------------------------
Depth == Len(stack)
Top   == stack[Depth]

\* The call the script is in; `root` as it names it is relative to cwd.
In(call) == ~raised /\ stack # <<>> /\ Top.call = call

\* Where a call is that has nothing left to do.
Finished == 0

Goto(at) == stack' = [stack EXCEPT ![Depth].at = at]
Return == stack' = SubSeq(stack, 1, Depth - 1)

\* Mutant: the loop over the elements does not move on.
Push_NoAdvance(call, rt) == stack' = Append(stack, Call(call, rt))

\* The caller goes on with its next step when the call returns.
Push(call, rt) == stack' = Append([stack EXCEPT ![Depth].at = @ + 1], Call(call, rt))

\* The functions marked @action write a header and indent what they log.
IsAction(call) == call # "doxygen"

\* Mutant: what returns is dedented, but nothing was indented.
Indented_Never(call) == indent' = indent

Indented(call) == indent' = IF IsAction(call) THEN indent + 2 ELSE indent
Dedented       == indent' = IF IsAction(Top.call) THEN indent - 2 ELSE indent

\* main.
Main(c, root, dry) ==
  /\ stack = <<>> /\ command = None
  /\ command' = c /\ dry_run' = dry
  /\ stack' = <<Call(Function(c), root)>>
  /\ Indented(Function(c))
  /\ UNCHANGED <<cwd, raised, ran, upToDate>>

\* shell: a command of root that ends well in the directory the script is in.
Ran(what, root) ==
  ran' = IF dry_run THEN ran
         ELSE ran \cup {[what |-> what, root |-> root, in |-> cwd]}

Raise ==
  /\ raised' = TRUE
  /\ UNCHANGED <<stack, options, cwd, indent, ran, upToDate>>

-----------------------------------------------------------------------------
(* apply_dirs: prep and clean go to the elements first.                    *)

HasElements == cwd \o Top.root \in Nested

NextElement(call) ==
  /\ In(call) /\ call \in {"prep", "clean"}
  /\ HasElements /\ Top.at \in DOMAIN dirs
  /\ Push(call, Append(Top.root, dirs[Top.at]))
  /\ Indented(call)
  /\ UNCHANGED <<options, cwd, raised, ran, upToDate>>

\* Mutant: the last element is left out.
AfterElements_OneShort == IF HasElements THEN Len(dirs) ELSE 1

AfterElements == IF HasElements THEN Len(dirs) + 1 ELSE 1

\* prep: then doxygen.
PrepRoot ==
  /\ In("prep") /\ Top.at = AfterElements
  /\ Push("doxygen", Top.root)
  /\ UNCHANGED <<options, cwd, indent, raised, ran, upToDate>>

\* A call that has nothing left to do returns.
Leave(call) ==
  /\ In(call)
  /\ \/ call = "prep" /\ Top.at = AfterElements + 1
     \/ call \in {"clean", "build"} /\ Top.at = Finished
     \/ call = "docker" /\ Top.at = 2
  /\ Return /\ Dedented
  /\ UNCHANGED <<options, cwd, raised, ran, upToDate>>

\* sphinx, at the end of clean and of build.
Sphinx(target) ==
  /\ \/ In("clean") /\ target = "clean" /\ Top.at = AfterElements
     \/ In("build") /\ target = command /\ Top.at = 2
  /\ Ran(target, Top.root)
  /\ Goto(Finished)
  /\ UNCHANGED <<options, cwd, indent, raised, upToDate>>

\* build: prep first.
BuildPreps ==
  /\ In("build") /\ Top.at = 1
  /\ Push("prep", Top.root)
  /\ Indented("prep")
  /\ UNCHANGED <<options, cwd, raised, ran, upToDate>>

-----------------------------------------------------------------------------
(* doxygen: inside cd(root).                                               *)

EnterCd ==
  /\ In("doxygen") /\ Top.at = 1
  /\ cwd \o Top.root \in Roots
  /\ stack' = [stack EXCEPT ![Depth] =
                 [call |-> "doxygen", root |-> Top.root, at |-> 2, saved |-> cwd]]
  /\ cwd' = cwd \o Top.root
  /\ UNCHANGED <<options, indent, raised, ran, upToDate>>

\* There is no Doxyfile, or the XML is up to date.  Inside cd(root) the XML is
\* looked for at join(root, ...) once more: it is found for "." only.
NothingToDo(fresh) ==
  /\ In("doxygen") /\ Top.at = 2
  /\ cwd \notin Doxyfiles \/ (fresh /\ Top.root = <<>>)
  /\ Goto(3)
  /\ upToDate' = upToDate \cup {cwd}
  /\ UNCHANGED <<options, cwd, indent, raised, ran>>

RunDoxygen ==
  /\ In("doxygen") /\ Top.at = 2
  /\ cwd \in Doxyfiles
  /\ Ran("doxygen", Top.root)
  /\ Goto(3)
  /\ upToDate' = IF dry_run THEN upToDate ELSE upToDate \cup {cwd}
  /\ UNCHANGED <<options, cwd, indent, raised>>

LeaveCd ==
  /\ In("doxygen") /\ Top.at = 3
  /\ cwd' = Top.saved
  /\ Return
  /\ UNCHANGED <<options, indent, raised, ran, upToDate>>

-----------------------------------------------------------------------------
(* The docker commands.                                                    *)

\* root_only, the files copied to docker/, the shell command.
Docker ==
  /\ In("docker") /\ Top.at = 1
  /\ command = "dockerpush" \/ Top.root = <<>>
  /\ Ran(command, Top.root)
  /\ Goto(2)
  /\ UNCHANGED <<options, cwd, indent, raised, upToDate>>

RootOnlyFails ==
  /\ In("docker") /\ Top.at = 1
  /\ command # "dockerpush" /\ Top.root # <<>>
  /\ Raise

-----------------------------------------------------------------------------
(* Failures.                                                               *)

\* A shell command fails, a directory is missing, somebody interrupts.
Fail == stack # <<>> /\ ~raised /\ Raise

\* Mutant: the working directory is restored by a plain return only.
Unwind_NoCd ==
  /\ raised /\ stack # <<>>
  /\ Return
  /\ UNCHANGED <<options, cwd, indent, raised, ran, upToDate>>

\* An exception leaves a call; cd.__exit__ restores the directory.
Unwind ==
  /\ raised /\ stack # <<>>
  /\ cwd' = IF Top.call = "doxygen" /\ Top.at > 1 THEN Top.saved ELSE cwd
  /\ Return
  /\ UNCHANGED <<options, indent, raised, ran, upToDate>>

-----------------------------------------------------------------------------
Step ==
  \/ \E call \in {"prep", "clean"} : NextElement(call)
  \/ \E call \in {"prep", "clean", "build", "docker"} : Leave(call)
  \/ \E target \in {"html", "clean"} : Sphinx(target)
  \/ BuildPreps \/ PrepRoot \/ EnterCd \/ RunDoxygen \/ LeaveCd
  \/ \E fresh \in BOOLEAN : NothingToDo(fresh)
  \/ Docker \/ RootOnlyFails \/ Unwind

Next ==
  \/ \E c \in Commands, root \in Start, dry \in BOOLEAN : Main(c, root, dry)
  \/ Step \/ Fail

\* A script that was started goes on.
Spec == Init /\ [][Next]_vars /\ WF_vars(Step)

-----------------------------------------------------------------------------
\* Type invariant.
TypeOK ==
  /\ \A j \in DOMAIN stack :
       /\ stack[j].call \in Calls /\ stack[j].at \in Int
       /\ stack[j].root \in Paths /\ stack[j].saved \in Paths
  /\ command \in Commands \cup {None} /\ dry_run \in BOOLEAN
  /\ cwd \in Paths /\ indent \in Nat /\ raised \in BOOLEAN
  /\ \A r \in ran : r.what \in Commands \cup {"doxygen"}
  /\ upToDate \subseteq Roots

\* doxygen runs in its root, everything else where the script was started, at
\* whatever depth of the recursion.
EachRunsInItsPlace ==
  \A r \in ran : r.in = IF r.what = "doxygen" THEN r.root ELSE <<>>

\* When the script ends, well or by an exception, its working directory is the
\* one it was started in, and what ends well leaves no indentation.
Restored == stack = <<>> => cwd = <<>> /\ (raised \/ indent = 0)

\* Whatever fails at whatever depth, no call leaves another directory behind than
\* the one it found.
DirectoriesKept == EachRunsInItsPlace /\ Restored

\* The roots a command comes to from `root`, itself among them.
Below(root) ==
  {q \in Roots :
     /\ Len(q) >= Len(root) /\ SubSeq(q, 1, Len(root)) = root
     /\ \A n \in Len(root)..Len(q)-1 : SubSeq(q, 1, n) \in Nested}

Did(what, root) == \E r \in ran : r.what = what /\ r.root = root

\* No page is written while the XML of the root or of an element is not up to
\* date, and a command that ends well has come to every root below its own.
EveryElementIsReached ==
  /\ \A r \in ran : r.what = "html" => Below(r.root) \subseteq upToDate
  /\ \A r \in ran : r.what = "clean" => \A q \in Below(r.root) : Did("clean", q)

-----------------------------------------------------------------------------
(* Why EveryElementIsReached holds: what each call in progress has done.    *)

\* What the call of `call` for `root` has to leave behind.
Kept(call, root) ==
  /\ call = "prep" => Below(root) \subseteq upToDate
  /\ call = "clean" => \A q \in Below(root) : Did("clean", q)
  /\ call = "doxygen" => root \in upToDate

\* The call of `call` for `root` is step n of call f.
IsStep(f, n, call, root) ==
  \/ /\ f.call \in {"prep", "clean"} /\ f.root \in Nested /\ n \in DOMAIN dirs
     /\ call = f.call /\ root = Append(f.root, dirs[n])
  \/ /\ f.call = "prep" /\ n = IF f.root \in Nested THEN Len(dirs) + 1 ELSE 1
     /\ call = "doxygen" /\ root = f.root
  \/ /\ f.call = "build" /\ n = 1
     /\ call = "prep" /\ root = f.root

\* f has done what comes before `at`: its calls have left behind what they had
\* to, and so has f itself if nothing is left.
Reached(f, at) ==
  /\ \A n \in 1..Len(dirs) + 1, call \in Calls, root \in Roots :
       IsStep(f, n, call, root) /\ (n < at \/ at = Finished) => Kept(call, root)
  /\ f.call = "clean" /\ at = Finished => Did("clean", f.root)
  /\ f.call = "doxygen" /\ at = 3 => f.root \in upToDate

\* A call waits for the step it has counted already.
Waits(f, g) == Reached(f, f.at - 1) /\ IsStep(f, f.at - 1, g.call, g.root)

ReachInv ==
  /\ \A j \in 1..Depth :
       /\ stack[j].root \in Roots
       /\ stack[j].call = "build" => command = "html"
       /\ stack[j].call = "docker" => command \notin {"html", "clean"}
  /\ ~raised /\ ~dry_run =>
       /\ \A j \in 1..Depth-1 : Waits(stack[j], stack[j + 1])
       /\ stack # <<>> => Reached(Top, Top.at)

-----------------------------------------------------------------------------
\* The recursion ends.
EndsAtLast == command # None ~> stack = <<>>
=============================================================================
