------------------------ MODULE OneapiDriver_proofs ------------------------
(***************************************************************************)
(* However deep the elements nest and wherever a command fails: each       *)
(* command runs in its place, and the working directory comes back.        *)
(* However often sort-words runs and is interrupted, it loses no word but  *)
(* in the ways WordsSurvive names.                                         *)
(***************************************************************************)
EXTENDS OneapiDriver, WordList, Recursion_proofs

Frames == [call : Calls, root : Paths, at : Int, saved : Paths]

\* The script is in the directory of a root.
Inside == stack # <<>> /\ Top.call = "doxygen" /\ Top.at > 1

StackInv ==
  /\ stack \in Seq(Frames)
  /\ \A j \in 1..Depth-1 : stack[j].call # "doxygen"

CwdInv ==
  /\ Inside => cwd = Top.root /\ Top.saved = <<>> /\ cwd \in Roots
  /\ ~Inside => cwd = <<>>

\* Every call but that of doxygen has indented once.
IndentInv ==
  /\ indent \in Nat /\ raised \in BOOLEAN
  /\ ~raised => indent = 2 * Depth - (IF stack # <<>> /\ Top.call = "doxygen" THEN 2 ELSE 0)

OtherTypes ==
  /\ command \in Commands \cup {None} /\ dry_run \in BOOLEAN
  /\ \A r \in ran : r.what \in Commands \cup {"doxygen"}
  /\ upToDate \subseteq Roots
  /\ stack # <<>> => command \in Commands

DriverInv == StackInv /\ CwdInv /\ IndentInv /\ OtherTypes /\ EachRunsInItsPlace

-----------------------------------------------------------------------------
(* What the three ways to change the stack do to it.                       *)

LEMMA EmptyPath == <<>> \in Paths /\ \A r \in Paths : <<>> \o r = r
  BY DriverAssumption, SMT DEF Paths

LEMMA CallIsFrame ==
  ASSUME NEW call \in Calls, NEW rt \in Paths
  PROVE  Call(call, rt) \in Frames
  BY EmptyPath DEF Call, Frames

LEMMA PushedStack ==
  ASSUME stack \in Seq(Frames), stack # <<>>, NEW call \in Calls, NEW rt \in Paths,
         Push(call, rt)
  PROVE  /\ stack' \in Seq(Frames) /\ stack' # <<>>
         /\ Len(stack') = Depth + 1 /\ stack'[Depth + 1] = Call(call, rt)
         /\ \A j \in 1..Depth : stack'[j].call = stack[j].call
<1> DEFINE st == [stack EXCEPT ![Depth].at = @ + 1]
<1>1. Depth \in 1..Len(stack) /\ stack[Depth] \in Frames
  BY DEF Depth
<1>2. [stack[Depth] EXCEPT !.at = @ + 1] \in Frames
  BY <1>1 DEF Frames
<1>3. st \in Seq(Frames) /\ Len(st) = Depth
  BY <1>1, <1>2 DEF Depth
<1>4. \A j \in 1..Depth : st[j].call = stack[j].call
  BY <1>1 DEF Frames, Depth
<1>5. Call(call, rt) \in Frames
  BY CallIsFrame
<1>6. stack' = Append(st, Call(call, rt))
  BY DEF Push
<1> HIDE DEF st
<1>7. QED  BY <1>1, <1>3, <1>4, <1>5, <1>6

LEMMA MovedStack ==
  ASSUME stack \in Seq(Frames), stack # <<>>, NEW at \in Int, Goto(at)
  PROVE  /\ stack' \in Seq(Frames) /\ stack' # <<>> /\ Len(stack') = Depth
         /\ stack'[Depth] = [Top EXCEPT !.at = at]
         /\ \A j \in 1..Depth-1 : stack'[j] = stack[j]
<1>1. Depth \in 1..Len(stack) /\ stack[Depth] \in Frames
  BY DEF Depth
<1>2. [stack[Depth] EXCEPT !.at = at] \in Frames
  BY <1>1 DEF Frames
<1>3. QED  BY <1>1, <1>2 DEF Goto, Depth, Top

LEMMA ReturnedStack ==
  ASSUME stack \in Seq(Frames), stack # <<>>, Return
  PROVE  /\ stack' \in Seq(Frames) /\ Len(stack') = Depth - 1
         /\ \A j \in 1..Depth-1 : stack'[j] = stack[j]
<1>1. Depth \in Nat /\ Depth # 0 /\ Depth = Len(stack)
  BY DEF Depth
<1>2. \A j \in 1..Depth-1 : stack[j] \in Frames
  BY <1>1
<1>3. stack' = [j \in 1..Depth-1 |-> stack[j]]
  BY <1>1, SMT DEF Return
<1>4. QED  BY <1>1, <1>2, <1>3

LEMMA TopIsFrame ==
  ASSUME stack \in Seq(Frames), stack # <<>>
  PROVE  Top \in Frames /\ Depth \in Nat \ {0} /\ Depth = Len(stack)
  BY DEF Top, Depth

-----------------------------------------------------------------------------
(* What they do to the invariant.                                          *)

\* A call that is not doxygen's makes another.
LEMMA PushKeeps ==
  ASSUME DriverInv, NEW c \in Calls \ {"doxygen"}, In(c),
         NEW call \in Calls, NEW rt \in Paths,
         Push(call, rt), Indented(call),
         UNCHANGED <<options, cwd, raised, ran, upToDate>>
  PROVE  DriverInv'
<1>1. stack \in Seq(Frames) /\ stack # <<>> /\ Top.call # "doxygen" /\ Depth = Len(stack)
  BY TopIsFrame DEF DriverInv, StackInv, In
<1>2. /\ stack' \in Seq(Frames) /\ stack' # <<>>
      /\ Len(stack') = Depth + 1 /\ stack'[Depth + 1] = Call(call, rt)
      /\ \A j \in 1..Depth : stack'[j].call = stack[j].call
  BY <1>1, PushedStack
<1>3. Depth' = Depth + 1 /\ Top'.call = call /\ Top'.at = 1 /\ Depth \in Nat
  BY <1>1, <1>2 DEF Depth, Top, Call
<1>4. StackInv'
  <2>1. \A j \in 1..Depth : stack[j].call # "doxygen"
    BY <1>1, <1>3 DEF DriverInv, StackInv, Top
  <2>2. QED  BY <2>1, <1>2, <1>3 DEF StackInv
<1>5. CwdInv'
  <2>1. ~Inside /\ ~Inside'
    BY <1>1, <1>3 DEF Inside
  <2>2. QED  BY <2>1 DEF CwdInv, DriverInv
<1>6. IndentInv'
  <2>1. raised' = raised /\ raised \in BOOLEAN /\ ~raised
    BY DEF DriverInv, IndentInv, In
  <2>2. indent = 2 * Depth /\ indent \in Nat
    BY <1>1, <1>3, <2>1 DEF DriverInv, IndentInv
  <2>3. indent' = IF call = "doxygen" THEN indent ELSE indent + 2
    BY DEF Indented, IsAction
  <2>4. indent' \in Nat /\ indent' = 2 * Depth' - (IF call = "doxygen" THEN 2 ELSE 0)
    BY <1>3, <2>2, <2>3
  <2>5. QED  BY <1>2, <1>3, <2>1, <2>4 DEF IndentInv
<1>7. OtherTypes' /\ EachRunsInItsPlace'
  BY <1>1 DEF DriverInv, OtherTypes, EachRunsInItsPlace, options
<1>8. QED  BY <1>4, <1>5, <1>6, <1>7 DEF DriverInv

\* A call goes on, in the same directory.
LEMMA MoveKeeps ==
  ASSUME DriverInv, stack # <<>>, NEW at \in Int, Goto(at),
         Top.call = "doxygen" => Top.at > 1 /\ at > 1,
         UNCHANGED <<options, cwd, indent, raised>>
  PROVE  StackInv' /\ CwdInv' /\ IndentInv'
<1>1. stack \in Seq(Frames) /\ Top \in Frames /\ Depth \in Nat \ {0} /\ Depth = Len(stack)
  BY TopIsFrame DEF DriverInv, StackInv
<1>2. /\ stack' \in Seq(Frames) /\ stack' # <<>> /\ Len(stack') = Depth
      /\ stack'[Depth] = [Top EXCEPT !.at = at]
      /\ \A j \in 1..Depth-1 : stack'[j] = stack[j]
  BY <1>1, MovedStack
<1>3. /\ Depth' = Depth /\ Top'.call = Top.call /\ Top'.at = at
      /\ Top'.root = Top.root /\ Top'.saved = Top.saved
  BY <1>1, <1>2 DEF Depth, Top, Frames
<1>4. StackInv'
  BY <1>1, <1>2, <1>3 DEF DriverInv, StackInv
<1>5. CwdInv'
  <2>1. Inside' <=> Inside
    BY <1>2, <1>3 DEF Inside
  <2>2. QED  BY <2>1, <1>3 DEF CwdInv, DriverInv
<1>6. IndentInv'
  BY <1>2, <1>3 DEF DriverInv, IndentInv
<1>7. QED  BY <1>4, <1>5, <1>6

\* A call returns, and the script is where it started.
LEMMA ReturnKeeps ==
  ASSUME DriverInv, stack # <<>>, Return, cwd' = <<>>,
         \/ raised /\ indent' = indent
         \/ ~raised /\ Dedented,
         UNCHANGED <<options, raised, ran, upToDate>>
  PROVE  DriverInv'
<1>1. stack \in Seq(Frames) /\ Top \in Frames /\ Depth \in Nat \ {0} /\ Depth = Len(stack)
  BY TopIsFrame DEF DriverInv, StackInv
<1>2. /\ stack' \in Seq(Frames) /\ Len(stack') = Depth - 1
      /\ \A j \in 1..Depth-1 : stack'[j] = stack[j]
  BY <1>1, ReturnedStack
<1>3. Depth' = Depth - 1
  BY <1>2 DEF Depth
<1>4. \A j \in 1..Depth-1 : stack'[j].call # "doxygen"
  BY <1>2 DEF DriverInv, StackInv
<1>5. stack' # <<>> => Top'.call # "doxygen"
  BY <1>1, <1>2, <1>3, <1>4 DEF Top
<1>6. StackInv'
  BY <1>1, <1>2, <1>3, <1>4 DEF StackInv
<1>7. CwdInv'
  BY <1>5 DEF CwdInv, Inside
<1>8. IndentInv'
  <2>1. raised' = raised /\ raised \in BOOLEAN /\ indent \in Nat
    BY DEF DriverInv, IndentInv
  <2>2. CASE raised
    BY <2>1, <2>2 DEF IndentInv
  <2>3. CASE ~raised
    <3>1. indent = 2 * Depth - (IF Top.call = "doxygen" THEN 2 ELSE 0)
      BY <2>3 DEF DriverInv, IndentInv
    <3>2. indent' = IF Top.call = "doxygen" THEN indent ELSE indent - 2
      BY <2>3 DEF Dedented, IsAction
    <3>3. indent' \in Nat /\ indent' = 2 * Depth'
      BY <1>1, <1>3, <2>1, <3>1, <3>2
    <3>4. QED  BY <1>3, <1>5, <2>1, <3>3 DEF IndentInv
  <2>4. QED  BY <2>2, <2>3
<1>9. OtherTypes' /\ EachRunsInItsPlace'
  BY DEF DriverInv, OtherTypes, EachRunsInItsPlace, options
<1>10. QED  BY <1>6, <1>7, <1>8, <1>9 DEF DriverInv

\* A command that runs where it must keeps the rest.
LEMMA RanKeeps ==
  ASSUME DriverInv, NEW what \in Commands \cup {"doxygen"}, NEW root,
         Ran(what, root),
         cwd = IF what = "doxygen" THEN root ELSE <<>>
  PROVE  /\ EachRunsInItsPlace'
         /\ \A r \in ran' : r.what \in Commands \cup {"doxygen"}
  BY DEF DriverInv, OtherTypes, EachRunsInItsPlace, Ran

\* The directory of a call that is not in a root is the one of the start.
LEMMA Outside ==
  ASSUME DriverInv, stack # <<>>, Top.call # "doxygen" \/ ~(Top.at > 1)
  PROVE  cwd = <<>> /\ Top.root \in Paths /\ cwd \o Top.root = Top.root
<1>1. Top.root \in Paths
  BY TopIsFrame DEF DriverInv, StackInv, Frames
<1>2. cwd = <<>>
  BY DEF DriverInv, CwdInv, Inside
<1>3. QED  BY <1>1, <1>2, EmptyPath

-----------------------------------------------------------------------------
(* One lemma per action, or per kind of action.                            *)

LEMMA MainNext ==
  ASSUME DriverInv, NEW c \in Commands, NEW root \in Start, NEW dry \in BOOLEAN,
         Main(c, root, dry)
  PROVE  DriverInv'
<1>1. Function(c) \in Calls \ {"doxygen"} /\ root \in Paths
  BY DriverAssumption DEF Function, Commands, Calls
<1>2. Call(Function(c), root) \in Frames
  BY <1>1, CallIsFrame
<1>3. stack' = <<Call(Function(c), root)>> /\ stack = <<>>
  BY DEF Main
<1>4. Depth = 0 /\ Depth' = 1 /\ Top' = Call(Function(c), root) /\ stack' # <<>>
  BY <1>3 DEF Depth, Top
<1>5. StackInv'
  BY <1>2, <1>3, <1>4 DEF StackInv
<1>6. CwdInv'
  <2>1. ~Inside /\ ~Inside'
    BY <1>1, <1>3, <1>4 DEF Inside, Call
  <2>2. QED  BY <2>1 DEF CwdInv, DriverInv, Main
<1>7. IndentInv'
  <2>1. raised' = raised /\ raised \in BOOLEAN /\ indent \in Nat
    BY DEF DriverInv, IndentInv, Main
  <2>2. indent' = indent + 2
    BY <1>1 DEF Main, Indented, IsAction
  <2>3. ~raised => indent = 0
    BY <1>3, <1>4 DEF DriverInv, IndentInv
  <2>4. Top'.call # "doxygen"
    BY <1>1, <1>4 DEF Call
  <2>5. QED  BY <1>4, <2>1, <2>2, <2>3, <2>4 DEF IndentInv
<1>8. OtherTypes' /\ EachRunsInItsPlace'
  BY DEF Main, DriverInv, OtherTypes, EachRunsInItsPlace
<1>9. QED  BY <1>5, <1>6, <1>7, <1>8 DEF DriverInv

LEMMA CallsNext ==
  ASSUME DriverInv,
         \/ \E call \in {"prep", "clean"} : NextElement(call)
         \/ BuildPreps \/ PrepRoot
  PROVE  DriverInv'
<1>1. ASSUME NEW call \in {"prep", "clean"}, NextElement(call)
      PROVE  DriverInv'
  <2>1. stack # <<>> /\ Top.call = call /\ In(call)
    BY <1>1 DEF NextElement, In
  <2>2. Append(Top.root, dirs[Top.at]) \in Paths
    BY <1>1, <2>1, Outside, DriverAssumption DEF NextElement, HasElements
  <2>3. QED  BY <1>1, <2>1, <2>2, PushKeeps DEF NextElement, Calls
<1>2. CASE BuildPreps
  <2>1. stack # <<>> /\ Top.call = "build" /\ In("build")
    BY <1>2 DEF BuildPreps, In
  <2>2. Top.root \in Paths
    BY <2>1, Outside
  <2>3. QED  BY <1>2, <2>1, <2>2, PushKeeps DEF BuildPreps, Calls
<1>3. CASE PrepRoot
  <2>1. stack # <<>> /\ Top.call = "prep" /\ In("prep")
    BY <1>3 DEF PrepRoot, In
  <2>2. Top.root \in Paths
    BY <2>1, Outside
  <2>3. Indented("doxygen")
    BY <1>3 DEF PrepRoot, Indented, IsAction
  <2>4. QED  BY <1>3, <2>1, <2>2, <2>3, PushKeeps DEF PrepRoot, Calls
<1>4. QED  BY <1>1, <1>2, <1>3

LEMMA EnterCdNext == ASSUME DriverInv, EnterCd PROVE DriverInv'
<1>1. stack # <<>> /\ Top.call = "doxygen" /\ Top.at = 1 /\ ~raised
  BY DEF EnterCd, In
<1>2. /\ stack \in Seq(Frames) /\ Top \in Frames /\ Depth \in 1..Len(stack)
      /\ Depth \in Nat /\ Depth = Len(stack)
  BY <1>1, TopIsFrame DEF DriverInv, StackInv
<1>3. cwd = <<>> /\ cwd' = Top.root /\ Top.root \in Roots
  BY <1>1, Outside DEF EnterCd
<1> DEFINE top == [call |-> "doxygen", root |-> Top.root, at |-> 2, saved |-> cwd]
<1>4. top \in Frames /\ top.call = "doxygen" /\ top.at = 2 /\ top.saved = <<>> /\ top.root = Top.root
  BY <1>2, <1>3, EmptyPath DEF Frames, Calls
<1>5. stack' = [stack EXCEPT ![Depth] = top]
  BY <1>2 DEF EnterCd, Top
<1> HIDE DEF top
<1>6. /\ stack' \in Seq(Frames) /\ Len(stack') = Depth /\ stack' # <<>>
      /\ stack'[Depth] = top /\ \A j \in 1..Depth-1 : stack'[j] = stack[j]
  BY <1>2, <1>4, <1>5
<1>7. Depth' = Depth /\ Top' = top
  BY <1>2, <1>6 DEF Depth, Top
<1>8. StackInv'
  BY <1>6, <1>7 DEF DriverInv, StackInv
<1>9. CwdInv'
  BY <1>3, <1>4, <1>6, <1>7 DEF CwdInv, Inside
<1>10. IndentInv'
  BY <1>1, <1>4, <1>6, <1>7 DEF DriverInv, IndentInv, EnterCd
<1>11. OtherTypes' /\ EachRunsInItsPlace'
  BY <1>1 DEF EnterCd, options, DriverInv, OtherTypes, EachRunsInItsPlace
<1>12. QED  BY <1>8, <1>9, <1>10, <1>11 DEF DriverInv

LEMMA WorksNext ==
  ASSUME DriverInv,
         \/ RunDoxygen \/ Docker
         \/ \E target \in {"html", "clean"} : Sphinx(target)
         \/ \E fresh \in BOOLEAN : NothingToDo(fresh)
  PROVE  DriverInv'
<1>0. command \in Commands \/ stack = <<>>
  BY DEF DriverInv, OtherTypes
<1>1. CASE RunDoxygen
  <2>1. stack # <<>> /\ Top.call = "doxygen" /\ Top.at = 2 /\ Goto(3)
    BY <1>1 DEF RunDoxygen, In
  <2>2. StackInv' /\ CwdInv' /\ IndentInv'
    BY <1>1, <2>1, MoveKeeps DEF RunDoxygen
  <2>3. cwd = Top.root /\ cwd \in Roots
    BY <2>1 DEF DriverInv, CwdInv, Inside
  <2>4. EachRunsInItsPlace' /\ \A r \in ran' : r.what \in Commands \cup {"doxygen"}
    BY <1>1, <2>3, RanKeeps DEF RunDoxygen
  <2>5. OtherTypes'
    BY <1>0, <1>1, <2>1, <2>3, <2>4 DEF RunDoxygen, options, DriverInv, OtherTypes
  <2>6. QED  BY <2>2, <2>4, <2>5 DEF DriverInv
<1>2. CASE Docker
  <2>1. stack # <<>> /\ Top.call = "docker" /\ Goto(2) /\ command \in Commands
    BY <1>0, <1>2 DEF Docker, In
  <2>2. StackInv' /\ CwdInv' /\ IndentInv'
    BY <1>2, <2>1, MoveKeeps DEF Docker
  <2>3. cwd = <<>>
    BY <2>1, Outside
  <2>4. command # "doxygen"
    BY <2>1 DEF Commands
  <2>5. EachRunsInItsPlace' /\ \A r \in ran' : r.what \in Commands \cup {"doxygen"}
    BY <1>2, <2>1, <2>3, <2>4, RanKeeps DEF Docker
  <2>6. OtherTypes'
    BY <1>2, <2>1, <2>5 DEF Docker, options, DriverInv, OtherTypes
  <2>7. QED  BY <2>2, <2>5, <2>6 DEF DriverInv
<1>3. ASSUME NEW target \in {"html", "clean"}, Sphinx(target)
      PROVE  DriverInv'
  <2>1. stack # <<>> /\ Top.call \in {"clean", "build"} /\ Goto(0) /\ command \in Commands
    BY <1>0, <1>3 DEF Sphinx, In, Finished
  <2>2. StackInv' /\ CwdInv' /\ IndentInv'
    BY <1>3, <2>1, MoveKeeps DEF Sphinx
  <2>3. cwd = <<>>
    BY <2>1, Outside
  <2>4. target \in Commands /\ target # "doxygen"
    BY DEF Commands
  <2>5. EachRunsInItsPlace' /\ \A r \in ran' : r.what \in Commands \cup {"doxygen"}
    BY <1>3, <2>3, <2>4, RanKeeps DEF Sphinx
  <2>6. OtherTypes'
    BY <1>3, <2>1, <2>5 DEF Sphinx, options, DriverInv, OtherTypes
  <2>7. QED  BY <2>2, <2>5, <2>6 DEF DriverInv
<1>4. ASSUME NEW fresh \in BOOLEAN, NothingToDo(fresh)
      PROVE  DriverInv'
  <2>1. stack # <<>> /\ Top.call = "doxygen" /\ Top.at = 2 /\ Goto(3)
    BY <1>4 DEF NothingToDo, In
  <2>2. StackInv' /\ CwdInv' /\ IndentInv'
    BY <1>4, <2>1, MoveKeeps DEF NothingToDo
  <2>3. cwd \in Roots
    BY <2>1 DEF DriverInv, CwdInv, Inside
  <2>4. OtherTypes' /\ EachRunsInItsPlace'
    BY <1>0, <1>4, <2>1, <2>3 DEF NothingToDo, options, DriverInv, OtherTypes, EachRunsInItsPlace
  <2>5. QED  BY <2>2, <2>4 DEF DriverInv
<1>5. QED  BY <1>1, <1>2, <1>3, <1>4

LEMMA ReturnsNext ==
  ASSUME DriverInv,
         \/ LeaveCd \/ Unwind
         \/ \E call \in {"prep", "clean", "build", "docker"} : Leave(call)
  PROVE  DriverInv'
<1>1. CASE LeaveCd
  <2>1. stack # <<>> /\ Top.call = "doxygen" /\ Top.at = 3 /\ ~raised
    BY <1>1 DEF LeaveCd, In
  <2>2. cwd' = <<>>
    BY <1>1, <2>1 DEF LeaveCd, DriverInv, CwdInv, Inside
  <2>3. Dedented
    BY <1>1, <2>1 DEF LeaveCd, Dedented, IsAction
  <2>4. QED  BY <1>1, <2>1, <2>2, <2>3, ReturnKeeps DEF LeaveCd
<1>2. CASE Unwind
  <2>1. stack # <<>> /\ raised
    BY <1>2 DEF Unwind
  <2>2. cwd' = <<>>
    BY <1>2, <2>1 DEF Unwind, DriverInv, CwdInv, Inside
  <2>3. QED  BY <1>2, <2>1, <2>2, ReturnKeeps DEF Unwind
<1>3. ASSUME NEW call \in {"prep", "clean", "build", "docker"}, Leave(call)
      PROVE  DriverInv'
  <2>1. stack # <<>> /\ Top.call # "doxygen" /\ ~raised
    BY <1>3 DEF Leave, In
  <2>2. cwd' = <<>>
    BY <1>3, <2>1, Outside DEF Leave
  <2>3. QED  BY <1>3, <2>1, <2>2, ReturnKeeps DEF Leave
<1>4. QED  BY <1>1, <1>2, <1>3

LEMMA FailsNext ==
  ASSUME DriverInv, Fail \/ RootOnlyFails \/ UNCHANGED vars
  PROVE  DriverInv'
<1>1. UNCHANGED <<stack, command, dry_run, cwd, indent, ran, upToDate>>
  BY DEF Fail, RootOnlyFails, Raise, vars, options
<1>2. raised' = TRUE \/ raised' = raised
  BY DEF Fail, RootOnlyFails, Raise, vars
<1>3. Depth' = Depth /\ Top' = Top
  BY <1>1 DEF Depth, Top
<1>4. StackInv' /\ CwdInv'
  BY <1>1, <1>3 DEF DriverInv, StackInv, CwdInv, Inside
<1>5. IndentInv'
  BY <1>1, <1>2, <1>3, Zenon DEF DriverInv, IndentInv
<1>6. OtherTypes' /\ EachRunsInItsPlace'
  BY <1>1 DEF DriverInv, OtherTypes, EachRunsInItsPlace
<1>7. QED  BY <1>4, <1>5, <1>6 DEF DriverInv

-----------------------------------------------------------------------------
THEOREM DriverInvCorrect == Spec => []DriverInv
<1>1. Init => DriverInv
  <2> SUFFICES ASSUME Init PROVE DriverInv
    OBVIOUS
  <2>1. stack = <<>> /\ Depth = 0 /\ ~raised /\ indent = 0
    BY DEF Init, Depth
  <2>2. StackInv
    BY <2>1 DEF StackInv
  <2>3. CwdInv
    BY <2>1 DEF Init, CwdInv, Inside
  <2>4. raised \in BOOLEAN /\ dry_run \in BOOLEAN
    BY DEF Init
  <2>5. IndentInv
    BY <2>1, <2>4 DEF IndentInv
  <2>6. OtherTypes /\ EachRunsInItsPlace
    BY <2>4 DEF Init, OtherTypes, EachRunsInItsPlace
  <2>7. QED  BY <2>2, <2>3, <2>5, <2>6 DEF DriverInv
<1>2. DriverInv /\ [Next]_vars => DriverInv'
  <2> SUFFICES ASSUME DriverInv, [Next]_vars PROVE DriverInv'
    OBVIOUS
  <2>1. CASE \E c \in Commands, root \in Start, dry \in BOOLEAN : Main(c, root, dry)
    BY <2>1, MainNext
  <2>2. CASE Step
    BY <2>2, CallsNext, EnterCdNext, WorksNext, ReturnsNext, FailsNext DEF Step
  <2>3. CASE Fail \/ UNCHANGED vars
    BY <2>3, FailsNext
  <2>4. QED  BY <2>1, <2>2, <2>3 DEF Next
<1>3. QED  BY <1>1, <1>2, PTL DEF Spec

\* Type correctness of the driver.
THEOREM TypeCorrect == Spec => []TypeOK
<1>1. DriverInv => TypeOK
  <2> SUFFICES ASSUME DriverInv PROVE TypeOK
    OBVIOUS
  <2>1. \A j \in DOMAIN stack : stack[j] \in Frames
    BY DEF DriverInv, StackInv
  <2>2. cwd \in Paths
    BY EmptyPath, DriverAssumption DEF DriverInv, CwdInv
  <2>3. QED  BY <2>1, <2>2 DEF DriverInv, IndentInv, OtherTypes, TypeOK, Frames
<1>2. QED  BY <1>1, DriverInvCorrect, PTL

\* doxygen runs in its root and every other command where the script was
\* started, whatever the tree of elements.
THEOREM CommandsInPlace == Spec => []EachRunsInItsPlace
<1>1. DriverInv => EachRunsInItsPlace
  BY DEF DriverInv
<1>2. QED  BY <1>1, DriverInvCorrect, PTL

\* The script ends in the directory it was started in, whatever failed.
THEOREM DirectoryRestored == Spec => []Restored
<1>1. DriverInv => Restored
  <2> SUFFICES ASSUME DriverInv, stack = <<>> PROVE cwd = <<>> /\ (raised \/ indent = 0)
    BY DEF Restored
  <2>1. cwd = <<>>
    BY DEF DriverInv, CwdInv, Inside
  <2>2. Depth = 0
    BY DEF Depth
  <2>3. ~raised => indent = 0
    BY <2>2 DEF DriverInv, IndentInv
  <2>4. QED  BY <2>1, <2>3
<1>2. QED  BY <1>1, DriverInvCorrect, PTL

\* No call of the recursion leaves another directory behind than the one it
\* found, whatever fails at whatever depth.
THEOREM DirectoriesAreKept == Spec => []DirectoriesKept
<1>1. EachRunsInItsPlace /\ Restored => DirectoriesKept
  BY DEF DirectoriesKept
<1>2. QED  BY <1>1, CommandsInPlace, DirectoryRestored, PTL

-----------------------------------------------------------------------------
(* Every element is reached.                                               *)

\* What is below a root is the root or below one of its elements.
LEMMA BelowSplit ==
  ASSUME NEW root \in Roots, NEW q \in Below(root), q # root
  PROVE  /\ root \in Nested
         /\ \E k \in DOMAIN dirs : q \in Below(Append(root, dirs[k]))
<1> DEFINE names == {dirs[k] : k \in DOMAIN dirs}
<1>1. /\ root \in Seq(names) /\ q \in Seq(names) /\ q \in Roots
      /\ Len(q) >= Len(root) /\ SubSeq(q, 1, Len(root)) = root
      /\ \A n \in Len(root)..Len(q)-1 : SubSeq(q, 1, n) \in Nested
  BY DriverAssumption DEF Below, Paths
<1> DEFINE m == Len(root)
<1>2. m \in Nat /\ Len(q) \in Nat
  BY <1>1
<1>3. m < Len(q)
  <2> SUFFICES ASSUME Len(q) = m PROVE FALSE
    BY <1>1, <1>2
  <2>1. SubSeq(q, 1, Len(q)) = q
    BY <1>1
  <2> QED
    BY <1>1, <2>1
<1>4. root \in Nested
  <2>1. m \in Len(root)..Len(q)-1
    BY <1>2, <1>3
  <2> QED
    BY <1>1, <2>1, Zenon
<1>5. q[m + 1] \in names
  BY <1>1, <1>2, <1>3
<1>6. PICK k \in DOMAIN dirs : q[m + 1] = dirs[k]
  BY <1>5
<1>7. SubSeq(q, 1, m + 1) = Append(root, dirs[k])
  <2>1. \A i \in 1..m : root[i] = q[i]
    BY <1>1, <1>2, <1>3
  <2> QED
    BY <1>1, <1>2, <1>3, <1>6, <2>1
<1>8. Len(Append(root, dirs[k])) = m + 1
  BY <1>1
<1>9. q \in Below(Append(root, dirs[k]))
  BY <1>1, <1>2, <1>3, <1>7, <1>8 DEF Below
<1> QED
  BY <1>4, <1>9

\* Nothing is ever undone.
LEMMA KeptForever ==
  ASSUME upToDate \subseteq upToDate', ran \subseteq ran'
  PROVE  /\ \A call \in Calls, root \in Roots : Kept(call, root) => Kept(call, root)'
         /\ \A f, at : Reached(f, at) => Reached(f, at)'
<1>1. \A call, root : Kept(call, root) => Kept(call, root)'
  BY DEF Kept, Did
<1> QED
  BY <1>1 DEF Reached, Did

\* A step is the call of one command for one root.
LEMMA OneStep ==
  ASSUME NEW f, NEW n \in Int, NEW c1, NEW r1, NEW c2, NEW r2,
         IsStep(f, n, c1, r1), IsStep(f, n, c2, r2)
  PROVE  c1 = c2 /\ r1 = r2 /\ n \in 1..Len(dirs) + 1
<1>1. DOMAIN dirs = 1..Len(dirs) /\ Len(dirs) \in Nat
  BY DriverAssumption
<1>2. CASE f.call = "build"
  BY <1>1, <1>2 DEF IsStep
<1>3. CASE f.call = "clean"
  BY <1>1, <1>3 DEF IsStep
<1>4. CASE f.call = "prep" /\ f.root \in Nested
  BY <1>1, <1>4 DEF IsStep
<1>5. CASE f.call = "prep" /\ f.root \notin Nested
  BY <1>1, <1>5 DEF IsStep
<1> QED
  BY <1>2, <1>3, <1>4, <1>5 DEF IsStep

\* A call that waited goes on when the call it waited for has left behind what it
\* had to.
LEMMA WaitIsOver ==
  ASSUME NEW f \in Frames, NEW g, Waits(f, g), Kept(g.call, g.root)
  PROVE  Reached(f, f.at)
<1>1. f.at \in Int
  BY DEF Frames
<1>2. IsStep(f, f.at - 1, g.call, g.root) /\ Reached(f, f.at - 1)
  BY DEF Waits
<1>3. f.at - 1 \in 1..Len(dirs) + 1 /\ f.at # Finished
  BY <1>1, <1>2, OneStep DEF Finished
<1>4. ASSUME NEW n \in 1..Len(dirs) + 1, NEW call \in Calls, NEW root \in Roots,
             IsStep(f, n, call, root), n < f.at
      PROVE  Kept(call, root)
  <2>1. CASE n < f.at - 1
    BY <1>2, <1>4, <2>1 DEF Reached
  <2>2. CASE n = f.at - 1
    BY <1>2, <1>4, <2>2, OneStep
  <2> QED
    BY <1>1, <1>4, <2>1, <2>2
<1>5. f.call # "doxygen"
  BY <1>2 DEF IsStep
<1> QED
  BY <1>3, <1>4, <1>5 DEF Reached

LEMMA ReachInvInit == Init => ReachInv
<1> SUFFICES ASSUME Init PROVE ReachInv
  OBVIOUS
<1>1. stack = <<>> /\ Depth = 0
  BY DEF Init, Depth
<1> QED
  BY <1>1 DEF ReachInv

\* A call that is at its next step has another begin.
LEMMA PushReaches ==
  ASSUME DriverInv, ReachInv, ~raised, stack # <<>>,
         NEW call \in Calls \ {"build", "docker"}, NEW rt \in Roots, Push(call, rt),
         IsStep(Top, Top.at, call, rt),
         UNCHANGED <<options, raised, ran, upToDate>>
  PROVE  ReachInv'
<1>1. /\ stack \in Seq(Frames) /\ Top \in Frames /\ Depth \in Nat \ {0}
      /\ Depth = Len(stack) /\ Top = stack[Depth]
  BY TopIsFrame DEF DriverInv, StackInv, Top
<1> DEFINE up == [Top EXCEPT !.at = @ + 1]
<1>2. up \in Frames /\ up.at = Top.at + 1 /\ up.call = Top.call /\ up.root = Top.root
  BY <1>1 DEF Frames
<1>3. stack' = Append([stack EXCEPT ![Depth] = up], Call(call, rt))
  BY <1>1 DEF Push, Top
<1>4. Call(call, rt) \in Frames
  BY CallIsFrame, DriverAssumption
<1>5. /\ Len(stack') = Depth + 1 /\ stack'[Depth + 1] = Call(call, rt)
      /\ stack'[Depth] = up /\ \A j \in 1..Depth-1 : stack'[j] = stack[j]
  <2> HIDE DEF up
  <2> QED
    BY <1>1, <1>2, <1>3, <1>4
<1>6. Depth' = Depth + 1 /\ Top' = Call(call, rt)
  BY <1>5 DEF Depth, Top
<1>7. \A j \in 1..Depth + 1 :
        /\ stack'[j].root \in Roots
        /\ stack'[j].call = "build" => command' = "html"
        /\ stack'[j].call = "docker" => command' \notin {"html", "clean"}
  <2>1. \A j \in 1..Depth-1 :
        /\ stack'[j].root \in Roots
        /\ stack'[j].call = "build" => command' = "html"
        /\ stack'[j].call = "docker" => command' \notin {"html", "clean"}
    BY <1>1, <1>5 DEF ReachInv, options
  <2>2. /\ stack'[Depth].root \in Roots
        /\ stack'[Depth].call = "build" => command' = "html"
        /\ stack'[Depth].call = "docker" => command' \notin {"html", "clean"}
    BY <1>1, <1>2, <1>5 DEF ReachInv, options
  <2>3. stack'[Depth + 1].root = rt /\ stack'[Depth + 1].call = call
    BY <1>5 DEF Call
  <2> QED
    BY <1>1, <2>1, <2>2, <2>3
<1>8. ASSUME ~dry_run'
      PROVE  /\ \A j \in 1..Depth : Waits(stack[j], stack[j + 1])'
             /\ Reached(Top, Top.at)'
  <2>1. ~dry_run /\ \A f, at : Reached(f, at) => Reached(f, at)'
    BY <1>8, KeptForever DEF options
  <2>2. \A j \in 1..Depth-1 : Waits(stack[j], stack[j + 1])
    BY <2>1 DEF ReachInv
  <2>3. Reached(Top, Top.at)
    BY <2>1 DEF ReachInv
  <2>4. ASSUME NEW j \in 1..Depth-1 PROVE Waits(stack[j], stack[j + 1])'
    <3>0. j \in Int /\ j + 1 \in Int /\ (j + 1 = Depth \/ j + 1 \in 1..Depth-1)
      BY <1>1
    <3>1. /\ stack'[j] = stack[j]
          /\ stack'[j + 1].call = stack[j + 1].call /\ stack'[j + 1].root = stack[j + 1].root
      BY <3>0, <1>1, <1>2, <1>5
    <3>2. /\ IsStep(stack[j], stack[j].at - 1, stack[j + 1].call, stack[j + 1].root)
          /\ Reached(stack[j], stack[j].at - 1)
      BY <2>2 DEF Waits
    <3> QED
      BY <2>1, <3>1, <3>2 DEF Waits
  <2>5. ASSUME NEW j, j = Depth PROVE Waits(stack[j], stack[j + 1])'
    <3>1. /\ stack'[j] = up /\ up.at - 1 = Top.at
          /\ stack'[j + 1].call = call /\ stack'[j + 1].root = rt
      <4>1. stack'[j] = up /\ stack'[j + 1] = Call(call, rt)
        BY <1>5, <2>5
      <4>2. Top.at \in Int
        BY <1>1 DEF Frames
      <4> HIDE DEF up
      <4> QED
        BY <1>2, <4>1, <4>2 DEF Call
    <3>2. IsStep(up, Top.at, call, rt)
      BY <1>2 DEF IsStep
    <3>3. Reached(up, Top.at)
      BY <1>2, <2>3 DEF Reached, IsStep
    <3> HIDE DEF up
    <3> QED
      BY <2>1, <3>1, <3>2, <3>3 DEF Waits
  <2>6. Reached(Top, Top.at)'
    <3>1. Top'.at = 1 /\ Top'.call = call
      BY <1>6 DEF Call
    <3>2. \A n \in 1..Len(dirs) + 1 : ~(n < 1 \/ 1 = Finished)
      BY DriverAssumption DEF Paths, Finished
    <3> QED
      BY <3>1, <3>2 DEF Reached, Finished
  <2> QED
    BY <1>1, <2>4, <2>5, <2>6
<1> QED
  <2>1. Depth' - 1 = Depth /\ raised' = raised
    BY <1>1, <1>6
  <2> HIDE DEF up
  <2> QED
    BY <2>1, <1>6, <1>7, <1>8 DEF ReachInv

\* A call goes on.
LEMMA GoOnReaches ==
  ASSUME DriverInv, ReachInv, ~raised, stack # <<>>,
         NEW f, f.call = Top.call, f.root = Top.root,
         stack' = [stack EXCEPT ![Depth] = f],
         UNCHANGED <<options, raised>>,
         upToDate \subseteq upToDate', ran \subseteq ran',
         ~dry_run => Reached(Top, Top.at)'
  PROVE  ReachInv'
<1>1. stack \in Seq(Frames) /\ Depth \in Nat \ {0} /\ Depth = Len(stack) /\ Top = stack[Depth]
  BY TopIsFrame DEF DriverInv, StackInv, Top
<1>2. /\ Len(stack') = Depth /\ stack'[Depth] = f
      /\ \A j \in 1..Depth-1 : stack'[j] = stack[j]
  BY <1>1
<1>3. Depth' = Depth
  BY <1>2 DEF Depth
<1>4. \A j \in 1..Depth :
        stack'[j].call = stack[j].call /\ stack'[j].root = stack[j].root
  BY <1>1, <1>2
<1>5. ASSUME ~dry_run, NEW j \in 1..Depth-1
      PROVE  Waits(stack[j], stack[j + 1])'
  <2>1. /\ IsStep(stack[j], stack[j].at - 1, stack[j + 1].call, stack[j + 1].root)
        /\ Reached(stack[j], stack[j].at - 1)
    BY <1>5 DEF ReachInv, Waits
  <2>2. stack'[j] = stack[j] /\ j + 1 \in 1..Depth
    BY <1>1, <1>2
  <2> QED
    BY <1>4, <2>1, <2>2, KeptForever DEF Waits
<1> QED
  BY <1>3, <1>4, <1>5 DEF ReachInv, options

LEMMA MovesReach ==
  ASSUME DriverInv, ReachInv, ~raised, stack # <<>>, NEW at \in Int, Goto(at),
         UNCHANGED <<options, raised>>,
         upToDate \subseteq upToDate', ran \subseteq ran',
         ~dry_run => Reached(Top, at)'
  PROVE  ReachInv'
<1>1. /\ stack \in Seq(Frames) /\ Top \in Frames /\ Top = stack[Depth]
      /\ Depth \in Nat \ {0} /\ Depth = Len(stack)
  BY TopIsFrame DEF DriverInv, StackInv, Top
<1> DEFINE f == [Top EXCEPT !.at = at]
<1>2. f.call = Top.call /\ f.root = Top.root /\ f.at = at
  BY <1>1 DEF Frames
<1>3. stack' = [stack EXCEPT ![Depth] = f]
  BY <1>1 DEF Goto, Top
<1>4. Top' = f
  BY <1>1, <1>3 DEF Top, Depth
<1> HIDE DEF f
<1>5. Top'.at = at
  BY <1>2, <1>4
<1> QED
  BY <1>2, <1>3, <1>5, GoOnReaches

\* A call returns that has left behind what it had to; or an exception leaves it.
LEMMA ReturnReaches ==
  ASSUME DriverInv, ReachInv, stack # <<>>, Return,
         raised \/ dry_run \/ Kept(Top.call, Top.root),
         UNCHANGED <<options, raised, ran, upToDate>>
  PROVE  ReachInv'
<1>1. stack \in Seq(Frames) /\ Depth \in Nat \ {0} /\ Depth = Len(stack) /\ Top = stack[Depth]
  BY TopIsFrame DEF DriverInv, StackInv, Top
<1>2. Len(stack') = Depth - 1 /\ \A j \in 1..Depth-1 : stack'[j] = stack[j]
  BY <1>1, ReturnedStack
<1>3. Depth' = Depth - 1
  BY <1>2 DEF Depth
<1>4. ASSUME ~raised, ~dry_run, NEW j \in 1..Depth-2
      PROVE  Waits(stack[j], stack[j + 1])'
  <2>1. Waits(stack[j], stack[j + 1])
    BY <1>1, <1>4 DEF ReachInv
  <2>2. stack'[j] = stack[j] /\ stack'[j + 1] = stack[j + 1]
    BY <1>1, <1>2
  <2> QED
    BY <2>1, <2>2, KeptForever DEF Waits
<1>5. ASSUME ~raised, ~dry_run, stack' # <<>>
      PROVE  Reached(Top, Top.at)'
  <2>1. Depth - 1 \in 1..Depth-1 /\ (Depth - 1) + 1 = Depth
    BY <1>1, <1>2, <1>5
  <2>2. Top' = stack[Depth - 1] /\ stack[Depth - 1] \in Frames
    BY <1>1, <1>2, <1>3, <2>1 DEF Top
  <2>3. Waits(stack[Depth - 1], Top)
    BY <1>1, <1>5, <2>1 DEF ReachInv
  <2>4. Kept(Top.call, Top.root)
    BY <1>5
  <2>5. Reached(stack[Depth - 1], stack[Depth - 1].at)
    BY <2>2, <2>3, <2>4, WaitIsOver
  <2> QED
    BY <2>2, <2>5, KeptForever
<1>6. \A j \in 1..Depth-1 :
        /\ stack'[j].root \in Roots
        /\ stack'[j].call = "build" => command' = "html"
        /\ stack'[j].call = "docker" => command' \notin {"html", "clean"}
  BY <1>1, <1>2 DEF ReachInv, options
<1> QED
  BY <1>1, <1>3, <1>4, <1>5, <1>6 DEF ReachInv, options

\* prep has come to everything below its root ...
LEMMA PrepDone ==
  ASSUME NEW f, f.call = "prep", f.root \in Roots, NEW at \in Int,
         at > (IF f.root \in Nested THEN Len(dirs) + 1 ELSE 1), Reached(f, at)
  PROVE  Kept("prep", f.root)
<1> SUFFICES ASSUME NEW q \in Below(f.root) PROVE q \in upToDate
  BY DEF Kept
<1>0. Len(dirs) \in Nat /\ DOMAIN dirs = 1..Len(dirs)
  BY DriverAssumption DEF Paths
<1>1. CASE q = f.root
  <2> DEFINE n == IF f.root \in Nested THEN Len(dirs) + 1 ELSE 1
  <2>1. n \in 1..Len(dirs) + 1 /\ n < at /\ IsStep(f, n, "doxygen", f.root)
    BY <1>0 DEF IsStep
  <2>2. Kept("doxygen", f.root)
    BY <2>1 DEF Reached, Calls
  <2> QED
    BY <1>1, <2>2 DEF Kept
<1>2. CASE q # f.root
  <2>1. PICK k \in DOMAIN dirs : q \in Below(Append(f.root, dirs[k]))
    BY <1>2, BelowSplit
  <2>2. f.root \in Nested
    BY <1>2, BelowSplit
  <2>3. IsStep(f, k, "prep", Append(f.root, dirs[k])) /\ k \in 1..Len(dirs) + 1 /\ k < at
    BY <1>0, <2>2 DEF IsStep
  <2>4. Append(f.root, dirs[k]) \in Roots
    BY <2>2, DriverAssumption
  <2>5. Kept("prep", Append(f.root, dirs[k]))
    BY <2>3, <2>4 DEF Reached, Calls
  <2> QED
    BY <2>1, <2>5 DEF Kept
<1> QED
  BY <1>1, <1>2

\* ... and so has clean.
LEMMA CleanedBelow ==
  ASSUME NEW f, f.call = "clean", f.root \in Roots, NEW at \in Int, Reached(f, at),
         at = Finished \/ (f.root \in Nested => at = Len(dirs) + 1)
  PROVE  \A q \in Below(f.root) \ {f.root} : Did("clean", q)
<1> SUFFICES ASSUME NEW q \in Below(f.root), q # f.root PROVE Did("clean", q)
  OBVIOUS
<1>0. Len(dirs) \in Nat /\ DOMAIN dirs = 1..Len(dirs)
  BY DriverAssumption DEF Paths
<1>1. PICK k \in DOMAIN dirs : q \in Below(Append(f.root, dirs[k]))
  BY BelowSplit
<1>2. f.root \in Nested
  BY BelowSplit
<1>3. /\ IsStep(f, k, "clean", Append(f.root, dirs[k])) /\ k \in 1..Len(dirs) + 1
      /\ k < at \/ at = Finished
  BY <1>0, <1>2 DEF IsStep
<1>4. Append(f.root, dirs[k]) \in Roots
  BY <1>2, DriverAssumption
<1>5. Kept("clean", Append(f.root, dirs[k]))
  BY <1>3, <1>4 DEF Reached, Calls
<1> QED
  BY <1>1, <1>5 DEF Kept

\* The call that goes on is still for the same root.
LEMMA TopMoves ==
  ASSUME stack \in Seq(Frames), stack # <<>>, NEW at \in Int, Goto(at)
  PROVE  Top'.call = Top.call /\ Top'.root = Top.root
<1>1. /\ stack' # <<>> /\ Len(stack') = Depth
      /\ stack'[Depth] = [Top EXCEPT !.at = at]
  BY MovedStack
<1>2. Top \in Frames
  BY TopIsFrame
<1> QED
  BY <1>1, <1>2 DEF Top, Depth, Frames

-----------------------------------------------------------------------------
(* Every step keeps ReachInv and EveryElementIsReached.                     *)

\* What each call in progress has done, and what has been done in all.
ElementsInv == ReachInv /\ EveryElementIsReached

\* A step that runs no shell command but doxygen, and undoes nothing.
LEMMA ReachedStays ==
  ASSUME EveryElementIsReached, upToDate \subseteq upToDate', ran \subseteq ran',
         \A r \in ran' \ ran : r.what \notin {"html", "clean"}
  PROVE  EveryElementIsReached'
  BY DEF EveryElementIsReached, Did

LEMMA MainReaches ==
  ASSUME DriverInv, ReachInv, NEW c \in Commands, NEW root \in Start,
         NEW dry \in BOOLEAN, Main(c, root, dry)
  PROVE  ReachInv'
<1>1. stack' = <<Call(Function(c), root)>> /\ command' = c
  BY DEF Main
<1>2. Depth' = 1 /\ Top' = Call(Function(c), root) /\ stack'[1] = Call(Function(c), root)
  BY <1>1 DEF Depth, Top
<1>3. /\ Function(c) = "build" => c = "html"
      /\ Function(c) = "docker" => c \notin {"html", "clean"}
      /\ Function(c) # "doxygen"
  BY DEF Function, Commands
<1>4. Reached(Top, Top.at)'
  <2>1. Top'.at = 1 /\ Top'.call = Function(c)
    BY <1>2 DEF Call
  <2>2. \A n \in 1..Len(dirs) + 1 : ~(n < 1 \/ 1 = Finished)
    BY DriverAssumption DEF Paths, Finished
  <2> QED
    BY <1>3, <2>1, <2>2 DEF Reached, Finished
<1>5. stack'[1].root \in Roots /\ stack'[1].call = Function(c)
  BY <1>2, DriverAssumption DEF Call
<1> QED
  BY <1>1, <1>2, <1>3, <1>4, <1>5 DEF ReachInv

LEMMA CallsReach ==
  ASSUME DriverInv, ReachInv,
         \/ \E call \in {"prep", "clean"} : NextElement(call)
         \/ BuildPreps \/ PrepRoot
  PROVE  ReachInv' /\ UNCHANGED <<ran, upToDate>>
<1>0. ASSUME stack # <<>> PROVE Top.root \in Roots
  BY <1>0, TopIsFrame DEF DriverInv, StackInv, ReachInv, Top
<1>1. ASSUME NEW call \in {"prep", "clean"}, NextElement(call)
      PROVE  ReachInv' /\ UNCHANGED <<ran, upToDate>>
  <2>1. stack # <<>> /\ Top.call = call /\ ~raised
    BY <1>1 DEF NextElement, In
  <2>2. Top.root \in Nested /\ Top.at \in DOMAIN dirs
    BY <1>1, <2>1, Outside DEF NextElement, HasElements
  <2>3. IsStep(Top, Top.at, call, Append(Top.root, dirs[Top.at]))
    BY <2>1, <2>2 DEF IsStep
  <2>4. Append(Top.root, dirs[Top.at]) \in Roots
    BY <2>2, DriverAssumption
  <2> QED
    BY <1>1, <2>1, <2>3, <2>4, PushReaches DEF NextElement, Calls
<1>2. CASE BuildPreps
  <2>1. stack # <<>> /\ Top.call = "build" /\ Top.at = 1 /\ ~raised
    BY <1>2 DEF BuildPreps, In
  <2>2. IsStep(Top, Top.at, "prep", Top.root)
    BY <2>1 DEF IsStep
  <2> QED
    BY <1>0, <1>2, <2>1, <2>2, PushReaches DEF BuildPreps, Calls
<1>3. CASE PrepRoot
  <2>1. stack # <<>> /\ Top.call = "prep" /\ Top.at = AfterElements /\ ~raised
    BY <1>3 DEF PrepRoot, In
  <2>2. AfterElements = IF Top.root \in Nested THEN Len(dirs) + 1 ELSE 1
    BY <2>1, Outside DEF AfterElements, HasElements
  <2>3. IsStep(Top, Top.at, "doxygen", Top.root)
    BY <2>1, <2>2 DEF IsStep
  <2> QED
    BY <1>0, <1>3, <2>1, <2>3, PushReaches DEF PrepRoot, Calls
<1> QED
  BY <1>1, <1>2, <1>3

LEMMA DoxygenReaches ==
  ASSUME DriverInv, ReachInv,
         EnterCd \/ RunDoxygen \/ \E fresh \in BOOLEAN : NothingToDo(fresh)
  PROVE  /\ ReachInv' /\ upToDate \subseteq upToDate' /\ ran \subseteq ran'
         /\ \A r \in ran' \ ran : r.what = "doxygen"
<1>0. stack # <<>> /\ Top.call = "doxygen" /\ ~raised
  BY DEF EnterCd, RunDoxygen, NothingToDo, In
<1>1. /\ stack \in Seq(Frames) /\ Top \in Frames /\ Top = stack[Depth]
      /\ Depth \in Nat \ {0} /\ Depth = Len(stack)
  BY <1>0, TopIsFrame DEF DriverInv, StackInv, Top
<1>2. \A n, call, root : ~IsStep(Top, n, call, root)
  BY <1>0 DEF IsStep
<1>3. CASE EnterCd
  <2> DEFINE f == [call |-> "doxygen", root |-> Top.root, at |-> 2, saved |-> cwd]
  <2>1. stack' = [stack EXCEPT ![Depth] = f]
    BY <1>1, <1>3 DEF EnterCd, Top
  <2>2. f.call = Top.call /\ f.root = Top.root /\ f.at = 2
    BY <1>0
  <2>3. Top' = f
    BY <1>1, <2>1 DEF Top, Depth
  <2> HIDE DEF f
  <2>4. Reached(Top, Top.at)'
    <3>1. Top'.at = 2 /\ Top'.call = "doxygen"
      BY <1>0, <2>2, <2>3
    <3> QED
      BY <3>1 DEF Reached, IsStep
  <2>5. UNCHANGED <<options, raised, upToDate, ran>>
    BY <1>3 DEF EnterCd
  <2> QED
    BY <1>0, <2>1, <2>2, <2>4, <2>5, GoOnReaches
<1>4. ASSUME RunDoxygen \/ \E fresh \in BOOLEAN : NothingToDo(fresh)
      PROVE  /\ ReachInv' /\ upToDate \subseteq upToDate' /\ ran \subseteq ran'
             /\ \A r \in ran' \ ran : r.what = "doxygen"
  <2>1. Top.at = 2 /\ Goto(3) /\ UNCHANGED <<options, cwd, raised>>
    BY <1>4 DEF RunDoxygen, NothingToDo
  <2>2. cwd = Top.root
    BY <1>0, <2>1 DEF DriverInv, CwdInv, Inside
  <2>3. /\ upToDate \subseteq upToDate' /\ ran \subseteq ran'
        /\ \A r \in ran' \ ran : r.what = "doxygen"
        /\ ~dry_run => Top.root \in upToDate'
    BY <1>4, <2>2 DEF RunDoxygen, NothingToDo, Ran
  <2>4. Top'.call = "doxygen" /\ Top'.root = Top.root
    BY <1>0, <1>1, <2>1, TopMoves
  <2>5. ~dry_run => Reached(Top, 3)'
    BY <2>3, <2>4 DEF Reached, IsStep
  <2> QED
    BY <1>0, <2>1, <2>3, <2>5, MovesReach
<1> QED
  BY <1>3, <1>4

LEMMA ReturnsReach ==
  ASSUME DriverInv, ReachInv,
         \/ LeaveCd \/ Unwind
         \/ \E call \in {"prep", "clean", "build", "docker"} : Leave(call)
  PROVE  ReachInv' /\ UNCHANGED <<ran, upToDate>>
<1>1. CASE LeaveCd
  <2>1. stack # <<>> /\ Top.call = "doxygen" /\ Top.at = 3 /\ ~raised
    BY <1>1 DEF LeaveCd, In
  <2>2. ~dry_run => Top.root \in upToDate
    BY <2>1 DEF ReachInv, Reached
  <2> QED
    BY <1>1, <2>1, <2>2, ReturnReaches DEF LeaveCd, Kept
<1>2. CASE Unwind
  BY <1>2, ReturnReaches DEF Unwind
<1>3. ASSUME NEW call \in {"prep", "clean", "build", "docker"}, Leave(call)
      PROVE  ReachInv' /\ UNCHANGED <<ran, upToDate>>
  <2>1. stack # <<>> /\ Top.call = call /\ ~raised /\ Top \in Frames /\ Top.root \in Roots
    BY <1>3, TopIsFrame DEF Leave, In, DriverInv, StackInv, ReachInv, Top
  <2>2. ASSUME ~dry_run PROVE Kept(Top.call, Top.root)
    <3>1. Reached(Top, Top.at)
      BY <2>1, <2>2 DEF ReachInv
    <3>2. CASE call = "prep"
      <4>1. AfterElements = IF Top.root \in Nested THEN Len(dirs) + 1 ELSE 1
        BY <2>1, <3>2, Outside DEF AfterElements, HasElements
      <4>2. Top.at = AfterElements + 1
        BY <1>3, <3>2 DEF Leave
      <4>3. AfterElements \in Nat
        BY <4>1, DriverAssumption DEF Paths
      <4> QED
        BY <2>1, <3>1, <3>2, <4>1, <4>2, <4>3, PrepDone
    <3>3. CASE call = "clean"
      <4>1. Reached(Top, Finished)
        BY <1>3, <3>1, <3>3 DEF Leave
      <4>2. Did("clean", Top.root)
        BY <2>1, <3>3, <4>1 DEF Reached
      <4> QED
        BY <2>1, <3>3, <4>1, <4>2, CleanedBelow DEF Kept, Finished
    <3>4. CASE call \in {"build", "docker"}
      BY <2>1, <3>4 DEF Kept
    <3> QED
      BY <3>2, <3>3, <3>4
  <2> QED
    BY <1>3, <2>1, <2>2, ReturnReaches DEF Leave
<1> QED
  BY <1>1, <1>2, <1>3

LEMMA DockerReaches ==
  ASSUME DriverInv, ElementsInv, Docker
  PROVE  ElementsInv'
<1>1. /\ stack # <<>> /\ Top.call = "docker" /\ ~raised /\ Goto(2)
      /\ UNCHANGED <<options, raised, upToDate>>
  BY DEF Docker, In
<1>2. /\ stack \in Seq(Frames) /\ Top \in Frames /\ Top = stack[Depth]
      /\ Depth \in Nat \ {0} /\ Depth = Len(stack)
  BY <1>1, TopIsFrame DEF DriverInv, StackInv, Top
<1>3. command \notin {"html", "clean"}
  BY <1>1, <1>2 DEF ElementsInv, ReachInv
<1>4. ran \subseteq ran' /\ \A r \in ran' \ ran : r.what \notin {"html", "clean"}
  BY <1>3 DEF Docker, Ran
<1>5. Top'.call = "docker"
  BY <1>1, <1>2, TopMoves
<1>6. Reached(Top, 2)'
  BY <1>5 DEF Reached, IsStep, Finished
<1>7. ReachInv'
  BY <1>1, <1>4, <1>6, MovesReach DEF ElementsInv
<1> QED
  BY <1>1, <1>4, <1>7, ReachedStays DEF ElementsInv

\* Sphinx runs when prep, or clean, has come to everything below the root.
LEMMA SphinxReaches ==
  ASSUME DriverInv, ElementsInv, NEW target \in {"html", "clean"}, Sphinx(target)
  PROVE  ElementsInv'
<1>1. /\ stack # <<>> /\ ~raised /\ Goto(Finished) /\ Ran(target, Top.root)
      /\ UNCHANGED <<options, raised, upToDate>>
      /\ \/ Top.call = "clean" /\ target = "clean" /\ Top.at = AfterElements
         \/ Top.call = "build" /\ target = command /\ Top.at = 2
  BY DEF Sphinx, In
<1>2. /\ stack \in Seq(Frames) /\ Top \in Frames /\ Top = stack[Depth]
      /\ Depth \in Nat \ {0} /\ Depth = Len(stack) /\ Top.root \in Roots
  BY <1>1, TopIsFrame DEF DriverInv, StackInv, Top, ElementsInv, ReachInv
<1>3. Top.call = "build" => target = "html"
  BY <1>1, <1>2 DEF ElementsInv, ReachInv
<1>4. /\ ran \subseteq ran'
      /\ \A r \in ran' \ ran : r.what = target /\ r.root = Top.root /\ ~dry_run
      /\ ~dry_run => \E r \in ran' : r.what = target /\ r.root = Top.root
  <2> DEFINE new == [what |-> target, root |-> Top.root, in |-> cwd]
  <2>1. new.what = target /\ new.root = Top.root
    OBVIOUS
  <2>2. ran' = IF dry_run THEN ran ELSE ran \cup {new}
    BY <1>1 DEF Ran
  <2> HIDE DEF new
  <2> QED
    BY <2>1, <2>2
<1>5. Top'.call = Top.call /\ Top'.root = Top.root
  BY <1>1, <1>2, TopMoves DEF Finished
<1>6. ~dry_run => Reached(Top, Top.at)
  BY <1>1 DEF ElementsInv, ReachInv
<1>7. CASE Top.call = "build"
  <2>1. ~dry_run => Kept("prep", Top.root)
    <3>1. IsStep(Top, 1, "prep", Top.root) /\ 1 \in 1..Len(dirs) + 1
      BY <1>7, DriverAssumption DEF IsStep, Paths
    <3> QED
      BY <1>1, <1>2, <1>6, <1>7, <3>1 DEF Reached, Calls
  <2>2. ~dry_run => Reached(Top, Finished)'
    <3>1. \A n, call, root : IsStep(Top', n, call, root) =>
            call = "prep" /\ root = Top.root
      BY <1>5, <1>7 DEF IsStep
    <3> QED
      BY <1>1, <1>5, <1>7, <2>1, <3>1 DEF Reached, Kept, Finished
  <2>3. ReachInv'
    BY <1>1, <1>4, <2>2, MovesReach DEF ElementsInv, Finished
  <2>4. EveryElementIsReached'
    BY <1>1, <1>3, <1>4, <1>7, <2>1 DEF ElementsInv, EveryElementIsReached, Kept, Did
  <2> QED
    BY <2>3, <2>4 DEF ElementsInv
<1>8. CASE Top.call = "clean"
  <2>1. ~dry_run => Reached(Top, Finished)'
    <3> SUFFICES ASSUME ~dry_run PROVE Reached(Top, Finished)'
      OBVIOUS
    <3>1. AfterElements = IF Top.root \in Nested THEN Len(dirs) + 1 ELSE 1
      BY <1>1, <1>8, Outside DEF AfterElements, HasElements
    <3>2. ASSUME NEW n \in 1..Len(dirs) + 1, NEW call \in Calls, NEW root \in Roots,
                 IsStep(Top', n, call, root)
          PROVE  Kept(call, root)'
      <4>1. IsStep(Top, n, call, root) /\ n \in DOMAIN dirs /\ Top.root \in Nested
        BY <1>5, <1>8, <3>2 DEF IsStep
      <4>2. n < Top.at
        BY <1>1, <1>8, <3>1, <4>1, DriverAssumption DEF Paths
      <4>3. Kept(call, root)
        BY <1>6, <4>1, <4>2 DEF Reached
      <4> QED
        BY <1>1, <1>4, <4>3, KeptForever
    <3>3. Did("clean", Top.root)'
      BY <1>1, <1>4, <1>5, <1>8 DEF Did
    <3> QED
      BY <1>5, <1>8, <3>2, <3>3 DEF Reached
  <2>2. ReachInv'
    BY <1>1, <1>4, <2>1, MovesReach DEF ElementsInv, Finished
  <2>3. ASSUME ~dry_run, NEW q \in Below(Top.root) PROVE Did("clean", q)'
    <3>1. CASE q = Top.root
      BY <1>1, <1>4, <1>8, <2>3, <3>1 DEF Did
    <3>2. CASE q # Top.root
      <4>1. Top.root \in Nested => Top.at = Len(dirs) + 1
        BY <1>1, <1>8, Outside DEF AfterElements, HasElements
      <4>2. Top.at \in Int
        BY <1>2 DEF Frames
      <4>3. Did("clean", q)
        BY <1>2, <1>6, <1>8, <2>3, <3>2, <4>1, <4>2, CleanedBelow
      <4> QED
        BY <1>4, <4>3 DEF Did
    <3> QED
      BY <3>1, <3>2
  <2>4. EveryElementIsReached'
    <3>1. target = "clean"
      BY <1>1, <1>8
    <3>2. ASSUME NEW r \in ran', r.what = "clean", NEW q \in Below(r.root)
          PROVE  Did("clean", q)'
      <4>1. CASE r \in ran
        BY <1>4, <3>2, <4>1 DEF ElementsInv, EveryElementIsReached, Did
      <4>2. CASE r \notin ran
        BY <1>4, <2>3, <3>2, <4>2
      <4> QED
        BY <4>1, <4>2
    <3>3. ASSUME NEW r \in ran', r.what = "html"
          PROVE  Below(r.root) \subseteq upToDate'
      BY <1>1, <1>4, <3>1, <3>3 DEF ElementsInv, EveryElementIsReached
    <3> QED
      BY <3>2, <3>3 DEF EveryElementIsReached
  <2> QED
    BY <2>2, <2>4 DEF ElementsInv
<1> QED
  BY <1>1, <1>7, <1>8

LEMMA FailsReach ==
  ASSUME ElementsInv, Fail \/ RootOnlyFails \/ UNCHANGED vars
  PROVE  ElementsInv'
<1>1. UNCHANGED <<stack, command, dry_run, ran, upToDate>>
  BY DEF Fail, RootOnlyFails, Raise, vars, options
<1>2. raised' \/ raised' = raised
  BY DEF Fail, RootOnlyFails, Raise, vars
<1>3. Depth' = Depth /\ Top' = Top
  BY <1>1 DEF Depth, Top
<1>4. \A f, at : Reached(f, at) => Reached(f, at)'
  BY <1>1, KeptForever
<1>5. \A f, g : Waits(f, g) => Waits(f, g)'
  BY <1>4 DEF Waits
<1>6. ReachInv'
  BY <1>1, <1>2, <1>3, <1>4, <1>5 DEF ElementsInv, ReachInv
<1> QED
  BY <1>1, <1>6, ReachedStays DEF ElementsInv

LEMMA ElementsInvNext == DriverInv /\ ElementsInv /\ [Next]_vars => ElementsInv'
<1> SUFFICES ASSUME DriverInv, ElementsInv, [Next]_vars PROVE ElementsInv'
  OBVIOUS
<1>0. ReachInv /\ EveryElementIsReached
  BY DEF ElementsInv
<1>1. ASSUME NEW c \in Commands, NEW root \in Start, NEW dry \in BOOLEAN,
             Main(c, root, dry)
      PROVE  ElementsInv'
  <2>1. ReachInv' /\ UNCHANGED <<ran, upToDate>>
    BY <1>0, <1>1, MainReaches DEF Main
  <2> QED
    BY <1>0, <2>1, ReachedStays DEF ElementsInv
<1>2. CASE \/ \E call \in {"prep", "clean"} : NextElement(call)
           \/ BuildPreps \/ PrepRoot
  BY <1>0, <1>2, CallsReach, ReachedStays DEF ElementsInv
<1>3. CASE EnterCd \/ RunDoxygen \/ \E fresh \in BOOLEAN : NothingToDo(fresh)
  BY <1>0, <1>3, DoxygenReaches, ReachedStays DEF ElementsInv
<1>4. CASE \/ LeaveCd \/ Unwind
           \/ \E call \in {"prep", "clean", "build", "docker"} : Leave(call)
  BY <1>0, <1>4, ReturnsReach, ReachedStays DEF ElementsInv
<1>5. CASE Docker
  BY <1>5, DockerReaches
<1>6. CASE \E target \in {"html", "clean"} : Sphinx(target)
  BY <1>6, SphinxReaches
<1>7. CASE Fail \/ RootOnlyFails \/ UNCHANGED vars
  BY <1>7, FailsReach
<1> QED
  BY <1>1, <1>2, <1>3, <1>4, <1>5, <1>6, <1>7 DEF Next, Step

\* On any tree of elements: no page is written before doxygen has been run, or
\* found unnecessary, everywhere below; clean comes to every root below its own.
THEOREM ElementsAreReached == Spec => []EveryElementIsReached
<1>1. Init => ElementsInv
  BY ReachInvInit DEF Init, ElementsInv, EveryElementIsReached
<1>2. ElementsInv => EveryElementIsReached
  BY DEF ElementsInv
<1> QED
  BY <1>1, <1>2, DriverInvCorrect, ElementsInvNext, PTL DEF Spec

-----------------------------------------------------------------------------
(* The word list.  Python's order of strings is a strict total order, so   *)
(* the lines of a text have one arrangement, and sort-words one result.    *)

\* A sequence is before another at the first place where they differ, or where
\* only the other goes on.
Differ(a, b, n) ==
  /\ n \in 1..Len(b) /\ n <= Len(a) + 1
  /\ \A k \in 1..n-1 : a[k] = b[k]
  /\ n <= Len(a) => a[n] < b[n]

\* What Smaller says in two cases is one.
LEMMA SmallerDiffers ==
  ASSUME NEW a \in Seq(Nat), NEW b \in Seq(Nat)
  PROVE  Smaller(a, b) <=> \E n \in Nat : Differ(a, b, n)
<1> DEFINE s == SubSeq(a, 1, Len(a))
           t == SubSeq(b, 1, Len(a))
<1>0. /\ Len(a) \in Nat /\ Len(b) \in Nat /\ DOMAIN a = 1..Len(a) /\ DOMAIN b = 1..Len(b)
      /\ \A k \in 1..Len(a) : a[k] \in Nat
      /\ \A k \in 1..Len(b) : b[k] \in Nat
  OBVIOUS
<1>1. ASSUME Len(a) <= Len(b)
      PROVE  s = t <=> \A k \in 1..Len(a) : a[k] = b[k]
  <2>1. /\ s \in Seq(Nat) /\ t \in Seq(Nat) /\ Len(s) = Len(a) /\ Len(t) = Len(a)
        /\ \A k \in 1..Len(a) : s[k] = a[k] /\ t[k] = b[k]
    BY <1>0, <1>1
  <2> HIDE DEF s, t
  <2>2. ASSUME \A k \in 1..Len(a) : a[k] = b[k] PROVE s = t
    <3>1. \A k \in 1..Len(s) : s[k] = t[k]
      BY <2>1, <2>2
    <3> QED
      BY <2>1, <3>1, SameElements
  <2>3. s = t => \A k \in 1..Len(a) : s[k] = t[k]
    OBVIOUS
  <2> QED
    BY <2>1, <2>2, <2>3
<1>2. Len(a) = Len(b) /\ (\A k \in 1..Len(a) : a[k] = b[k]) => a = b
  BY <1>0
<1>3. IsStrictPrefix(a, b) <=> Len(a) < Len(b) /\ \A k \in 1..Len(a) : a[k] = b[k]
  <2>1. IsStrictPrefix(a, b) <=> Len(a) <= Len(b) /\ s = t /\ a # b
    BY DEF IsStrictPrefix, IsPrefix
  <2> HIDE DEF s, t
  <2>2. Len(a) < Len(b) => a # b
    BY <1>0
  <2>3. CASE Len(a) < Len(b)
    BY <1>0, <1>1, <2>1, <2>2, <2>3
  <2>4. CASE Len(a) = Len(b)
    BY <1>0, <1>1, <1>2, <2>1, <2>4
  <2>5. CASE Len(a) > Len(b)
    BY <1>0, <2>1, <2>5
  <2>6. Len(a) < Len(b) \/ Len(a) = Len(b) \/ Len(a) > Len(b)
    OBVIOUS
  <2> QED
    BY <2>3, <2>4, <2>5, <2>6
<1> HIDE DEF s, t
<1>4. IsStrictPrefix(a, b) <=> Differ(a, b, Len(a) + 1)
  <2>1. /\ Len(a) + 1 \in 1..Len(b) <=> Len(a) < Len(b)
        /\ Len(a) + 1 <= Len(a) + 1 /\ ~(Len(a) + 1 <= Len(a)) /\ Len(a) + 1 - 1 = Len(a)
    BY <1>0
  <2> QED
    BY <1>3, <2>1 DEF Differ
<1>5. ASSUME NEW n \in 1..Len(a) PROVE
      Differ(a, b, n) <=> n \in DOMAIN a \cap DOMAIN b /\ a[n] < b[n] /\ \A k \in 1..n-1 : a[k] = b[k]
  BY <1>0 DEF Differ
<1>6. \A n \in Nat : Differ(a, b, n) => n \in 1..Len(a) \/ n = Len(a) + 1
  BY <1>0 DEF Differ
<1>7. (\E n \in Nat : Differ(a, b, n)) <=>
        Differ(a, b, Len(a) + 1) \/ \E n \in 1..Len(a) : Differ(a, b, n)
  BY <1>0, <1>6
<1>8. (\E n \in DOMAIN a \cap DOMAIN b : a[n] < b[n] /\ \A k \in 1..n-1 : a[k] = b[k])
        <=> \E n \in 1..Len(a) : Differ(a, b, n)
  BY <1>0, <1>5
<1> QED
  BY <1>4, <1>7, <1>8 DEF Smaller

LEMMA SmallerIsAnOrder ==
  ASSUME NEW a \in Seq(Nat), NEW b \in Seq(Nat), NEW c \in Seq(Nat)
  PROVE  /\ ~Smaller(a, a)
         /\ Smaller(a, b) /\ Smaller(b, c) => Smaller(a, c)
         /\ a = b \/ Smaller(a, b) \/ Smaller(b, a)
<1>0. /\ Len(a) \in Nat /\ Len(b) \in Nat /\ Len(c) \in Nat
      /\ \A k \in 1..Len(a) : a[k] \in Nat
      /\ \A k \in 1..Len(b) : b[k] \in Nat
      /\ \A k \in 1..Len(c) : c[k] \in Nat
  OBVIOUS
<1>1. ~Smaller(a, a)
  <2>1. \A n \in Nat : ~Differ(a, a, n)
    BY <1>0 DEF Differ
  <2> QED
    BY <2>1, SmallerDiffers
<1>2. ASSUME Smaller(a, b), Smaller(b, c) PROVE Smaller(a, c)
  <2>1. PICK n \in Nat : Differ(a, b, n)
    BY <1>2, SmallerDiffers
  <2>2. PICK m \in Nat : Differ(b, c, m)
    BY <1>2, SmallerDiffers
  <2>3. CASE n <= m
    <3>1. /\ n \in 1..Len(c) /\ n <= Len(a) + 1
          /\ \A k \in 1..n-1 : k \in 1..m-1
      BY <1>0, <2>1, <2>2, <2>3, SMTT(30) DEF Differ
    <3>2. \A k \in 1..n-1 : a[k] = c[k]
      BY <3>1, <2>1, <2>2 DEF Differ
    <3>3. n <= Len(a) => a[n] < c[n]
      <4> SUFFICES ASSUME n <= Len(a) PROVE a[n] < c[n]
        OBVIOUS
      <4>1. n \in 1..Len(a) /\ n \in 1..Len(b) /\ a[n] < b[n]
        BY <1>0, <2>1 DEF Differ
      <4>2. n < m => b[n] = c[n]
        BY <2>2, <4>1, <1>0 DEF Differ
      <4>3. n = m => b[n] < c[n]
        BY <2>2, <4>1, <1>0 DEF Differ
      <4> QED
        BY <1>0, <2>3, <3>1, <4>1, <4>2, <4>3, SMTT(60)
    <3>4. Differ(a, c, n)
      BY <3>1, <3>2, <3>3 DEF Differ
    <3> QED
      BY <3>4, SmallerDiffers
  <2>4. CASE m < n
    <3>1. Differ(a, c, m)
      BY <1>0, <2>1, <2>2, <2>4, SMTT(30) DEF Differ
    <3> QED
      BY <3>1, SmallerDiffers
  <2> QED
    BY <2>3, <2>4
<1>3. ASSUME a # b PROVE Smaller(a, b) \/ Smaller(b, a)
  <2> DEFINE P == {n \in Nat : /\ n >= 1
                               /\ n > Len(a) \/ n > Len(b) \/ a[n] # b[n]}
  <2>1. Len(a) + 1 \in P
    BY <1>0
  <2>2. P \in SUBSET Nat /\ P # {}
    BY <2>1
  <2>3. PICK n \in P : \A k \in P : n <= k
    BY <2>2, LeastNatural
  <2>4. n \in Nat /\ n >= 1 /\ (n > Len(a) \/ n > Len(b) \/ a[n] # b[n])
    BY <2>3
  <2>5. \A k \in 1..n-1 : k <= Len(a) /\ k <= Len(b) /\ a[k] = b[k]
    BY <1>0, <2>3, <2>4
  <2>6. n <= Len(a) + 1 /\ n <= Len(b) + 1
    BY <1>0, <2>3
  <2>7. ~(n > Len(a) /\ n > Len(b))
    <3> SUFFICES ASSUME n > Len(a), n > Len(b) PROVE FALSE
      OBVIOUS
    <3>1. Len(a) = Len(b) /\ Len(a) = n - 1
      BY <1>0, <2>4, <2>6
    <3>2. \A k \in 1..Len(a) : a[k] = b[k]
      BY <2>5, <3>1
    <3>3. a = b
      BY <3>1, <3>2, SameElements
    <3> QED
      BY <1>3, <3>3
  <2>8. Differ(a, b, n) \/ Differ(b, a, n)
    BY <1>0, <2>4, <2>5, <2>6, <2>7 DEF Differ
  <2> QED
    BY <2>4, <2>8, SmallerDiffers
<1> QED
  BY <1>1, <1>2, <1>3

\* The lines of a set, each once, in order.
LEMMA SortedLists ==
  ASSUME NEW S \in SUBSET LineType, IsFiniteSet(S)
  PROVE  /\ Sorted(S) \in Seq(LineType)
         /\ ToSet(Sorted(S)) = S
         /\ \A i, j \in DOMAIN Sorted(S) : i < j => Smaller(Sorted(S)[i], Sorted(S)[j])
<1> DEFINE N == Cardinality(S)
           R == {p \in S \X S : Smaller(p[1], p[2])}
           rank == [l \in S |-> Cardinality({m \in S : <<m, l>> \in R})]
           t == Sorted(S)
<1>2. S \subseteq LineType /\ S \subseteq Seq(Nat)
  BY DEF LineType
<1>3. \A l, m \in S : <<l, m>> \in R <=> Smaller(l, m)
  OBVIOUS
<1>4. \A l \in S : rank[l] = Rank(l, S)
  <2> TAKE l \in S
  <2>1. {m \in S : <<m, l>> \in R} = {m \in S : Smaller(m, l)}
    BY <1>3
  <2> QED
    BY <2>1 DEF Rank
<1> HIDE DEF R
<1>5. /\ N \in Nat
      /\ \A l \in S : rank[l] \in 0..N-1
      /\ \A k \in 0..N-1 : \E l \in S : rank[l] = k
      /\ \A l, m \in S : <<l, m>> \in R <=> rank[l] < rank[m]
  <2>0. \A l, m, n \in S : l \in Seq(Nat) /\ m \in Seq(Nat) /\ n \in Seq(Nat)
    BY <1>2
  <2>1. \A l \in S : <<l, l>> \notin R
    BY <2>0, <1>3, SmallerIsAnOrder
  <2>2. \A l, m, n \in S : <<l, m>> \in R /\ <<m, n>> \in R => <<l, n>> \in R
    BY <2>0, <1>3, SmallerIsAnOrder
  <2>3. \A l, m \in S : l = m \/ <<l, m>> \in R \/ <<m, l>> \in R
    BY <2>0, <1>3, SmallerIsAnOrder
  <2> QED
    BY <2>1, <2>2, <2>3, RanksAreNumbers
<1> HIDE DEF rank
<1>6. t = [n \in 1..N |-> CHOOSE l \in S : Rank(l, S) = n - 1]
  BY DEF Sorted
<1> HIDE DEF t
<1>7. \A n \in 1..N : t[n] \in S /\ rank[t[n]] = n - 1
  <2> TAKE n \in 1..N
  <2>1. n - 1 \in 0..N-1
    BY <1>5
  <2>2. \E l \in S : Rank(l, S) = n - 1
    BY <1>4, <1>5, <2>1
  <2>3. t[n] = CHOOSE l \in S : Rank(l, S) = n - 1
    BY <1>6
  <2>4. t[n] \in S /\ Rank(t[n], S) = n - 1
    BY <2>2, <2>3
  <2> QED
    BY <1>4, <2>4
<1>8. t \in [1..N -> S] /\ Len(t) = N /\ DOMAIN t = 1..N
  BY <1>5, <1>6, <1>7
<1>9. t \in Seq(LineType)
  BY <1>2, <1>5, <1>8
<1>10. ToSet(t) = S
  <2>1. ASSUME NEW l \in S PROVE l \in ToSet(t)
    <3> DEFINE n == rank[l] + 1
    <3>1. rank[l] \in 0..N-1
      BY <1>5
    <3>2. n \in 1..N /\ n - 1 = rank[l] /\ ~(rank[l] < rank[l])
      BY <1>5, <3>1
    <3> HIDE DEF n
    <3>3. t[n] \in S /\ rank[t[n]] = rank[l] /\ t[n] \in Seq(Nat) /\ l \in Seq(Nat)
      BY <1>2, <1>7, <3>2
    <3>4. ~Smaller(t[n], l) /\ ~Smaller(l, t[n])
      BY <1>3, <1>5, <3>2, <3>3
    <3>5. t[n] = l
      BY <3>3, <3>4, SmallerIsAnOrder
    <3>7. \E j \in DOMAIN t : t[j] = l
      BY <3>2, <3>5, <1>8
    <3> QED
      BY <3>7 DEF ToSet
  <2> QED
    BY <1>8, <2>1 DEF ToSet
<1>11. ASSUME NEW i \in DOMAIN t, NEW j \in DOMAIN t, i < j PROVE Smaller(t[i], t[j])
  <2>1. i \in 1..N /\ j \in 1..N
    BY <1>8
  <2>2. rank[t[i]] = i - 1 /\ rank[t[j]] = j - 1 /\ t[i] \in S /\ t[j] \in S
    BY <1>7, <2>1
  <2>3. i - 1 < j - 1
    BY <2>1, <1>5, <1>11
  <2> QED
    BY <1>3, <1>5, <2>2, <2>3
<1> QED
  BY <1>9, <1>10, <1>11 DEF t

-----------------------------------------------------------------------------
(* The lines of a text, and what another line written to its end does.     *)

LEMMA PartElements ==
  ASSUME NEW s \in Seq(Nat), NEW i \in Nat, NEW j \in Nat, 1 <= i, i <= j, j <= Len(s)
  PROVE  /\ SubSeq(s, i, j) \in Seq(Nat) /\ Len(SubSeq(s, i, j)) = j - i + 1
         /\ \A k \in 1..j-i+1 : SubSeq(s, i, j)[k] = s[i + k - 1]
<1>1. \A k \in i..j : s[k] \in Nat
  OBVIOUS
<1> QED
  BY <1>1

\* Where two texts have the same characters they have the same lines.
LEMMA SameParts ==
  ASSUME NEW s \in Seq(Nat), NEW t \in Seq(Nat), NEW i \in Nat, NEW j \in Nat,
         1 <= i, i <= j, j <= Len(s), j <= Len(t), \A k \in i..j : s[k] = t[k]
  PROVE  SubSeq(s, i, j) = SubSeq(t, i, j)
<1>1. /\ SubSeq(s, i, j) \in Seq(Nat) /\ Len(SubSeq(s, i, j)) = j - i + 1
      /\ \A k \in 1..j-i+1 : SubSeq(s, i, j)[k] = s[i + k - 1]
  BY PartElements
<1>2. /\ SubSeq(t, i, j) \in Seq(Nat) /\ Len(SubSeq(t, i, j)) = j - i + 1
      /\ \A k \in 1..j-i+1 : SubSeq(t, i, j)[k] = t[i + k - 1]
  BY PartElements
<1>3. \A k \in 1..j-i+1 : i + k - 1 \in i..j
  OBVIOUS
<1>4. \A k \in 1..j-i+1 : SubSeq(s, i, j)[k] = SubSeq(t, i, j)[k]
  BY <1>1, <1>2, <1>3
<1> QED
  BY <1>1, <1>2, <1>4, SameElements

\* One line of the text is its i-th to its j-th character.
IsSpan(t, i, j) ==
  /\ i \in Nat /\ j \in Nat /\ 1 <= i /\ i <= j /\ j <= Len(t)
  /\ i = 1 \/ t[i - 1] = Newline
  /\ j = Len(t) \/ t[j] = Newline
  /\ \A k \in i..j-1 : t[k] # Newline

LEMMA SpanFacts ==
  ASSUME NEW t \in Seq(Nat)
  PROVE  /\ \A i, j : IsSpan(t, i, j) => <<i, j>> \in Spans(t)
         /\ \A p \in Spans(t) : \E i, j : p = <<i, j>> /\ IsSpan(t, i, j)
<1>1. DOMAIN t = 1..Len(t) /\ Len(t) \in Nat
  OBVIOUS
<1>2. ASSUME NEW i, NEW j, IsSpan(t, i, j) PROVE <<i, j>> \in Spans(t)
  <2>0. i \in Nat /\ j \in Nat /\ 1 <= i /\ i <= j /\ j <= Len(t)
    BY <1>2 DEF IsSpan
  <2>1. i \in 1..Len(t) /\ j \in 1..Len(t)
    BY <1>1, <2>0
  <2> QED
    BY <1>1, <1>2, <2>1 DEF IsSpan, Spans
<1>3. ASSUME NEW p \in Spans(t) PROVE \E i, j : p = <<i, j>> /\ IsSpan(t, i, j)
  <2>1. /\ p \in (1..Len(t)) \X (1..Len(t))
        /\ p[1] <= p[2]
        /\ p[1] = 1 \/ t[p[1] - 1] = Newline
        /\ p[2] = Len(t) \/ t[p[2]] = Newline
        /\ \A k \in p[1]..p[2]-1 : t[k] # Newline
    BY <1>1 DEF Spans
  <2>2. PICK i \in 1..Len(t), j \in 1..Len(t) : p = <<i, j>>
    BY <2>1
  <2>3. p[1] = i /\ p[2] = j
    BY <2>2
  <2>5. i \in Nat /\ j \in Nat /\ 1 <= i /\ j <= Len(t)
    BY <1>1, <2>2
  <2>6. /\ i <= j
        /\ i = 1 \/ t[i - 1] = Newline
        /\ j = Len(t) \/ t[j] = Newline
        /\ \A k \in i..j-1 : t[k] # Newline
    BY <2>1, <2>3
  <2>4. IsSpan(t, i, j)
    BY <2>5, <2>6 DEF IsSpan
  <2> QED
    BY <2>2, <2>4
<1> QED
  BY <1>2, <1>3

LEMMA LinesAreLines ==
  ASSUME NEW t \in Seq(Nat)
  PROVE  /\ LinesOf(t) \subseteq LineType /\ IsFiniteSet(LinesOf(t))
<1>1. ASSUME NEW p \in Spans(t) PROVE LineAt(t, p) \in LineType
  <2>1. PICK i, j : p = <<i, j>> /\ IsSpan(t, i, j)
    BY SpanFacts
  <2>2. /\ i \in Nat /\ j \in Nat /\ 1 <= i /\ i <= j /\ j <= Len(t)
        /\ \A k \in i..j-1 : t[k] # Newline
    BY <2>1 DEF IsSpan
  <2> DEFINE l == SubSeq(t, i, j)
  <2>3. /\ l \in Seq(Nat) /\ Len(l) = j - i + 1
        /\ \A k \in 1..j-i+1 : l[k] = t[i + k - 1]
    BY <2>2, PartElements
  <2> HIDE DEF l
  <2>4. l # <<>>
    BY <2>2, <2>3
  <2>5. ASSUME NEW k \in 1..Len(l)-1 PROVE l[k] # Newline
    <3>1. k \in 1..j-i+1 /\ i + k - 1 \in i..j-1
      BY <2>2, <2>3
    <3> QED
      BY <2>2, <2>3, <3>1
  <2>6. LineAt(t, p) = l
    BY <2>1 DEF LineAt, l
  <2> QED
    BY <2>3, <2>4, <2>5, <2>6 DEF LineType
<1>2. IsFiniteSet(Spans(t))
  <2>1. DOMAIN t = 1..Len(t) /\ IsFiniteSet(1..Len(t))
    BY FS_Interval
  <2>2. IsFiniteSet((DOMAIN t) \X (DOMAIN t))
    BY <2>1, FS_Product
  <2>3. Spans(t) \subseteq (DOMAIN t) \X (DOMAIN t)
    BY DEF Spans
  <2> QED
    BY <2>2, <2>3, FS_Subset
<1>3. IsFiniteSet(LinesOf(t))
  <2> DEFINE f == [p \in Spans(t) |-> LineAt(t, p)]
  <2>1. f \in Surjection(Spans(t), LinesOf(t))
    BY DEF Surjection, LinesOf
  <2> QED
    BY <1>2, <2>1, FS_Surjection
<1> QED
  BY <1>1, <1>3 DEF LinesOf

\* A text whose lines have all ended.
IsClosed(t) == t = <<>> \/ IsEnded(t)

\* A line written after ended lines is one line more; those before stay.
LEMMA SpansAppend ==
  ASSUME NEW t \in Seq(Nat), NEW l \in LineType, IsClosed(t)
  PROVE  /\ Spans(t \o l) = Spans(t) \cup {<<Len(t) + 1, Len(t) + Len(l)>>}
         /\ \A p \in Spans(t) : LineAt(t \o l, p) = LineAt(t, p)
         /\ LineAt(t \o l, <<Len(t) + 1, Len(t) + Len(l)>>) = l
<1> DEFINE u == t \o l
           new == <<Len(t) + 1, Len(t) + Len(l)>>
<1>1. PICK m \in Nat, n \in Nat : m = Len(t) /\ n = Len(l) /\ n >= 1
  BY DEF LineType
<1>2. /\ l \in Seq(Nat) /\ \A k \in 1..n-1 : l[k] # Newline
  BY <1>1 DEF LineType
<1>3. /\ u \in Seq(Nat) /\ Len(u) = m + n /\ DOMAIN u = 1..m+n /\ DOMAIN t = 1..m
      /\ \A k \in 1..m : u[k] = t[k]
      /\ \A k \in m+1..m+n : u[k] = l[k - m]
  BY <1>1, <1>2
<1>4. m = 0 \/ t[m] = Newline
  BY <1>1 DEF IsClosed, IsEnded, Last
<1>5. new = <<m + 1, m + n>>
  BY <1>1
<1> HIDE DEF u, new
<1>6. IsSpan(u, m + 1, m + n)
  <2>1. m + 1 = 1 \/ u[(m + 1) - 1] = Newline
    <3>1. (m + 1) - 1 = m /\ (m = 0 \/ m \in 1..m)
      BY <1>1
    <3> QED
      BY <1>1, <1>3, <1>4, <3>1
  <2>2. ASSUME NEW k \in m+1..(m+n)-1 PROVE u[k] # Newline
    <3>1. k \in m+1..m+n /\ k - m \in 1..n-1
      BY <1>1
    <3> QED
      BY <1>2, <1>3, <3>1
  <2> QED
    BY <1>1, <1>3, <2>1, <2>2 DEF IsSpan
<1>7. ASSUME NEW i, NEW j, IsSpan(t, i, j)
      PROVE  IsSpan(u, i, j) /\ LineAt(u, <<i, j>>) = LineAt(t, <<i, j>>)
  <2>1. /\ i \in Nat /\ j \in Nat /\ 1 <= i /\ i <= j /\ j <= m
        /\ i = 1 \/ t[i - 1] = Newline
        /\ j = m \/ t[j] = Newline
        /\ \A k \in i..j-1 : t[k] # Newline
    BY <1>1, <1>7 DEF IsSpan
  <2>2. /\ \A k \in i..j : k \in 1..m
        /\ \A k \in i..j-1 : k \in i..j
        /\ i = 1 \/ i - 1 \in 1..m
        /\ j \in 1..m /\ m # 0 /\ j <= m + n
    BY <1>1, <2>1
  <2>3. \A k \in i..j : u[k] = t[k]
    BY <1>3, <2>2
  <2>4. IsSpan(u, i, j)
    <3>1. u[j] = Newline
      BY <1>3, <1>4, <2>1, <2>2
    <3>2. i = 1 \/ u[i - 1] = Newline
      BY <1>3, <2>1, <2>2
    <3>3. \A k \in i..j-1 : u[k] # Newline
      BY <2>1, <2>2, <2>3
    <3> QED
      BY <1>3, <2>1, <2>2, <3>1, <3>2, <3>3 DEF IsSpan
  <2>5. SubSeq(u, i, j) = SubSeq(t, i, j)
    BY <1>1, <1>3, <2>1, <2>2, <2>3, SameParts
  <2> QED
    BY <2>4, <2>5 DEF LineAt
<1>8. ASSUME NEW i, NEW j, IsSpan(u, i, j)
      PROVE  IsSpan(t, i, j) \/ (i = m + 1 /\ j = m + n)
  <2>1. /\ i \in Nat /\ j \in Nat /\ 1 <= i /\ i <= j /\ j <= m + n
        /\ i = 1 \/ u[i - 1] = Newline
        /\ j = m + n \/ u[j] = Newline
        /\ \A k \in i..j-1 : u[k] # Newline
    BY <1>3, <1>8 DEF IsSpan
  <2>2. CASE j <= m
    <3>1. /\ \A k \in i..j-1 : k \in 1..m
          /\ i = 1 \/ i - 1 \in 1..m
          /\ j \in 1..m
      BY <1>1, <2>1, <2>2
    <3>2. (i = 1 \/ t[i - 1] = Newline) /\ \A k \in i..j-1 : t[k] # Newline
      BY <1>3, <2>1, <3>1
    <3>3. j = m \/ t[j] = Newline
      <4>1. j # m + n
        BY <1>1, <2>2
      <4> QED
        BY <1>3, <2>1, <3>1, <4>1
    <3> QED
      BY <1>1, <2>1, <2>2, <3>2, <3>3 DEF IsSpan
  <2>3. CASE j > m
    <3>1. i > m
      <4> SUFFICES ASSUME i <= m PROVE FALSE
        BY <1>1, <2>1
      <4>1. m \in i..j-1 /\ m \in 1..m
        BY <1>1, <2>1, <2>3
      <4>2. u[m] # Newline /\ u[m] = t[m]
        BY <1>3, <2>1, <4>1
      <4> QED
        BY <1>4, <4>1, <4>2
    <3>2. j = m + n
      <4> SUFFICES ASSUME j # m + n PROVE FALSE
        OBVIOUS
      <4>1. u[j] = Newline /\ j \in m+1..m+n /\ j - m \in 1..n-1
        BY <1>1, <2>1, <2>3
      <4> QED
        BY <1>2, <1>3, <4>1
    <3>3. i = m + 1
      <4> SUFFICES ASSUME i # m + 1 PROVE FALSE
        OBVIOUS
      <4>1. /\ u[i - 1] = Newline /\ i - 1 \in m+1..m+n /\ (i - 1) - m \in 1..n-1
        BY <1>1, <2>1, <3>1
      <4> QED
        BY <1>2, <1>3, <4>1
    <3> QED
      BY <3>2, <3>3
  <2> QED
    BY <1>1, <2>1, <2>2, <2>3
<1>9. LineAt(u, new) = l
  <2> DEFINE s == SubSeq(u, m + 1, m + n)
  <2>1. LineAt(u, new) = s
    BY <1>5 DEF LineAt
  <2>2. /\ s \in Seq(Nat) /\ Len(s) = (m + n) - (m + 1) + 1
        /\ \A k \in 1..(m+n)-(m+1)+1 : s[k] = u[(m + 1) + k - 1]
    <3>1. m + 1 \in Nat /\ m + n \in Nat /\ 1 <= m + 1 /\ m + 1 <= m + n /\ m + n <= Len(u)
      BY <1>1, <1>3
    <3> QED
      BY <1>3, <3>1, PartElements
  <2> HIDE DEF s
  <2>3. (m + n) - (m + 1) + 1 = n
    BY <1>1
  <2>4. \A k \in 1..n : (m + 1) + k - 1 \in m+1..m+n /\ ((m + 1) + k - 1) - m = k
    BY <1>1
  <2>5. \A k \in 1..n : u[(m + 1) + k - 1] = l[k]
    BY <1>3, <2>4
  <2>6. \A k \in 1..n : s[k] = l[k]
    BY <2>2, <2>3, <2>5
  <2>7. s = l
    BY <1>1, <1>2, <2>2, <2>3, <2>6, SameElements
  <2> QED
    BY <2>1, <2>7
<1>10. ASSUME NEW p \in Spans(t) PROVE p \in Spans(u) /\ LineAt(u, p) = LineAt(t, p)
  <2>1. PICK i, j : p = <<i, j>> /\ IsSpan(t, i, j)
    BY SpanFacts
  <2> QED
    BY <1>3, <1>7, <2>1, SpanFacts
<1>11. ASSUME NEW p \in Spans(u) PROVE p \in Spans(t) \/ p = new
  <2>1. PICK i, j : p = <<i, j>> /\ IsSpan(u, i, j)
    BY <1>3, SpanFacts
  <2> QED
    BY <1>5, <1>8, <2>1, SpanFacts
<1>12. new \in Spans(u)
  BY <1>3, <1>5, <1>6, SpanFacts
<1>13. Spans(u) = Spans(t) \cup {new}
  BY <1>10, <1>11, <1>12
<1> QED
  BY <1>9, <1>10, <1>13 DEF u, new

LEMMA WordsAppend ==
  ASSUME NEW t \in Seq(Nat), NEW l \in LineType, IsClosed(t)
  PROVE  LinesOf(t \o l) = LinesOf(t) \cup {l} /\ WordsOf(t \o l) = WordsOf(t) \cup {Word(l)}
<1> DEFINE new == <<Len(t) + 1, Len(t) + Len(l)>>
<1>1. /\ Spans(t \o l) = Spans(t) \cup {new}
      /\ \A p \in Spans(t) : LineAt(t \o l, p) = LineAt(t, p)
      /\ LineAt(t \o l, new) = l
  BY SpansAppend
<1> HIDE DEF new
<1>2. LinesOf(t \o l) = LinesOf(t) \cup {l}
  BY <1>1 DEF LinesOf
<1> QED
  BY <1>1, <1>2 DEF WordsOf

\* Ending the last line changes no word.
LEMMA WordsEnded ==
  ASSUME NEW t \in Seq(Nat)
  PROVE  /\ Ended(t) \in Seq(Nat) /\ IsClosed(Ended(t)) /\ WordsOf(Ended(t)) = WordsOf(t)
<1>1. CASE IsClosed(t)
  BY <1>1 DEF Ended, IsClosed
<1>2. CASE ~IsClosed(t)
  <2> DEFINE u == Append(t, Newline)
  <2>1. Ended(t) = u
    BY <1>2 DEF Ended, IsClosed
  <2>2. PICK m \in Nat : m = Len(t) /\ m >= 1 /\ t[m] # Newline
    BY <1>2 DEF IsClosed, IsEnded, Last
  <2>3. /\ u \in Seq(Nat) /\ Len(u) = m + 1 /\ DOMAIN u = 1..m+1 /\ DOMAIN t = 1..m
        /\ u # <<>>
        /\ \A k \in 1..m : u[k] = t[k]
        /\ u[m + 1] = Newline
    BY <2>2 DEF Newline
  <2> HIDE DEF u
  <2>4. IsClosed(u)
    BY <2>3 DEF IsClosed, IsEnded, Last
  <2>5. ASSUME NEW i \in Nat, 1 <= i, i <= m
        PROVE  Word(SubSeq(u, i, m + 1)) = Word(SubSeq(t, i, m))
    <3> DEFINE a == SubSeq(t, i, m)
               b == SubSeq(u, i, m + 1)
               n == m - i + 1
    <3>1. /\ a \in Seq(Nat) /\ Len(a) = m - i + 1
          /\ \A k \in 1..m-i+1 : a[k] = t[i + k - 1]
      BY <2>2, <2>5, PartElements
    <3>2. /\ b \in Seq(Nat) /\ Len(b) = (m + 1) - i + 1
          /\ \A k \in 1..(m+1)-i+1 : b[k] = u[i + k - 1]
      <4>1. m + 1 \in Nat /\ i <= m + 1 /\ m + 1 <= Len(u)
        BY <2>2, <2>3, <2>5
      <4> QED
        BY <2>3, <2>5, <4>1, PartElements
    <3>3. /\ n \in Nat /\ n >= 1 /\ (m + 1) - i + 1 = n + 1 /\ i + n - 1 = m /\ i + (n + 1) - 1 = m + 1
          /\ \A k \in 1..n : i + k - 1 \in 1..m
      BY <2>2, <2>5
    <3> HIDE DEF a, b
    <3>4. /\ a \in Seq(Nat) /\ Len(a) = n /\ \A k \in 1..n : a[k] = t[i + k - 1]
          /\ b \in Seq(Nat) /\ Len(b) = n + 1 /\ \A k \in 1..n+1 : b[k] = u[i + k - 1]
      BY <3>1, <3>2, <3>3
    <3> HIDE DEF n
    <3>5. /\ n \in 1..n /\ n + 1 \in 1..n+1 /\ \A k \in 1..n : k \in 1..n+1
          /\ (n + 1) - 1 = n
      BY <3>3
    <3>6. a[n] = t[m] /\ b[n + 1] = Newline
      BY <2>3, <3>3, <3>4, <3>5
    <3>7. ~IsEnded(a) /\ IsEnded(b)
      BY <2>2, <3>4, <3>6 DEF IsEnded, Last
    <3>8. \A k \in 1..n : b[k] = a[k]
      BY <2>3, <3>3, <3>4, <3>5
    <3>9. /\ SubSeq(b, 1, n) \in Seq(Nat) /\ Len(SubSeq(b, 1, n)) = n
          /\ \A k \in 1..n : SubSeq(b, 1, n)[k] = b[k]
      <4>1. b # <<>> /\ Len(b) - 1 = n
        BY <3>3, <3>4
      <4> QED
        BY <3>4, <4>1, FrontElements
    <3>10. SubSeq(b, 1, n) = a
      BY <3>4, <3>8, <3>9, SameElements
    <3>11. Word(b) = a /\ Word(a) = a
      BY <3>4, <3>5, <3>7, <3>10 DEF Word, Front
    <3> QED
      BY <3>11 DEF a, b
  <2>6. ASSUME NEW i, NEW j, IsSpan(t, i, j)
        PROVE  \E p \in Spans(u) : Word(LineAt(u, p)) = Word(SubSeq(t, i, j))
    <3>1. /\ i \in Nat /\ j \in Nat /\ 1 <= i /\ i <= j /\ j <= m
          /\ i = 1 \/ t[i - 1] = Newline
          /\ j = m \/ t[j] = Newline
          /\ \A k \in i..j-1 : t[k] # Newline
      BY <2>2, <2>6 DEF IsSpan
    <3>2. /\ i = 1 \/ i - 1 \in 1..m
          /\ \A k \in i..j : k \in 1..m
          /\ \A k \in i..j-1 : k \in i..j
          /\ j \in 1..m /\ j <= m + 1 /\ m + 1 \in Nat /\ i <= m + 1
      BY <3>1
    <3>3. i = 1 \/ u[i - 1] = Newline
      BY <2>3, <3>1, <3>2
    <3>4. (\A k \in i..j : u[k] = t[k]) /\ \A k \in i..j-1 : u[k] # Newline
      BY <2>3, <3>1, <3>2
    <3>5. CASE j < m
      <4>1. u[j] = Newline
        <5>1. j # m
          BY <2>2, <3>1, <3>5
        <5> QED
          BY <2>3, <3>1, <3>2, <5>1
      <4>2. IsSpan(u, i, j)
        BY <2>3, <3>1, <3>2, <3>3, <3>4, <4>1 DEF IsSpan
      <4>3. SubSeq(u, i, j) = SubSeq(t, i, j)
        <5>1. j <= Len(u) /\ j <= Len(t) /\ \A k \in i..j : u[k] = t[k]
          BY <2>2, <2>3, <3>1, <3>2, <3>4
        <5> QED
          BY <2>3, <3>1, <5>1, SameParts
      <4>4. LineAt(u, <<i, j>>) = SubSeq(t, i, j)
        BY <4>3 DEF LineAt
      <4> QED
        BY <2>3, <4>2, <4>4, SpanFacts
    <3>6. CASE j = m
      <4>1. ASSUME NEW k \in i..(m+1)-1 PROVE u[k] # Newline
        <5>1. k \in i..j /\ (k = m \/ k \in i..j-1)
          BY <3>1, <3>6
        <5> QED
          BY <2>2, <3>2, <3>4, <3>6, <5>1
      <4>2. IsSpan(u, i, m + 1)
        BY <2>3, <3>1, <3>2, <3>3, <4>1 DEF IsSpan
      <4>3. Word(LineAt(u, <<i, m + 1>>)) = Word(SubSeq(t, i, j))
        BY <2>5, <3>1, <3>6 DEF LineAt
      <4> QED
        BY <2>3, <4>2, <4>3, SpanFacts
    <3> QED
      BY <2>2, <3>1, <3>5, <3>6
  <2>7. ASSUME NEW i, NEW j, IsSpan(u, i, j)
        PROVE  \E p \in Spans(t) : Word(LineAt(t, p)) = Word(SubSeq(u, i, j))
    <3>1. /\ i \in Nat /\ j \in Nat /\ 1 <= i /\ i <= j /\ j <= m + 1
          /\ i = 1 \/ u[i - 1] = Newline
          /\ j = m + 1 \/ u[j] = Newline
          /\ \A k \in i..j-1 : u[k] # Newline
      BY <2>3, <2>7 DEF IsSpan
    <3>2. CASE j <= m
      <4>1. /\ i = 1 \/ i - 1 \in 1..m
            /\ \A k \in i..j : k \in 1..m
            /\ \A k \in i..j-1 : k \in i..j
            /\ j \in 1..m /\ j # m + 1
        BY <2>2, <3>1, <3>2
      <4>2. (i = 1 \/ t[i - 1] = Newline) /\ t[j] = Newline
        BY <2>3, <3>1, <4>1
      <4>3. (\A k \in i..j : t[k] = u[k]) /\ \A k \in i..j-1 : t[k] # Newline
        BY <2>3, <3>1, <4>1
      <4>4. IsSpan(t, i, j)
        BY <2>2, <3>1, <3>2, <4>2, <4>3 DEF IsSpan
      <4>5. SubSeq(t, i, j) = SubSeq(u, i, j)
        <5>1. j <= Len(u) /\ j <= Len(t) /\ \A k \in i..j : t[k] = u[k]
          BY <2>2, <2>3, <3>1, <3>2, <4>3
        <5> QED
          BY <2>3, <3>1, <5>1, SameParts
      <4>6. LineAt(t, <<i, j>>) = SubSeq(u, i, j)
        BY <4>5 DEF LineAt
      <4> QED
        BY <4>4, <4>6, SpanFacts
    <3>3. CASE j = m + 1
      <4>1. i <= m
        <5>1. i = m + 1 => u[i - 1] = u[m] /\ m \in 1..m /\ i # 1
          BY <2>2
        <5>2. i # m + 1
          BY <2>2, <2>3, <3>1, <5>1
        <5> QED
          BY <2>2, <3>1, <5>2
      <4>2. /\ i = 1 \/ i - 1 \in 1..m
            /\ \A k \in i..m-1 : k \in 1..m /\ k \in i..j-1
        BY <2>2, <3>1, <3>3, <4>1
      <4>3. (i = 1 \/ t[i - 1] = Newline) /\ \A k \in i..m-1 : t[k] # Newline
        BY <2>3, <3>1, <4>2
      <4>4. IsSpan(t, i, m)
        BY <2>2, <3>1, <4>1, <4>3 DEF IsSpan
      <4>5. Word(LineAt(t, <<i, m>>)) = Word(SubSeq(u, i, j))
        BY <2>5, <3>1, <3>3, <4>1 DEF LineAt
      <4> QED
        BY <4>4, <4>5, SpanFacts
    <3> QED
      BY <2>2, <3>1, <3>2, <3>3
  <2>8. ASSUME NEW l \in LinesOf(t) PROVE Word(l) \in WordsOf(u)
    <3>1. PICK p \in Spans(t) : l = LineAt(t, p)
      BY DEF LinesOf
    <3>2. PICK i, j : p = <<i, j>> /\ IsSpan(t, i, j)
      BY SpanFacts
    <3>3. PICK q \in Spans(u) : Word(LineAt(u, q)) = Word(l)
      BY <2>6, <3>1, <3>2 DEF LineAt
    <3> QED
      BY <3>3 DEF WordsOf, LinesOf
  <2>9. ASSUME NEW l \in LinesOf(u) PROVE Word(l) \in WordsOf(t)
    <3>1. PICK p \in Spans(u) : l = LineAt(u, p)
      BY DEF LinesOf
    <3>2. PICK i, j : p = <<i, j>> /\ IsSpan(u, i, j)
      BY <2>3, SpanFacts
    <3>3. PICK q \in Spans(t) : Word(LineAt(t, q)) = Word(l)
      BY <2>7, <3>1, <3>2 DEF LineAt
    <3> QED
      BY <3>3 DEF WordsOf, LinesOf
  <2>10. WordsOf(u) = WordsOf(t)
    BY <2>8, <2>9 DEF WordsOf
  <2> QED
    BY <2>1, <2>3, <2>4, <2>10
<1> QED
  BY <1>1, <1>2

\* A word is the same with and without its newline.
LEMMA WordsAreWords ==
  ASSUME NEW w \in Seq(Letters) \ {<<>>}
  PROVE  /\ w \in LineType /\ Word(w) = w
         /\ Append(w, Newline) \in LineType /\ Word(Append(w, Newline)) = w
<1> DEFINE u == Append(w, Newline)
<1>1. PICK m \in Nat : m = Len(w) /\ m >= 1
  OBVIOUS
<1>2. \A k \in 1..m : w[k] \in Nat /\ w[k] # Newline
  BY <1>1 DEF Letters
<1>3. w \in Seq(Nat)
  BY <1>1, <1>2
<1>4. /\ u \in Seq(Nat) /\ Len(u) = m + 1 /\ u[m + 1] = Newline /\ u # <<>>
      /\ \A k \in 1..m : u[k] = w[k]
  BY <1>1, <1>3 DEF Newline
<1> HIDE DEF u
<1>5. w \in LineType /\ u \in LineType
  <2>1. \A k \in 1..Len(w)-1 : w[k] # Newline
    BY <1>1, <1>2
  <2>2. \A k \in 1..Len(u)-1 : u[k] # Newline
    BY <1>1, <1>2, <1>4
  <2> QED
    BY <1>3, <1>4, <2>1, <2>2 DEF LineType
<1>6. ~IsEnded(w) /\ IsEnded(u)
  BY <1>1, <1>2, <1>4 DEF IsEnded, Last
<1>7. /\ SubSeq(u, 1, Len(u) - 1) \in Seq(Nat)
      /\ Len(SubSeq(u, 1, Len(u) - 1)) = Len(u) - 1
      /\ \A n \in 1..Len(u)-1 : SubSeq(u, 1, Len(u) - 1)[n] = u[n]
  BY <1>4, FrontElements
<1>8. SubSeq(u, 1, Len(u) - 1) = w
  BY <1>1, <1>3, <1>4, <1>7, SameElements
<1> QED
  BY <1>5, <1>6, <1>8 DEF Word, Front, u

LEMMA NoLines == Spans(<<>>) = {} /\ LinesOf(<<>>) = {} /\ WordsOf(<<>>) = {} /\ Ascending(<<>>)
<1>1. Spans(<<>>) = {}
  BY DEF Spans
<1>2. LinesOf(<<>>) = {}
  BY <1>1 DEF LinesOf
<1> QED
  BY <1>1, <1>2 DEF WordsOf, Ascending

-----------------------------------------------------------------------------
(* What sort_words has written and what it has still to write.             *)

InSequence(ls) == \A i, j \in DOMAIN ls : i < j => Smaller(ls[i], ls[j])

Rest(ls) == {Word(ls[n]) : n \in DOMAIN ls}

\* The lines can follow the text, one by one.
Follow(t, ls) ==
  /\ Ascending(t) /\ InSequence(ls)
  /\ \A n \in 1..Len(ls)-1 : IsEnded(ls[n])
  /\ ls # <<>> => IsClosed(t)
  /\ \A l \in LinesOf(t), n \in DOMAIN ls : Smaller(l, ls[n])

\* Then a write takes one from the lines to the text, and its word with it.
LEMMA LineMoves ==
  ASSUME NEW t \in Seq(Nat), NEW ls \in Seq(LineType), ls # <<>>, Follow(t, ls)
  PROVE  /\ t \o Head(ls) \in Seq(Nat) /\ Tail(ls) \in Seq(LineType)
         /\ Follow(t \o Head(ls), Tail(ls))
         /\ WordsOf(t \o Head(ls)) \cup Rest(Tail(ls)) = WordsOf(t) \cup Rest(ls)
<1> DEFINE l == Head(ls)
           r == Tail(ls)
           u == t \o l
<1>1. PICK m \in Nat : m = Len(ls) /\ m >= 1
  OBVIOUS
<1>2. /\ l \in LineType /\ l = ls[1] /\ r \in Seq(LineType) /\ Len(r) = m - 1
      /\ DOMAIN ls = 1..m /\ DOMAIN r = 1..m-1
      /\ \A n \in 1..m-1 : r[n] = ls[n + 1]
  BY <1>1
<1>3. l \in Seq(Nat) /\ l # <<>> /\ u \in Seq(Nat)
  BY <1>2 DEF LineType
<1>4. /\ Ascending(t) /\ InSequence(ls) /\ IsClosed(t)
      /\ \A n \in 1..m-1 : IsEnded(ls[n])
      /\ \A k \in LinesOf(t), n \in 1..m : Smaller(k, ls[n])
  BY <1>1, <1>2 DEF Follow
<1> HIDE DEF l, r
<1>5. LinesOf(u) = LinesOf(t) \cup {l} /\ WordsOf(u) = WordsOf(t) \cup {Word(l)}
  BY <1>2, <1>4, WordsAppend
<1>6. Ascending(u)
  <2> DEFINE new == <<Len(t) + 1, Len(t) + Len(l)>>
  <2>1. /\ Spans(u) = Spans(t) \cup {new}
        /\ \A p \in Spans(t) : LineAt(u, p) = LineAt(t, p)
        /\ LineAt(u, new) = l
        /\ new[1] = Len(t) + 1
    BY <1>2, <1>4, SpansAppend
  <2> HIDE DEF new, u
  <2>2. \A p \in Spans(t) : p[1] \in Nat /\ p[1] <= Len(t)
    <3> TAKE p \in Spans(t)
    <3>1. PICK i, j : p = <<i, j>> /\ IsSpan(t, i, j)
      BY SpanFacts
    <3>2. i \in Nat /\ j \in Nat /\ i <= j /\ j <= Len(t) /\ p[1] = i
      BY <3>1 DEF IsSpan
    <3> QED
      BY <3>2
  <2>3. ASSUME NEW p \in Spans(u), NEW q \in Spans(u), p[1] < q[1]
        PROVE  Smaller(LineAt(u, p), LineAt(u, q))
    <3>1. CASE p \in Spans(t) /\ q \in Spans(t)
      BY <1>4, <2>1, <2>3, <3>1 DEF Ascending
    <3>2. CASE p \in Spans(t) /\ q = new
      <4>1. LineAt(t, p) \in LinesOf(t) /\ 1 \in 1..m
        BY <1>1, <3>2 DEF LinesOf
      <4>2. Smaller(LineAt(t, p), ls[1])
        BY <1>4, <4>1
      <4>3. LineAt(u, p) = LineAt(t, p) /\ LineAt(u, q) = ls[1]
        BY <1>2, <2>1, <3>2
      <4> QED
        BY <4>2, <4>3
    <3>3. CASE p = new
      <4>1. ~(q \in Spans(t))
        <5>1. Len(t) \in Nat
          OBVIOUS
        <5> QED
          BY <2>1, <2>2, <2>3, <3>3, <5>1
      <4>2. q = new
        BY <2>1, <4>1
      <4>3. Len(t) + 1 < Len(t) + 1
        BY <2>1, <2>3, <3>3, <4>2
      <4> QED
        BY <4>3
    <3> QED
      BY <2>1, <3>1, <3>2, <3>3
  <2> QED
    BY <2>3 DEF Ascending
<1>7. InSequence(r)
  <2>1. ASSUME NEW i \in DOMAIN r, NEW j \in DOMAIN r, i < j PROVE Smaller(r[i], r[j])
    <3>1. i + 1 \in DOMAIN ls /\ j + 1 \in DOMAIN ls /\ i + 1 < j + 1
      BY <1>1, <1>2, <2>1
    <3>2. Smaller(ls[i + 1], ls[j + 1])
      BY <1>4, <3>1 DEF InSequence
    <3> QED
      BY <1>2, <3>2
  <2> QED
    BY <2>1 DEF InSequence
<1>8. \A n \in 1..Len(r)-1 : IsEnded(r[n])
  <2> TAKE n \in 1..Len(r)-1
  <2>1. n \in 1..m-1 /\ n + 1 \in 1..m-1
    BY <1>1, <1>2
  <2> QED
    BY <1>2, <1>4, <2>1
<1>9. r # <<>> => IsClosed(u)
  <2> SUFFICES ASSUME r # <<>> PROVE IsClosed(u)
    OBVIOUS
  <2>1. 1 \in 1..m-1
    BY <1>1, <1>2
  <2>2. l[Len(l)] = Newline
    BY <1>2, <1>4, <2>1 DEF IsEnded, Last
  <2>3. u[Len(u)] = l[Len(l)]
    BY <1>3
  <2> QED
    BY <2>2, <2>3 DEF IsClosed, IsEnded, Last
<1> HIDE DEF u
<1>10. ASSUME NEW k \in LinesOf(u), NEW n \in DOMAIN r PROVE Smaller(k, r[n])
  <2>1. /\ n \in 1..m-1 /\ n + 1 \in 1..m /\ r[n] = ls[n + 1]
        /\ 1 \in DOMAIN ls /\ n + 1 \in DOMAIN ls /\ 1 < n + 1
    BY <1>1, <1>2
  <2>2. CASE k \in LinesOf(t)
    BY <1>4, <2>1, <2>2
  <2>3. CASE k = l
    <3>1. Smaller(ls[1], ls[n + 1])
      BY <1>4, <2>1 DEF InSequence
    <3> QED
      BY <1>2, <2>1, <2>3, <3>1
  <2> QED
    BY <1>5, <2>2, <2>3
<1>11. Rest(ls) = {Word(l)} \cup Rest(r)
  <2>1. \A n \in 1..m : n = 1 \/ (n - 1 \in 1..m-1 /\ r[n - 1] = ls[n])
    BY <1>1, <1>2
  <2>2. ASSUME NEW n \in 1..m-1 PROVE n + 1 \in 1..m /\ ls[n + 1] = r[n]
    BY <1>1, <1>2
  <2>3. 1 \in 1..m
    BY <1>1
  <2>4. ASSUME NEW w \in Rest(ls) PROVE w \in {Word(l)} \cup Rest(r)
    <3>1. PICK n \in 1..m : w = Word(ls[n])
      BY <1>2 DEF Rest
    <3>2. CASE n = 1
      BY <1>2, <3>1, <3>2
    <3>3. CASE n - 1 \in 1..m-1 /\ r[n - 1] = ls[n]
      BY <1>2, <3>1, <3>3 DEF Rest
    <3> QED
      BY <2>1, <3>2, <3>3
  <2>5. ASSUME NEW w \in Rest(r) PROVE w \in Rest(ls)
    <3>1. PICK n \in 1..m-1 : w = Word(r[n])
      BY <1>2 DEF Rest
    <3> QED
      BY <1>2, <2>2, <3>1 DEF Rest
  <2>6. Word(l) \in Rest(ls)
    BY <1>2, <2>3 DEF Rest
  <2> QED
    BY <2>4, <2>5, <2>6
<1>12. Follow(u, r)
  BY <1>6, <1>7, <1>8, <1>9, <1>10 DEF Follow
<1> QED
  BY <1>2, <1>3, <1>5, <1>11, <1>12 DEF u, l, r

LEMMA PrefixElements ==
  ASSUME NEW s \in Seq(Nat), NEW n \in 0..Len(s)
  PROVE  /\ SubSeq(s, 1, n) \in Seq(Nat) /\ Len(SubSeq(s, 1, n)) = n
         /\ \A k \in 1..n : SubSeq(s, 1, n)[k] = s[k]
<1>1. /\ n \in Nat /\ n <= Len(s) /\ \A k \in 1..n : s[k] \in Nat
  OBVIOUS
<1> QED
  BY <1>1

LEMMA OverlaysAreTexts ==
  ASSUME NEW t \in Seq(Nat), NEW n \in Nat, NEW s \in Seq(Nat)
  PROVE  Overlay(t, n, s) \in Seq(Nat)
<1>1. PICK a \in Nat, b \in Nat : a = Len(t) /\ b = Len(s)
  OBVIOUS
<1>2. /\ \A k \in 1..a : t[k] \in Nat
      /\ \A k \in 1..b : s[k] \in Nat
  BY <1>1
<1> DEFINE N == IF a > n + b THEN a ELSE n + b
<1>3. N \in Nat
  BY <1>1
<1>4. Overlay(t, n, s) = [k \in 1..N |->
        IF k \in n+1..n+b THEN s[k - n] ELSE IF k <= a THEN t[k] ELSE Hole]
  BY <1>1 DEF Overlay
<1> HIDE DEF N
<1>5. ASSUME NEW k \in 1..N
      PROVE  (IF k \in n+1..n+b THEN s[k - n] ELSE IF k <= a THEN t[k] ELSE Hole) \in Nat
  <2>1. CASE k \in n+1..n+b
    <3>1. k - n \in 1..b
      BY <1>1, <2>1
    <3> QED
      BY <1>2, <2>1, <3>1
  <2>2. CASE k \notin n+1..n+b /\ k <= a
    BY <1>1, <1>2, <1>3, <2>2
  <2>3. CASE k \notin n+1..n+b /\ ~(k <= a)
    BY <2>3 DEF Hole
  <2> QED
    BY <2>1, <2>2, <2>3
<1> QED
  BY <1>3, <1>4, <1>5

\* What leaves the buffer continues what has left it.
LEMMA FlushContinues ==
  ASSUME NEW o \in Seq(Nat), NEW f \in 0..Len(o), NEW n \in f+1..Len(o)
  PROVE  Overlay(SubSeq(o, 1, f), f, SubSeq(o, f + 1, n)) = SubSeq(o, 1, n)
<1> DEFINE a == SubSeq(o, 1, f)
           b == SubSeq(o, f + 1, n)
           c == SubSeq(o, 1, n)
           u == Overlay(a, f, b)
<1>1. /\ f \in Nat /\ n \in Nat /\ f + 1 \in Nat /\ 1 <= f + 1 /\ f + 1 <= n /\ n <= Len(o)
      /\ n \in 0..Len(o) /\ f < n
  OBVIOUS
<1>2. /\ a \in Seq(Nat) /\ Len(a) = f /\ \A k \in 1..f : a[k] = o[k]
      /\ c \in Seq(Nat) /\ Len(c) = n /\ \A k \in 1..n : c[k] = o[k]
  BY <1>1, PrefixElements
<1>3. /\ b \in Seq(Nat) /\ Len(b) = n - (f + 1) + 1
      /\ \A k \in 1..n-(f+1)+1 : b[k] = o[f + 1 + k - 1]
  BY <1>1, PartElements
<1> HIDE DEF a, b, c
<1>4. Len(b) = n - f /\ \A k \in 1..n-f : b[k] = o[f + k]
  <2>1. n - (f + 1) + 1 = n - f /\ \A k \in 1..n-f : f + 1 + k - 1 = f + k
    BY <1>1
  <2> QED
    BY <1>3, <2>1
<1>5. u \in Seq(Nat)
  BY <1>1, <1>2, <1>3, OverlaysAreTexts
<1>6. u = [k \in 1..n |-> IF k \in f+1..n THEN b[k - f] ELSE IF k <= f THEN a[k] ELSE Hole]
  <2>1. f + Len(b) = n /\ ~(f > n)
    BY <1>1, <1>4
  <2> QED
    BY <1>2, <2>1 DEF Overlay
<1> HIDE DEF u
<1>7. Len(u) = n
  BY <1>1, <1>5, <1>6
<1>8. ASSUME NEW k \in 1..n PROVE u[k] = o[k]
  <2>1. CASE k \in f+1..n
    <3>1. k - f \in 1..n-f /\ f + (k - f) = k
      BY <1>1, <2>1
    <3> QED
      BY <1>4, <1>6, <2>1, <3>1
  <2>2. CASE k \notin f+1..n
    <3>1. k \in 1..f /\ k <= f
      BY <1>1, <2>2
    <3> QED
      BY <1>2, <1>6, <2>2, <3>1
  <2> QED
    BY <2>1, <2>2
<1>9. u = c
  BY <1>2, <1>5, <1>7, <1>8, SameElements
<1> QED
  BY <1>9 DEF u, a, b, c

-----------------------------------------------------------------------------
\* While sort_words writes, what it has written, what is in the buffer and the
\* lines left make up the list; once somebody has replaced or rewritten the file,
\* the file does again.
WordsAreSafe ==
  /\ stage # "writing" => WordsOf(file) = wanted /\ (neat => Ascending(file))
  /\ stage = "read" => Rest(lines) = wanted /\ InSequence(lines)
  /\ stage = "writing" /\ neat =>
       /\ held /\ file = SubSeq(out, 1, flushed)
       /\ WordsOf(out) \cup Rest(lines) = wanted
       /\ Follow(out, lines)
  /\ stage = "writing" /\ ~neat => ~Partial /\ WordsOf(file) = wanted
  /\ shown = "whole" => WordsOf(opened) = wanted

WordsTypes ==
  /\ file \in Seq(Nat) /\ out \in Seq(Nat) /\ opened \in Seq(Nat)
  /\ stage \in {"idle", "read", "writing"}
  /\ lines \in Seq(LineType)
  /\ flushed \in 0..Len(out)
  /\ shown \in {"none", "whole", "part"}
  /\ edits \in 0..MaxEdits /\ kills \in 0..MaxKills

Flags ==
  /\ held \in BOOLEAN /\ (held => stage = "writing")
  /\ spoilt \in BOOLEAN /\ neat \in BOOLEAN

WordsInv == WordsTypes /\ Flags /\ (~spoilt => WordsAreSafe)

LEMMA WordsInvTypes == WordsInv => WordsTypeOK
<1> SUFFICES ASSUME WordsInv PROVE WordsTypeOK
  OBVIOUS
<1>1. /\ held \in BOOLEAN /\ (held => stage = "writing")
      /\ spoilt \in BOOLEAN /\ neat \in BOOLEAN
  BY DEF WordsInv, Flags
<1>2. \A n \in DOMAIN lines : lines[n] \in LineType
  BY DEF WordsInv, WordsTypes
<1> QED
  BY <1>1, <1>2 DEF WordsInv, WordsTypes, WordsTypeOK

\* What has been written is the file once the buffer is empty.
LEMMA FileIsWritten ==
  ASSUME WordsTypes, ~spoilt, WordsAreSafe, stage = "writing", neat, lines = <<>>
  PROVE  /\ WordsOf(out) = wanted /\ Ascending(out)
         /\ OnDisk(Len(out)) = out
         /\ flushed = Len(out) => file = out
<1>1. /\ out \in Seq(Nat) /\ flushed \in 0..Len(out) /\ held
      /\ file = SubSeq(out, 1, flushed) /\ Len(out) \in 0..Len(out)
  BY DEF WordsTypes, WordsAreSafe
<1>2. Rest(lines) = {}
  BY DEF Rest
<1>3. WordsOf(out) = wanted /\ Ascending(out)
  BY <1>2 DEF WordsAreSafe, Follow
<1>4. SubSeq(out, 1, Len(out)) = out
  <2>1. /\ SubSeq(out, 1, Len(out)) \in Seq(Nat) /\ Len(SubSeq(out, 1, Len(out))) = Len(out)
        /\ \A k \in 1..Len(out) : SubSeq(out, 1, Len(out))[k] = out[k]
    BY <1>1, PrefixElements
  <2> QED
    BY <1>1, <2>1, SameElements
<1>5. OnDisk(Len(out)) = out
  <2>1. CASE flushed = Len(out)
    BY <1>1, <1>4, <2>1 DEF OnDisk
  <2>2. CASE flushed # Len(out)
    <3>1. Len(out) \in flushed+1..Len(out) /\ Len(out) > flushed
      BY <1>1, <2>2
    <3>2. Overlay(file, flushed, SubSeq(out, flushed + 1, Len(out))) = SubSeq(out, 1, Len(out))
      BY <1>1, <3>1, FlushContinues
    <3> QED
      BY <1>1, <1>4, <3>1, <3>2 DEF OnDisk
  <2> QED
    BY <2>1, <2>2
<1> QED
  BY <1>1, <1>3, <1>4, <1>5

\* A file of which nothing is in the buffer has every word.
LEMMA FileIsWhole ==
  ASSUME WordsTypes, ~spoilt, WordsAreSafe, ~Partial
  PROVE  WordsOf(file) = wanted /\ (neat => Ascending(file))
<1>1. CASE stage # "writing"
  BY <1>1 DEF WordsAreSafe
<1>2. CASE stage = "writing" /\ ~neat
  BY <1>2 DEF WordsAreSafe
<1>3. CASE stage = "writing" /\ neat
  <2>1. held
    BY <1>3 DEF WordsAreSafe
  <2>2. flushed \in Nat /\ Len(out) \in Nat /\ flushed <= Len(out)
    BY DEF WordsTypes
  <2>3. lines = <<>> /\ ~(flushed < Len(out))
    BY <2>1 DEF Partial
  <2>4. flushed = Len(out)
    BY <2>2, <2>3
  <2> QED
    BY <1>3, <2>3, <2>4, FileIsWritten
<1> QED
  BY <1>1, <1>2, <1>3

\* Whatever leaves the buffer, the file is a text.
LEMMA FileIsText ==
  ASSUME WordsTypes, NEW n \in 0..Len(out)
  PROVE  OnDisk(n) \in Seq(Nat)
<1>1. /\ file \in Seq(Nat) /\ out \in Seq(Nat) /\ flushed \in Nat /\ n \in Nat /\ n <= Len(out)
  BY DEF WordsTypes
<1>2. CASE held /\ n > flushed
  <2>1. 1 <= flushed + 1 /\ flushed + 1 <= n /\ flushed + 1 \in Nat
    BY <1>1, <1>2
  <2>2. SubSeq(out, flushed + 1, n) \in Seq(Nat)
    BY <1>1, <2>1, PartElements
  <2> QED
    BY <1>1, <1>2, <2>2, OverlaysAreTexts DEF OnDisk
<1>3. CASE ~(held /\ n > flushed)
  <2>1. OnDisk(n) = file
    BY <1>3 DEF OnDisk
  <2> QED
    BY <1>1, <2>1
<1> QED
  BY <1>2, <1>3

LEMMA WordsInvInit == WordsInit => WordsInv
<1> SUFFICES ASSUME WordsInit PROVE WordsInv
  OBVIOUS
<1>1. /\ file = <<>> /\ stage = "idle" /\ lines = <<>> /\ out = <<>> /\ flushed = 0
      /\ opened = <<>> /\ shown = "none" /\ edits = 0 /\ wanted = {} /\ kills = 0
  BY DEF WordsInit
<1>2. Flags /\ ~neat
  BY Zenon DEF WordsInit, Flags
<1>3. WordsTypes
  BY <1>1, WordAssumption DEF WordsTypes
<1>4. WordsAreSafe
  BY <1>1, NoLines, Zenon DEF WordsAreSafe
<1> QED
  BY <1>2, <1>3, <1>4 DEF WordsInv

\* The flags stay what they are.
LEMMA FlagsNext == WordsInv /\ WordsNext => Flags'
<1> SUFFICES ASSUME Flags, WordsNext PROVE Flags'
  BY DEF WordsInv
<1>1. CASE Read
  BY <1>1, Zenon DEF Read, Flags
<1>2. CASE Truncate
  BY <1>2, Zenon DEF Truncate, Flags
<1>3. CASE Write
  BY <1>3, Zenon DEF Write, Flags
<1>4. CASE Close
  BY <1>4, Zenon DEF Close, Leaves, Flags
<1>5. CASE Interrupt
  BY <1>5, Zenon DEF Interrupt, Leaves, Flags
<1>6. CASE Kill
  BY <1>6, Zenon DEF Kill, Leaves, Flags
<1>7. ASSUME NEW n \in 1..Len(out), Flush(n) PROVE Flags'
  BY <1>7, Zenon DEF Flush, Flags
<1>8. CASE Open
  BY <1>8, Zenon DEF Open, sorter, Flags
<1>9. ASSUME NEW w \in Words, NEW ended \in BOOLEAN, NEW replaces \in BOOLEAN,
             Save(w, ended, replaces)
      PROVE  Flags'
  BY <1>9, Zenon DEF Save, Flags
<1> QED
  BY <1>1, <1>2, <1>3, <1>4, <1>5, <1>6, <1>7, <1>8, <1>9 DEF WordsNext

LEMMA ReadKeeps == WordsInv /\ Read => WordsTypes' /\ (~spoilt' => WordsAreSafe')
<1> SUFFICES ASSUME WordsInv, Read PROVE WordsTypes' /\ (~spoilt' => WordsAreSafe')
  OBVIOUS
<1>1. /\ stage = "idle" /\ stage' = "read" /\ lines' = Sorted(LinesOf(file))
      /\ file' = file /\ out' = out /\ flushed' = flushed /\ opened' = opened
      /\ shown' = shown /\ edits' = edits /\ kills' = kills /\ wanted' = wanted
  BY DEF Read, editor
<1>2. (neat' <=> neat) /\ (spoilt' <=> spoilt)
  BY Zenon DEF Read
<1>3. WordsTypes /\ (~spoilt => WordsAreSafe) /\ file \in Seq(Nat)
  BY DEF WordsInv, WordsTypes
<1>4. LinesOf(file) \subseteq LineType /\ IsFiniteSet(LinesOf(file))
  BY <1>3, LinesAreLines
<1>5. /\ lines' \in Seq(LineType) /\ ToSet(lines') = LinesOf(file)
      /\ \A i, j \in DOMAIN lines' : i < j => Smaller(lines'[i], lines'[j])
  BY <1>1, <1>4, SortedLists
<1>6. InSequence(lines') /\ Rest(lines') = WordsOf(file)
  BY <1>5 DEF InSequence, Rest, WordsOf, ToSet
<1>7. WordsTypes'
  BY <1>1, <1>3, <1>5 DEF WordsTypes
<1>8. ASSUME ~spoilt PROVE WordsAreSafe'
  <2>1. WordsOf(file) = wanted /\ (neat => Ascending(file))
        /\ (shown = "whole" => WordsOf(opened) = wanted)
    BY <1>1, <1>3, <1>8 DEF WordsAreSafe
  <2> QED
    BY <1>1, <1>2, <1>6, <2>1, Zenon DEF WordsAreSafe
<1> QED
  BY <1>2, <1>7, <1>8

LEMMA TruncateKeeps == WordsInv /\ Truncate => WordsTypes' /\ (~spoilt' => WordsAreSafe')
<1> SUFFICES ASSUME WordsInv, Truncate PROVE WordsTypes' /\ (~spoilt' => WordsAreSafe')
  OBVIOUS
<1>1. /\ stage = "read" /\ stage' = "writing" /\ file' = <<>> /\ out' = <<>> /\ flushed' = 0
      /\ lines' = lines /\ opened' = opened
      /\ shown' = shown /\ edits' = edits /\ kills' = kills /\ wanted' = wanted
  BY DEF Truncate, editor
<1>2. neat' /\ held' /\ (spoilt' <=> spoilt \/ Fuse(lines))
  BY Zenon DEF Truncate
<1>3. WordsTypes /\ (~spoilt => WordsAreSafe) /\ lines \in Seq(LineType)
  BY DEF WordsInv, WordsTypes
<1>4. WordsTypes'
  BY <1>1, <1>3 DEF WordsTypes
<1>5. ASSUME ~spoilt, ~Fuse(lines) PROVE WordsAreSafe'
  <2>1. /\ Rest(lines) = wanted /\ InSequence(lines)
        /\ (shown = "whole" => WordsOf(opened) = wanted)
    BY <1>1, <1>3, <1>5 DEF WordsAreSafe
  <2>2. Follow(<<>>, lines)
    BY <1>5, <2>1, NoLines, Zenon DEF Follow, Fuse, IsClosed
  <2>3. WordsOf(<<>>) \cup Rest(lines) = wanted
    BY <2>1, NoLines
  <2>4. SubSeq(<<>>, 1, 0) = <<>>
    OBVIOUS
  <2>5. /\ file' = SubSeq(out', 1, flushed')
        /\ WordsOf(out') \cup Rest(lines') = wanted' /\ Follow(out', lines')
    BY <1>1, <2>2, <2>3, <2>4, Zenon
  <2>6. stage' # "read"
    BY <1>1
  <2> QED
    BY <1>1, <1>2, <2>1, <2>5, <2>6, Zenon DEF WordsAreSafe
<1> QED
  BY <1>2, <1>4, <1>5

LEMMA WriteKeeps == WordsInv /\ Write => WordsTypes' /\ (~spoilt' => WordsAreSafe')
<1> SUFFICES ASSUME WordsInv, Write PROVE WordsTypes' /\ (~spoilt' => WordsAreSafe')
  OBVIOUS
<1>1. /\ stage = "writing" /\ stage' = stage /\ lines # <<>>
      /\ out' = out \o Head(lines) /\ lines' = Tail(lines)
      /\ file' = file /\ flushed' = flushed /\ opened' = opened
      /\ shown' = shown /\ edits' = edits /\ kills' = kills /\ wanted' = wanted
  BY DEF Write, editor
<1>2. (neat' <=> neat) /\ (spoilt' <=> spoilt) /\ (held' <=> held)
  BY Zenon DEF Write
<1>3. /\ WordsTypes /\ (~spoilt => WordsAreSafe) /\ lines \in Seq(LineType) /\ out \in Seq(Nat)
      /\ flushed \in 0..Len(out)
  BY DEF WordsInv, WordsTypes
<1>4. Head(lines) \in LineType /\ Tail(lines) \in Seq(LineType)
  BY <1>1, <1>3
<1>5. Head(lines) \in Seq(Nat)
  BY <1>4 DEF LineType
<1>6. /\ out' \in Seq(Nat) /\ flushed \in 0..Len(out')
      /\ Len(out) <= Len(out') /\ \A k \in 1..flushed : out'[k] = out[k]
  BY <1>1, <1>3, <1>5
<1>7. WordsTypes'
  BY <1>1, <1>3, <1>4, <1>6 DEF WordsTypes
<1>8. ASSUME ~spoilt PROVE WordsAreSafe'
  <2>1. shown = "whole" => WordsOf(opened) = wanted
    BY <1>3, <1>8 DEF WordsAreSafe
  <2>2. CASE neat
    <3>1. /\ held /\ file = SubSeq(out, 1, flushed)
          /\ WordsOf(out) \cup Rest(lines) = wanted
          /\ Follow(out, lines)
      BY <1>1, <1>3, <1>8, <2>2 DEF WordsAreSafe
    <3>2. /\ Follow(out', lines')
          /\ WordsOf(out') \cup Rest(lines') = WordsOf(out) \cup Rest(lines)
      BY <1>1, <1>3, <3>1, LineMoves
    <3>3. SubSeq(out', 1, flushed) = SubSeq(out, 1, flushed)
      <4>1. /\ SubSeq(out, 1, flushed) \in Seq(Nat) /\ Len(SubSeq(out, 1, flushed)) = flushed
            /\ \A k \in 1..flushed : SubSeq(out, 1, flushed)[k] = out[k]
        BY <1>3, PrefixElements
      <4>2. /\ SubSeq(out', 1, flushed) \in Seq(Nat) /\ Len(SubSeq(out', 1, flushed)) = flushed
            /\ \A k \in 1..flushed : SubSeq(out', 1, flushed)[k] = out'[k]
        BY <1>6, PrefixElements
      <4>3. \A k \in 1..flushed : SubSeq(out', 1, flushed)[k] = SubSeq(out, 1, flushed)[k]
        BY <1>6, <4>1, <4>2
      <4> QED
        BY <4>1, <4>2, <4>3, SameElements
    <3>4. WordsOf(out') \cup Rest(lines') = wanted' /\ file' = SubSeq(out', 1, flushed')
      BY <1>1, <3>1, <3>2, <3>3, Zenon
    <3>5. stage' = "writing" /\ stage' # "read"
      BY <1>1
    <3> QED
      BY <1>1, <1>2, <2>1, <2>2, <3>1, <3>2, <3>4, <3>5, Zenon DEF WordsAreSafe
  <2>3. CASE ~neat
    <3>1. ~Partial /\ WordsOf(file) = wanted
      BY <1>1, <1>3, <1>8, <2>3 DEF WordsAreSafe
    <3>2. ~held
      BY <1>1, <3>1, Zenon DEF Partial
    <3>3. ~Partial'
      BY <1>2, <3>2, Zenon DEF Partial
    <3>5. stage' = "writing" /\ stage' # "read"
      BY <1>1
    <3> QED
      BY <1>1, <1>2, <2>1, <2>3, <3>1, <3>3, <3>5, Zenon DEF WordsAreSafe
  <2> QED
    BY <2>2, <2>3
<1> QED
  BY <1>2, <1>7, <1>8

LEMMA FlushKeeps ==
  ASSUME WordsInv, NEW n \in 1..Len(out), Flush(n)
  PROVE  WordsTypes' /\ (~spoilt' => WordsAreSafe')
<1>1. /\ stage = "writing" /\ stage' = stage /\ n \in flushed+1..Len(out)
      /\ file' = OnDisk(n) /\ flushed' = n
      /\ out' = out /\ lines' = lines /\ opened' = opened
      /\ shown' = shown /\ edits' = edits /\ kills' = kills /\ wanted' = wanted
  BY DEF Flush, editor
<1>2. (neat' <=> neat) /\ (spoilt' <=> spoilt) /\ (held' <=> held)
  BY Zenon DEF Flush
<1>3. /\ WordsTypes /\ (~spoilt => WordsAreSafe) /\ lines \in Seq(LineType) /\ out \in Seq(Nat)
      /\ flushed \in 0..Len(out) /\ n \in 0..Len(out) /\ n > flushed /\ flushed < Len(out)
  BY <1>1 DEF WordsInv, WordsTypes
<1>4. file' \in Seq(Nat)
  BY <1>1, <1>3, FileIsText
<1>5. WordsTypes'
  BY <1>1, <1>3, <1>4 DEF WordsTypes
<1>6. ASSUME ~spoilt PROVE WordsAreSafe'
  <2>1. shown = "whole" => WordsOf(opened) = wanted
    BY <1>3, <1>6 DEF WordsAreSafe
  <2>2. stage' = "writing" /\ stage' # "read"
    BY <1>1
  <2>3. CASE neat
    <3>1. /\ held /\ file = SubSeq(out, 1, flushed)
          /\ WordsOf(out) \cup Rest(lines) = wanted
          /\ Follow(out, lines)
      BY <1>1, <1>3, <1>6, <2>3 DEF WordsAreSafe
    <3>2. OnDisk(n) = Overlay(file, flushed, SubSeq(out, flushed + 1, n))
      BY <1>3, <3>1 DEF OnDisk
    <3>3. file' = SubSeq(out', 1, flushed')
      BY <1>1, <1>3, <3>1, <3>2, FlushContinues
    <3>4. WordsOf(out') \cup Rest(lines') = wanted' /\ Follow(out', lines')
      BY <1>1, <3>1, Zenon
    <3> QED
      BY <1>1, <1>2, <2>1, <2>2, <2>3, <3>1, <3>3, <3>4, Zenon DEF WordsAreSafe
  <2>4. CASE ~neat
    <3>1. ~Partial /\ WordsOf(file) = wanted
      BY <1>1, <1>3, <1>6, <2>4 DEF WordsAreSafe
    <3>2. ~held
      BY <1>3, <3>1 DEF Partial
    <3>3. ~Partial' /\ file' = file
      <4>1. ~held'
        BY <1>2, <3>2, Zenon
      <4> QED
        BY <1>1, <3>2, <4>1 DEF Partial, OnDisk
    <3> QED
      BY <1>1, <1>2, <2>1, <2>2, <2>4, <3>1, <3>3, Zenon DEF WordsAreSafe
  <2> QED
    BY <2>3, <2>4
<1> QED
  BY <1>2, <1>5, <1>6

\* What is left when sort_words ends: the file, and the editor's text.
LEMMA EndKeeps ==
  ASSUME WordsInv, Leaves, file' \in Seq(Nat), opened' = opened, shown' = shown,
         edits' = edits, kills' \in 0..MaxKills, wanted' = wanted, neat' <=> neat,
         ~spoilt' => ~spoilt /\ WordsOf(file') = wanted /\ (neat => Ascending(file'))
  PROVE  WordsTypes' /\ (~spoilt' => WordsAreSafe')
<1>1. /\ stage' = "idle" /\ lines' = <<>> /\ out' = <<>> /\ flushed' = 0
      /\ stage' # "writing" /\ stage' # "read"
  BY DEF Leaves
<1>2. WordsTypes'
  BY <1>1 DEF WordsInv, WordsTypes
<1>3. ASSUME ~spoilt' PROVE WordsAreSafe'
  <2>1. shown = "whole" => WordsOf(opened) = wanted
    BY <1>3 DEF WordsInv, WordsAreSafe
  <2>2. WordsOf(file') = wanted' /\ (neat' => Ascending(file'))
    BY <1>3
  <2> QED
    BY <1>1, <2>1, <2>2, Zenon DEF WordsAreSafe
<1> QED
  BY <1>2, <1>3

\* An exception closes the file as the end of the with statement does.
LEMMA ClosedFile ==
  ASSUME WordsInv, ~spoilt, stage # "idle", ~(held /\ lines # <<>>)
  PROVE  WordsOf(OnDisk(Len(out))) = wanted /\ (neat => Ascending(OnDisk(Len(out))))
<1>1. WordsTypes /\ WordsAreSafe /\ Flags
  BY DEF WordsInv
<1>2. CASE ~held
  <2>1. OnDisk(Len(out)) = file /\ ~Partial
    BY <1>2, Zenon DEF OnDisk, Partial
  <2> QED
    BY <1>1, <2>1, FileIsWhole
<1>3. CASE held
  <2>1. stage = "writing" /\ lines = <<>>
    BY <1>1, <1>3, Zenon DEF Flags
  <2>2. CASE neat
    <3>1. WordsOf(out) = wanted /\ Ascending(out) /\ OnDisk(Len(out)) = out
      BY <1>1, <2>1, <2>2, FileIsWritten
    <3> QED
      BY <3>1
  <2>3. CASE ~neat
    <3>1. ~Partial /\ WordsOf(file) = wanted
      BY <1>1, <2>1, <2>3 DEF WordsAreSafe
    <3>2. flushed \in Nat /\ Len(out) \in Nat /\ flushed <= Len(out)
      BY <1>1 DEF WordsTypes
    <3>3. ~(flushed < Len(out))
      BY <1>3, <3>1, Zenon DEF Partial
    <3>4. ~(Len(out) > flushed)
      BY <3>2, <3>3
    <3>5. OnDisk(Len(out)) = file
      BY <3>4 DEF OnDisk
    <3> QED
      BY <2>3, <3>1, <3>5
  <2> QED
    BY <2>2, <2>3
<1> QED
  BY <1>2, <1>3

LEMMA EndsKeep ==
  ASSUME WordsInv, Close \/ Interrupt \/ Kill
  PROVE  WordsTypes' /\ (~spoilt' => WordsAreSafe')
<1>1. /\ WordsTypes /\ file \in Seq(Nat) /\ out \in Seq(Nat) /\ kills \in 0..MaxKills
      /\ Len(out) \in 0..Len(out) /\ MaxKills \in Nat
  BY WordAssumption DEF WordsInv, WordsTypes
<1>2. OnDisk(Len(out)) \in Seq(Nat)
  BY <1>1, FileIsText
<1>3. CASE Close
  <2>1. /\ stage = "writing" /\ stage # "idle" /\ lines = <<>> /\ file' = OnDisk(Len(out)) /\ Leaves
        /\ opened' = opened /\ shown' = shown /\ edits' = edits /\ kills' = kills
        /\ wanted' = wanted
    BY <1>3 DEF Close, editor
  <2>2. (neat' <=> neat) /\ (spoilt' <=> spoilt)
    BY <1>3, Zenon DEF Close
  <2>3. ~spoilt => WordsOf(file') = wanted /\ (neat => Ascending(file'))
    BY <2>1, ClosedFile
  <2> QED
    BY <1>1, <1>2, <2>1, <2>2, <2>3, EndKeeps
<1>4. CASE Interrupt
  <2>1. /\ stage # "idle" /\ kills < MaxKills /\ kills' = kills + 1
        /\ file' = OnDisk(Len(out)) /\ Leaves
        /\ opened' = opened /\ shown' = shown /\ edits' = edits /\ wanted' = wanted
    BY <1>4 DEF Interrupt, editor
  <2>2. (neat' <=> neat) /\ (spoilt' <=> spoilt \/ (held /\ lines # <<>>))
    BY <1>4, Zenon DEF Interrupt
  <2>3. ~spoilt' => ~spoilt /\ WordsOf(file') = wanted /\ (neat => Ascending(file'))
    BY <2>1, <2>2, ClosedFile
  <2>4. kills' \in 0..MaxKills
    BY <1>1, <2>1
  <2> QED
    BY <1>2, <2>1, <2>2, <2>3, <2>4, EndKeeps
<1>5. CASE Kill
  <2>1. /\ stage # "idle" /\ kills < MaxKills /\ kills' = kills + 1
        /\ file' = file /\ Leaves
        /\ opened' = opened /\ shown' = shown /\ edits' = edits /\ wanted' = wanted
    BY <1>5 DEF Kill, editor
  <2>2. (neat' <=> neat) /\ (spoilt' <=> spoilt \/ Partial)
    BY <1>5, Zenon DEF Kill
  <2>3. ~spoilt' => ~spoilt /\ WordsOf(file') = wanted /\ (neat => Ascending(file'))
    BY <2>1, <2>2, FileIsWhole DEF WordsInv
  <2>4. kills' \in 0..MaxKills
    BY <1>1, <2>1
  <2> QED
    BY <1>1, <2>1, <2>2, <2>3, <2>4, EndKeeps
<1> QED
  BY <1>3, <1>4, <1>5

LEMMA OpenKeeps == WordsInv /\ Open => WordsTypes' /\ (~spoilt' => WordsAreSafe')
<1> SUFFICES ASSUME WordsInv, Open PROVE WordsTypes' /\ (~spoilt' => WordsAreSafe')
  OBVIOUS
<1>1. /\ opened' = file /\ shown' = IF Partial THEN "part" ELSE "whole"
      /\ file' = file /\ stage' = stage /\ lines' = lines /\ out' = out /\ flushed' = flushed
      /\ edits' = edits /\ kills' = kills /\ wanted' = wanted
  BY DEF Open, sorter
<1>2. (neat' <=> neat) /\ (spoilt' <=> spoilt) /\ (held' <=> held)
  BY Zenon DEF Open, sorter
<1>3. WordsTypes /\ (~spoilt => WordsAreSafe)
  BY DEF WordsInv
<1>4. shown' \in {"none", "whole", "part"} /\ (shown' = "whole" => ~Partial)
  BY <1>1
<1>5. WordsTypes'
  BY <1>1, <1>3, <1>4 DEF WordsTypes
<1>6. ASSUME ~spoilt PROVE WordsAreSafe'
  <2>1. shown' = "whole" => WordsOf(opened') = wanted'
    BY <1>1, <1>3, <1>4, <1>6, FileIsWhole
  <2>2. Partial' <=> Partial
    BY <1>1, <1>2, Zenon DEF Partial
  <2> QED
    BY <1>1, <1>2, <1>3, <1>6, <2>1, <2>2, Zenon DEF WordsAreSafe
<1> QED
  BY <1>2, <1>5, <1>6

LEMMA SaveKeeps ==
  ASSUME WordsInv, NEW w \in Words, NEW ended \in BOOLEAN, NEW replaces \in BOOLEAN,
         Save(w, ended, replaces)
  PROVE  WordsTypes' /\ (~spoilt' => WordsAreSafe')
<1> DEFINE l == IF ended THEN Append(w, Newline) ELSE w
<1>1. /\ file' = Ended(opened) \o l /\ opened' = <<>> /\ shown' = "none"
      /\ edits < MaxEdits /\ edits' = edits + 1 /\ wanted' = wanted \cup {w}
      /\ stage' = stage /\ lines' = lines /\ out' = out /\ flushed' = flushed /\ kills' = kills
      /\ shown # "none"
  BY DEF Save
<1>2. /\ ~neat' /\ (held' <=> held /\ ~replaces)
      /\ spoilt' <=> (spoilt \/ shown = "part" \/ stage = "read" \/ (Partial /\ ~replaces))
  BY Zenon DEF Save
<1>3. /\ WordsTypes /\ Flags /\ (~spoilt => WordsAreSafe) /\ opened \in Seq(Nat)
      /\ edits \in 0..MaxEdits /\ MaxEdits \in Nat
      /\ shown \in {"none", "whole", "part"}
  BY WordAssumption DEF WordsInv, WordsTypes
<1>4. l \in LineType /\ Word(l) = w
  BY WordAssumption, WordsAreWords
<1> HIDE DEF l
<1>5. /\ Ended(opened) \in Seq(Nat) /\ IsClosed(Ended(opened))
      /\ WordsOf(Ended(opened)) = WordsOf(opened)
  BY <1>3, WordsEnded
<1>6. WordsOf(file') = WordsOf(opened) \cup {w}
  BY <1>1, <1>4, <1>5, WordsAppend
<1>7. file' \in Seq(Nat) /\ edits' \in 0..MaxEdits
  <2>1. l \in Seq(Nat)
    BY <1>4 DEF LineType
  <2> QED
    BY <1>1, <1>3, <1>5, <2>1
<1>8. WordsTypes'
  BY <1>1, <1>3, <1>7 DEF WordsTypes
<1>9. ASSUME ~spoilt' PROVE WordsAreSafe'
  <2>1. ~spoilt /\ shown = "whole" /\ stage # "read" /\ ~(Partial /\ ~replaces)
    BY <1>1, <1>2, <1>3, <1>9
  <2>2. WordsOf(file') = wanted'
    BY <1>1, <1>3, <1>6, <2>1 DEF WordsAreSafe
  <2>3. ~Partial'
    BY <1>1, <1>2, <2>1, Zenon DEF Partial
  <2>4. stage' # "read" /\ shown' # "whole"
    BY <1>1, <2>1
  <2> QED
    BY <1>2, <2>2, <2>3, <2>4, Zenon DEF WordsAreSafe
<1> QED
  BY <1>8, <1>9

LEMMA WordsInvNext == WordsInv /\ [WordsNext]_wordsVars => WordsInv'
<1> SUFFICES ASSUME WordsInv, [WordsNext]_wordsVars PROVE WordsInv'
  OBVIOUS
<1>1. CASE WordsNext
  <2>1. WordsTypes' /\ (~spoilt' => WordsAreSafe')
    BY <1>1, ReadKeeps, TruncateKeeps, WriteKeeps, FlushKeeps, EndsKeep, OpenKeeps, SaveKeeps
       DEF WordsNext
  <2>2. Flags'
    BY <1>1, FlagsNext
  <2> QED
    BY <2>1, <2>2, Zenon DEF WordsInv
<1>2. CASE UNCHANGED wordsVars
  <2>1. /\ file' = file /\ stage' = stage /\ lines' = lines /\ out' = out /\ flushed' = flushed
        /\ opened' = opened /\ shown' = shown /\ edits' = edits /\ kills' = kills
        /\ wanted' = wanted /\ held' = held /\ spoilt' = spoilt /\ neat' = neat
    BY <1>2 DEF wordsVars, sorter, editor
  <2>2. WordsTypes' /\ Flags'
    BY <2>1, Zenon DEF WordsInv, WordsTypes, Flags
  <2>3. ~spoilt => WordsAreSafe'
    BY <2>1, Zenon DEF WordsInv, WordsAreSafe, Partial
  <2> QED
    BY <2>1, <2>2, <2>3, Zenon DEF WordsInv
<1> QED
  BY <1>1, <1>2

\* The type invariant of the word list: what sort_words has still to write are
\* lines, none of them empty, and no more has left the buffer than was written.
THEOREM WordsTypeCorrect == WordsSpec => []WordsTypeOK
<1>1. WordsInit => WordsInv
  BY WordsInvInit
<1>2. WordsInv /\ [WordsNext]_wordsVars => WordsInv'
  BY WordsInvNext
<1> QED
  BY <1>1, <1>2, WordsInvTypes, PTL DEF WordsSpec

\* For any words and however often sort-words runs and is interrupted, with people
\* editing the list at any time: no word is lost or invented but in the ways
\* `spoilt` names, and what an undisturbed sort leaves is in order, each line once.
THEOREM NoWordIsLost == WordsSpec => []WordsSurvive
<1>1. WordsInv => WordsSurvive
  BY FileIsWhole DEF WordsInv, WordsSurvive
<1>2. WordsInit => WordsInv
  BY WordsInvInit
<1>3. WordsInv /\ [WordsNext]_wordsVars => WordsInv'
  BY WordsInvNext
<1> QED
  BY <1>1, <1>2, <1>3, PTL DEF WordsSpec
=============================================================================
