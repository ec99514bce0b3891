----------------------------- MODULE MCCommands -----------------------------
(* The commands of scripts/oneapi.py, for TLC: in a behaviour either a       *)
(* command walks a small tree (two elements, the first of which has elements *)
(* itself), or people and sort-words change a word list, among whose words   *)
(* is one that begins another.                                               *)
EXTENDS OneapiDriver, WordList

CONSTANTS dal, dnn

MCdirs      == <<dal, dnn>>
MCRoots     == {<<>>, <<dal>>, <<dnn>>, <<dal, dal>>, <<dal, dnn>>}
MCNested    == {<<>>, <<dal>>}
MCDoxyfiles == {<<>>, <<dal>>, <<dal, dnn>>}
MCStart     == {<<>>, <<dal>>, <<dnn>>}

MCWords == {<<2>>, <<2, 2>>, <<3>>}

CommandsInit ==
  /\ Init
  /\ WordsInit

CommandsNext ==
  \/ Next /\ edits = 0 /\ stage = "idle" /\ shown = "none" /\ kills = 0 /\ UNCHANGED wordsVars
  \/ WordsNext /\ command = None /\ UNCHANGED vars

CommandsSpec == CommandsInit /\ [][CommandsNext]_<<vars, wordsVars>> /\ WF_vars(Step)

\* The type invariants of both modules.
CommandsTypeOK == TypeOK /\ WordsTypeOK
=============================================================================
