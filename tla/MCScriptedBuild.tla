-------------------------- MODULE MCScriptedBuild --------------------------
(* ScriptedBuild on small sets, for TLC. *)
EXTENDS ScriptedBuild

CONSTANTS h1, h2, d1, d2, none
=============================================================================
