--------------------------- MODULE MCScriptEditor ---------------------------
(* Instances of ScriptEditor for TLC. *)
EXTENDS ScriptEditor, TLC

\* The code tells neither the threads nor the scripts apart.
MCSymmetry == Permutations(Workers) \cup Permutations(Names)
=============================================================================
