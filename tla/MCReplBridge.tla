--------------------------- MODULE MCReplBridge -----------------------------
(* Instances of ReplBridge for TLC. *)
EXTENDS ReplBridge

\* An empty line, which fits into the child's buffer, and one that does not.
Lengths == <<0, 1>>
=============================================================================
