--------------------------- MODULE MCJobScheduler ---------------------------
(* Instances of JobScheduler for TLC. *)
EXTENDS JobScheduler, TLC

\* The code does not tell the worker threads apart.
MCSymmetry == Permutations(Workers)
=============================================================================
