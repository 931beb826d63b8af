------------------------------ MODULE JobFiles ------------------------------
(***************************************************************************)
(* What the service computes from the names of the files in the jobs       *)
(* directories.                                                            *)
(***************************************************************************)
EXTENDS Naturals, FiniteSets

\* Mutant: the constructor does not look at the request files.
FirstFree_NoScan(ids) == 0

\* The loop of the DataBase constructor: the least id without a request file.
FirstFree(ids) ==
  CHOOSE n \in 0 .. Cardinality(ids) :
    n \notin ids /\ \A m \in 0 .. n - 1 : m \in ids
=============================================================================
