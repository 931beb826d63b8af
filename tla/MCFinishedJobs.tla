--------------------------- MODULE MCFinishedJobs ---------------------------
(* Instances of FinishedJobs for TLC. *)
EXTENDS FinishedJobs

MCIds == 0 .. 2
MCFroms == {1, 9}
MCMaxes == {-2, 0, 1, 3}
=============================================================================
