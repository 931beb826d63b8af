----------------------------- MODULE MCJobsView -----------------------------
(* Instances of JobsView for TLC. *)
EXTENDS JobsView, TLC

MCJobs == 0 .. 2

\* A request may use any slot.
MCSymmetry == Permutations(Slots)
=============================================================================
