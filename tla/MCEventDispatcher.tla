------------------------- MODULE MCEventDispatcher --------------------------
(* Instances of EventDispatcher, in the threads of the service, for TLC. *)
EXTENDS ServiceThreads
=============================================================================
