----------------------------- MODULE MCDataBase -----------------------------
(* Instances of DataBase for TLC. *)
EXTENDS DataBase
=============================================================================
