-------------------------- MODULE MCSubProcessSet --------------------------
(* Instantiates SubProcessSet for TLC. *)
EXTENDS SubProcessSet, TLC
============================================================================
