-------------------------- MODULE MCPartialRedraw --------------------------
(* Instantiates PartialRedraw for TLC. *)
EXTENDS PartialRedraw
============================================================================
