----------------------------- MODULE MCDocking -----------------------------
(* Instantiates Docking for TLC. *)
EXTENDS Docking
============================================================================
