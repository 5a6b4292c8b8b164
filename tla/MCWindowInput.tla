--------------------------- MODULE MCWindowInput ---------------------------
(* Instantiates WindowInput for TLC. *)
EXTENDS WindowInput
============================================================================
