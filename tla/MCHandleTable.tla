--------------------------- MODULE MCHandleTable ---------------------------
(* Instantiates HandleTable for TLC. *)
EXTENDS HandleTable, TLC
============================================================================
