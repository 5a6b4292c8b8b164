----------------------------- MODULE MCDownload -----------------------------
(* Instantiates Download for TLC: a version in two pieces and one in one piece.   *)
EXTENDS Download

CONSTANTS old, new

Sizes == [v \in Versions |-> IF v = old THEN 2 ELSE 1]
=============================================================================
