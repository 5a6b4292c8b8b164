----------------------------- MODULE MCTextEdit -----------------------------
(* Instantiates TextEdit for TLC: one edit holds text, the other only takes the   *)
(* focus and the timers.                                                          *)
EXTENDS TextEdit

CONSTANTS e, f

Longest == [x \in Edits |-> IF x = e THEN 2 ELSE 0]
=============================================================================
