----------------------------- MODULE MCDockDrag -----------------------------
(* Instantiates DockDrag for TLC. *)
EXTENDS DockDrag, TLC

\* Views and windows are interchangeable; no property here is liveness.
Symmetry == Permutations(Views) \cup Permutations(Floats)
============================================================================
