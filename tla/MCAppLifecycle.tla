--------------------------- MODULE MCAppLifecycle ---------------------------
(* Instantiates AppLifecycle for TLC. *)
EXTENDS AppLifecycle
============================================================================
