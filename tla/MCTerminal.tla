----------------------------- MODULE MCTerminal -----------------------------
(* A small instance of the terminal for TLC. *)
EXTENDS Terminal
=============================================================================
