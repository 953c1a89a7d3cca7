------------------------------ MODULE MCAudio -------------------------------
(* A small instance of the sound path for TLC. *)
EXTENDS Audio
=============================================================================
