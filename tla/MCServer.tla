------------------------------- MODULE MCServer -------------------------------
(* A small instance of Server for TLC. *)
EXTENDS Server, TLC
==============================================================================
