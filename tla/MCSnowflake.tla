----------------------------- MODULE MCSnowflake -----------------------------
(* A small instance of Snowflake for TLC: the values are in the .cfg.  No     *)
(* symmetry is declared, because the run checks liveness.                     *)
EXTENDS Snowflake
==============================================================================
