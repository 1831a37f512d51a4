-------------------------- MODULE MCCommandSession --------------------------
(* Instance of CommandSession for TLC. *)
EXTENDS CommandSession, TLC
=============================================================================
