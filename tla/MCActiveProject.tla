--------------------------- MODULE MCActiveProject ---------------------------
(* Instance of ActiveProject for TLC. *)
EXTENDS ActiveProject, TLC
=============================================================================
