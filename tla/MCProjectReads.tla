--------------------------- MODULE MCProjectReads ---------------------------
(* Instance of ProjectReads for TLC. *)
EXTENDS ProjectReads, TLC

UploadSymmetry == Permutations(Upload)
=============================================================================
