--------------------------- MODULE MCProjectUpload ---------------------------
(* Instance of ProjectUpload for TLC. *)
EXTENDS ProjectUpload, TLC

UploadSymmetry == Permutations(Upload)
=============================================================================
