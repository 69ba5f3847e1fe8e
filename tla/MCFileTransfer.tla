--------------------------- MODULE MCFileTransfer ---------------------------
(* A job of two files, for TLC. *)
EXTENDS FileTransfer

TwoFiles == (0 :> 1) @@ (1 :> 2)
=============================================================================
