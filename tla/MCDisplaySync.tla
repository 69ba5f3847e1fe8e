--------------------------- MODULE MCDisplaySync ---------------------------
(* Two or three connections, two lists of displays. *)
EXTENDS DisplaySync
=============================================================================
