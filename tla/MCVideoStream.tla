--------------------------- MODULE MCVideoStream ---------------------------
(* One display, two or three connections one of which is a web client. *)
EXTENDS VideoStream
=============================================================================
