--------------------------- MODULE MCRegistration ---------------------------
(* Registration for TLC. *)
EXTENDS Registration
=============================================================================
