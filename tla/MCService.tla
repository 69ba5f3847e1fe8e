----------------------------- MODULE MCService -----------------------------
(* The service with two connections, for TLC. *)
EXTENDS Service
=============================================================================
