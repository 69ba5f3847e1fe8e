----------------------------- MODULE MCMediator -----------------------------
(* Mediator for TLC. *)
EXTENDS Mediator
=============================================================================
