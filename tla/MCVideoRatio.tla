---------------------------- MODULE MCVideoRatio ----------------------------
(* The bitrate controller with one or two users and services. *)
EXTENDS VideoRatio
=============================================================================
