----------------------------- MODULE MCVideoFps -----------------------------
(* The frame rate with two users, for TLC. *)
EXTENDS VideoFps

CONSTANT MaxShared      \* reports of each of two users while both are there

\* What is explored of two users at once; a single user is not bounded.
Bounded ==
    Cardinality(DOMAIN users) > 1 =>
        \A u \in DOMAIN users :
            /\ Len(users[u].history) <= MaxShared
            /\ users[u].custom <= FPS /\ users[u].auto = None
=============================================================================
