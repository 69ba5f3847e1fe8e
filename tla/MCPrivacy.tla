----------------------------- MODULE MCPrivacy -----------------------------
\* The privacy mode, for model checking.
EXTENDS Privacy, TLC

\* The connections are interchangeable, and nothing temporal is checked.
Symmetry == Permutations(Conn)
=============================================================================
