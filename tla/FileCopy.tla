------------------------------ MODULE FileCopy ------------------------------
(***************************************************************************)
(* What a file transfer promises to the directory it writes to: under its  *)
(* own name a file is what it was before, or a whole copy of one version   *)
(* of the source; a file the user chose to skip is not touched.  Files     *)
(* listed in suspect are exempt: something has happened to them (a failed  *)
(* write, or remains of an earlier transfer) that the program does not     *)
(* handle.                                                                 *)
(***************************************************************************)
EXTENDS Naturals

CONSTANTS
    N,              \* number of files of the job
    Blocks,         \* Blocks[f]: length of file f, in blocks of BUF_SIZE
    None

Files == 0 .. N - 1

(***************************************************************************)
(* What a file holds: the first len blocks of version ver of the source    *)
(* when ok, something else when not.  Version 0 is not from the source.    *)
(***************************************************************************)
Content == [ver : Nat, len : Nat, ok : BOOLEAN]
Empty == [ver |-> 0, len |-> 0, ok |-> TRUE]
Old == [ver |-> 0, len |-> 1, ok |-> TRUE]

Whole(f, c) ==
    /\ c # None
    /\ c.ok
    /\ c.len = Blocks[f]
    /\ c.len > 0 => c.ver > 0

VARIABLES
    final,          \* final[f]: what is found under the name of f
    skips,          \* the files the current job skips
    suspect

vars == <<final, skips, suspect>>

Init ==
    /\ final \in [Files -> {None, Old}]
    /\ skips = {}
    /\ suspect = {}

\* One file gets its name, or a suspect one is changed in some other way.
Install ==
    \E f \in Files \ skips :
        /\ \E c \in {final'[f]} :
            /\ Whole(f, c) \/ f \in suspect'
            /\ final' = [final EXCEPT ![f] = c]
        /\ suspect \subseteq suspect'
        /\ UNCHANGED skips

\* The user decides about a file, or a job begins or ends.
Decide ==
    /\ skips' \subseteq Files
    /\ suspect \subseteq suspect'
    /\ UNCHANGED final

Next == Install \/ Decide

Spec == Init /\ [][Next]_vars
=============================================================================
