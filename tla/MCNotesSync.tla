----------------------------- MODULE MCNotesSync -----------------------------
(* NotesSync for TLC: two clones annotate the same commit, and one of them  *)
(* another commit as well.                                                  *)
EXTENDS NotesSync, TLC

CONSTANTS A, B, k1, k2

OneInCommon ==
    [c \in Clones |-> [k \in Commits |-> IF c = B /\ k = k2 THEN 0 ELSE 1]]
=============================================================================
