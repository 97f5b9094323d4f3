----------------------------- MODULE MCBashTool -----------------------------
(***************************************************************************)
(* BashTool for TLC: two calls in one worktree.                             *)
(***************************************************************************)
EXTENDS BashTool, TLC

CONSTANTS t1, f1, f2, c1, c2

OneTree == [c \in Calls |-> t1]

\* Paths, and calls that differ in nothing, may be exchanged.
Alike == Permutations(Files) \cup Permutations(Calls)
=============================================================================
