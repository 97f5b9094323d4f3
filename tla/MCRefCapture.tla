---------------------------- MODULE MCRefCapture ----------------------------
(* RefCapture for TLC: both commands are run in one worktree, and the first *)
(* starts a git there.                                                      *)
EXTENDS RefCapture

OneTree == [c \in Cmds |-> "main"]
ChildAtHome == [c \in Cmds |-> IF c = 1 THEN "main" ELSE Nowhere]
=============================================================================
