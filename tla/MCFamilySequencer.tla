-------------------------- MODULE MCFamilySequencer --------------------------
(* Small instances of FamilySequencer for TLC.                              *)
EXTENDS FamilySequencer, TLC

CONSTANTS f1

OneFamilyRoots   == [r \in Roots |-> f1]
OneFamilyClients == [c \in Clients |-> f1]

\* Commit-like commands, with and without a worktree in their start payload.
MutatingCommands == {[hint |-> h, mutates |-> TRUE] : h \in BOOLEAN}

\* Commands of one family are interchangeable when all of them, or none, may be
\* killed; so are its checkpoint requests.
TaskSymmetry == Permutations(Roots) \cup Permutations(Clients)
=============================================================================
