-------------------------- MODULE MCCommandEffects --------------------------
(* Two files, which commands do not tell apart.                            *)
EXTENDS CommandEffects, TLC

CONSTANTS f1, f2

TwoFiles == {f1, f2}
\* Those who switch, those who reset, those who stash and those who amend.
FourUsers == {{"commit", "checkout", "force", "merge", "paths", "pull"},
              {"commit", "soft", "hard", "unstage", "paths"},
              {"commit", "stash", "checkout"},
              {"commit", "amend", "soft", "checkout"}}
FileSymmetry == Permutations(Files)
=============================================================================
