---------------------------- MODULE LineVersions ----------------------------
(***************************************************************************)
(* The vocabulary of the modules on rewritten history.  Every line that is *)
(* ever written is a number of its own; a line belongs to one file, and    *)
(* the lines of a file always stand in the order of their numbers.  A      *)
(* version of the repository is therefore a set of lines, a change is the  *)
(* lines it adds and the lines it removes, and what two versions of a file *)
(* have in common is their intersection: git's diff of them finds exactly  *)
(* that.  No two lines have the same text.                                 *)
(*                                                                         *)
(* An attribution is what an authorship note or the daemon's working state *)
(* holds: a function from places -- a file and a line NUMBER in some       *)
(* version of it -- to the agent credited with the line.                   *)
(***************************************************************************)
EXTENDS Integers, FiniteSets, TLC

CONSTANTS
  Lines,    \* the lines that may be written
  FileOf    \* the file each line belongs to

\* What the constants must be.
LinesConstants == Lines \subseteq Nat /\ IsFiniteSet(Lines)

Files == {FileOf[l] : l \in Lines}

\* The part of version v that is file f.
Part(v, f) == {l \in v : FileOf[l] = f}

\* The files that two versions do not have in common.
ChangedFiles(a, b) == {f \in Files : Part(a, f) # Part(b, f)}

\* The place of line l in version v.
Place(v, l) == <<FileOf[l], Cardinality({k \in Part(v, FileOf[l]) : k <= l})>>

\* The line of version v that stands at place p, if the file is that long.
LineAt(v, p) == {l \in v : Place(v, l) = p}

NoCredit == [p \in {} |-> "none"]

\* The attribution att without the places of the files fs, and only with them.
Without(att, fs) == [p \in {q \in DOMAIN att : q[1] \notin fs} |-> att[p]]
Only(att, fs)    == [p \in {q \in DOMAIN att : q[1] \in fs} |-> att[p]]

\* Lines of version v, each with the agent by[l], as an attribution.
CreditOf(v, ls, by) ==
  [p \in {Place(v, l) : l \in ls} |-> by[CHOOSE l \in ls : Place(v, l) = p]]

\* The agents that attribution att credits with line l of version v.
Credited(att, v, l) ==
  IF Place(v, l) \in DOMAIN att THEN {att[Place(v, l)]} ELSE {}

(***************************************************************************)
(* apply_hunks_to_line_attributions: the places of version a move to where *)
(* the hunks of the change from a to b put them.  Places of removed lines  *)
(* are dropped, and places beyond the end of the file move with its end.   *)
(***************************************************************************)
ApplyHunks(att, a, b) ==
  LET Moved(p) ==
        IF LineAt(a, p) = {}
        THEN {<<p[1], p[2] + Cardinality(Part(b, p[1])) - Cardinality(Part(a, p[1]))>>}
        ELSE {Place(b, l) : l \in LineAt(a, p) \cap b}
  IN  [q \in UNION {Moved(p) : p \in DOMAIN att} |->
         att[CHOOSE p \in DOMAIN att : q \in Moved(p)]]

(***************************************************************************)
(* diff_based_line_attribution_transfer: the lines that version b has in   *)
(* common with version a keep their agents; every other line has none.     *)
(***************************************************************************)
TransferEqual(att, a, b) ==
  LET kept == {l \in a \cap b : Place(a, l) \in DOMAIN att}
  IN  CreditOf(b, kept, [l \in kept |-> att[Place(a, l)]])
=============================================================================
