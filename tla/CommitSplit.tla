----------------------------- MODULE CommitSplit -----------------------------
(***************************************************************************)
(* How a commit splits the attributions of the working directory: the      *)
(* lines it committed go into its note, in the numbering of the commit,    *)
(* the unstaged ones into the INITIAL file, in the numbering of the        *)
(* working directory.  The three versions of the file are sets of lines    *)
(* taken from one ordering, so that the diff of two of them is unique: a   *)
(* hunk is a maximal run of differing lines between two common ones.       *)
(***************************************************************************)
EXTENDS Integers, FiniteSets

CONSTANTS
    Lines,          \* the lines a version may have, numbers in file order
    Agents,         \* the agents that write lines
    DeletionsStaged \* BOOLEAN: every deletion of the working directory is staged

Known == "known"  \* a line an editor's save has vouched for
Human == "human"  \* a line of neither: it has no attribution
Authors == Agents \cup {Known, Human}

\* What the constants must be.
SplitConstants ==
    /\ Lines \subseteq Nat /\ IsFiniteSet(Lines)
    /\ DeletionsStaged \in BOOLEAN
    /\ {Known, Human} \cap Agents = {}

VARIABLES
    parent, commit, work, \* the three versions of the file
    wrote,                \* the author of each line of the working directory
    note, initial,        \* the split, as functions from line numbers to authors
    done

vars == <<parent, commit, work, wrote, note, initial, done>>

NumberIn(S, x) == Cardinality({y \in S : y <= x})
LineAt(S, n) == CHOOSE x \in S : NumberIn(S, x) = n

-----------------------------------------------------------------------------
(* Diffs.                                                                  *)

\* The line numbers a diff adds.
AddedLines(old, new) == {NumberIn(new, x) : x \in new \ old}

\* Two lines are in one hunk when no common line separates them.
SameHunk(old, new, x, y) ==
    {z \in old \cap new : z < x} = {z \in old \cap new : z < y}

\* The added lines of hunks that take nothing away.
PureInsertions(old, new) ==
    {NumberIn(new, x) : x \in {a \in new \ old :
        \A d \in old \ new : ~SameHunk(old, new, a, d)}}

-----------------------------------------------------------------------------
(* The split.                                                              *)

Attributed == {n \in 1..Cardinality(work) : wrote[LineAt(work, n)] # Human}

CommittedHunks == AddedLines(parent, commit)

\* Unstaged lines that have the number of a committed one count as committed,
\* unless they were purely inserted.
UnstagedLines ==
    {n \in AddedLines(commit, work) :
        n \notin CommittedHunks \/ n \in PureInsertions(commit, work)}

\* (mutant) The lines that were not staged do not shift the others.
CommitLineUnshifted(n) == n

\* From the numbering of the working directory to that of the commit.
CommitLine(n) == n - Cardinality({u \in UnstagedLines : u < n})

CommittedLines ==
    {n \in Attributed \ UnstagedLines : CommitLine(n) \in CommittedHunks}

\* What the lines themselves give, and the gaps between two lines of one agent.
DirectNote ==
    [m \in {CommitLine(n) : n \in CommittedLines} |->
        wrote[LineAt(work, CHOOSE n \in CommittedLines : CommitLine(n) = m)]]

Neighbour(S, m, before) ==
    IF before THEN CHOOSE x \in S : x < m /\ \A y \in S : y < m => y <= x
    ELSE CHOOSE x \in S : x > m /\ \A y \in S : y > m => y >= x

\* A line without an attribution whose neighbours are lines of one agent is
\* taken for a line of that agent, whatever was the matter with it.
GapFills(direct) ==
    LET S == DOMAIN direct
    IN  {m \in CommittedHunks \ S :
            /\ \E x \in S : x < m
            /\ \E x \in S : x > m
            /\ direct[Neighbour(S, m, TRUE)] \in Agents
            /\ direct[Neighbour(S, m, TRUE)] = direct[Neighbour(S, m, FALSE)]}

FilledNote(direct) ==
    [m \in DOMAIN direct \cup GapFills(direct) |->
        IF m \in DOMAIN direct THEN direct[m]
        ELSE direct[Neighbour(DOMAIN direct, m, TRUE)]]

UncommittedLines ==
    [n \in Attributed \cap UnstagedLines |-> wrote[LineAt(work, n)]]

-----------------------------------------------------------------------------
Init ==
    /\ parent \in SUBSET Lines /\ commit \in SUBSET Lines
    /\ work \in SUBSET Lines
    /\ DeletionsStaged => commit \subseteq work
    /\ \E a \in [Lines -> Authors] :
          /\ wrote = a
          \* Only lines that are in the file and not in the parent have an author.
          /\ \A x \in Lines : x \in work \ parent \/ a[x] = Human
    /\ note = <<>> /\ initial = <<>> /\ done = FALSE

Split ==
    /\ ~done
    /\ note' = FilledNote(DirectNote)
    /\ initial' = UncommittedLines
    /\ done' = TRUE
    /\ UNCHANGED <<parent, commit, work, wrote>>

Next == Split

Spec == Init /\ [][Next]_vars

-----------------------------------------------------------------------------
(* Properties.                                                             *)

\* The note numbers lines of the commit, INITIAL lines of the working directory.
TypeOK ==
    /\ parent \subseteq Lines /\ commit \subseteq Lines /\ work \subseteq Lines
    /\ done => /\ DOMAIN note \subseteq 1..Cardinality(commit)
               /\ DOMAIN initial \subseteq 1..Cardinality(work)

\* A line the commit added and that is still in the working directory has in
\* the note, at its number in the commit, the author it has there.
NoteComplete ==
    done => \A x \in (commit \ parent) \cap work : wrote[x] # Human =>
        LET m == NumberIn(commit, x) IN m \in DOMAIN note /\ note[m] = wrote[x]

\* What the note attributes is a line of that author, or a line without an
\* attribution that has lines of one agent before and after it.
NoteSound ==
    done => \A m \in DOMAIN note :
        LET x == LineAt(commit, m)
        IN  \/ x \in work /\ wrote[x] = note[m]
            \/ /\ note[m] \in Agents
               /\ x \in work => wrote[x] = Human
               /\ \E y, z \in commit \ parent : y < x /\ x < z /\ {y, z} \subseteq work
                                      /\ wrote[y] = note[m] /\ wrote[z] = note[m]

\* INITIAL holds the attributed lines that were left out of the commit, at their
\* numbers in the working directory, and no others.
InitialExact ==
    done => initial = [n \in {NumberIn(work, x) : x \in {y \in work \ commit : wrote[y] # Human}}
                          |-> wrote[LineAt(work, n)]]

=============================================================================
