---------------------------- MODULE MCCommitNotes ----------------------------
(***************************************************************************)
(* What the daemon puts into the notes of commits: of a new one            *)
(* (CommitSplit), of rebased ones (RebaseNotes) and of picked ones         *)
(* (CherryPick).  The three share no state.  A behaviour chooses one of    *)
(* the instances below and follows it; the variables of the others have no *)
(* value in it.                                                            *)
(***************************************************************************)
EXTENDS Integers, Sequences, FiniteSets, SequencesExt

VARIABLES
    part,                                                         \* the instance
    parent, commit, work, wrote, note, initial, done,             \* CommitSplit
    who, old, onto, left, new, phase,                             \* RebaseNotes
    sources, target, commits, todo, before, stops, pending, runs  \* CherryPick

splitVars  == <<parent, commit, work, wrote, note, initial, done>>
rebaseVars == <<who, old, onto, left, new, phase>>
pickVars   == <<sources, target, commits, todo, before, stops, pending, runs>>

Unused == "unused"
NoSplit ==
    /\ parent = Unused /\ commit = Unused /\ work = Unused /\ wrote = Unused
    /\ note = Unused /\ initial = Unused /\ done = Unused
NoRebase ==
    /\ who = Unused /\ old = Unused /\ onto = Unused
    /\ left = Unused /\ new = Unused /\ phase = Unused
NoPick ==
    /\ sources = Unused /\ target = Unused /\ commits = Unused /\ todo = Unused
    /\ before = Unused /\ stops = Unused /\ pending = Unused /\ runs = Unused

TwoAgents == {"A1", "A2"}
UpTo(n) == [l \in 1..n |-> "f"]
TwoFiles(n) == [l \in 1..n |-> IF l <= 4 THEN "f" ELSE "g"]

\* Four lines, two agents; every deletion is staged.
FourLines == 1..4
S == INSTANCE CommitSplit
       WITH Lines <- FourLines, Agents <- TwoAgents, DeletionsStaged <- TRUE

\* Three commits of up to two lines in two files: of two agents, lines inserted
\* and removed in between; or of an agent and a person, applied out of turn, to a
\* branch whose target has commits of its own; or dropped, melded and split.
FiveLines == 1..5
FiveInTwoFiles == TwoFiles(5)
Base23 == {2, 3}
Base2 == {2}
OneAgent == {"A1"}
PlainCases == {"insert", "remove"}
MovedCases == {"insert", "person", "reorder", "own"}
ShapedCases == {"drop", "meld", "split", "person", "reorder", "own"}

Plain  == INSTANCE RebaseNotes
            WITH Lines <- FiveLines, FileOf <- FiveInTwoFiles, Base <- Base23,
                 Agents <- TwoAgents, MaxCommits <- 3, MaxAdded <- 2, Cases <- PlainCases
Moved  == INSTANCE RebaseNotes
            WITH Lines <- FiveLines, FileOf <- FiveInTwoFiles, Base <- Base2,
                 Agents <- OneAgent, MaxCommits <- 3, MaxAdded <- 2, Cases <- MovedCases
Shaped == INSTANCE RebaseNotes
            WITH Lines <- FiveLines, FileOf <- FiveInTwoFiles, Base <- Base2,
                 Agents <- OneAgent, MaxCommits <- 3, MaxAdded <- 2, Cases <- ShapedCases

\* Up to three commits of up to two lines of people and agents, in one file, with
\* partial resolutions; or in two files, with skipped commits; or whatever can
\* happen to a cherry-pick.
SixLines == 1..6
SixInOneFile == UpTo(6)
SixInTwoFiles == TwoFiles(6)
Alternating == [l \in 1..6 |-> IF l % 2 = 1 THEN "human" ELSE IF l = 4 THEN "A2" ELSE "A1"]
Base3 == {3}
Targets3 == {{3}, {1, 3}}
\* Every branch of up to three commits that add up to two lines each; the lines of
\* the targets are not among them.
ThreeCommits ==
  {b \in BoundedSeq({ls \in SUBSET (SixLines \ UNION Targets3) : Cardinality(ls) \in 1..2}, 3) :
     b # <<>> /\ \A i, j \in DOMAIN b : i < j => b[i] \cap b[j] = {}}
KeptCases == {"partly", "after"}
SkippedCases == {"partly", "skip"}
AllPickCases == {"partly", "twice", "skip", "skiplast", "after", "commit", "quit"}

Kept    == INSTANCE CherryPick
             WITH Lines <- SixLines, FileOf <- SixInOneFile, Agents <- TwoAgents,
                  Writer <- Alternating, Base <- Base3, Branches <- ThreeCommits,
                  Targets <- Targets3, MaxCommands <- 4, Cases <- KeptCases
Skipped == INSTANCE CherryPick
             WITH Lines <- SixLines, FileOf <- SixInTwoFiles, Agents <- TwoAgents,
                  Writer <- Alternating, Base <- Base3, Branches <- ThreeCommits,
                  Targets <- Targets3, MaxCommands <- 2, Cases <- SkippedCases
AnyPick == INSTANCE CherryPick
             WITH Lines <- SixLines, FileOf <- SixInTwoFiles, Agents <- TwoAgents,
                  Writer <- Alternating, Base <- Base3, Branches <- ThreeCommits,
                  Targets <- Targets3, MaxCommands <- 4, Cases <- AllPickCases

ASSUME InstancesAssumption ==
    /\ S!SplitConstants
    /\ Plain!RebaseConstants /\ Moved!RebaseConstants /\ Shaped!RebaseConstants
    /\ Kept!CherryPickConstants /\ Skipped!CherryPickConstants /\ AnyPick!CherryPickConstants

Init ==
    \/ /\ part = "split" /\ S!Init
       /\ NoRebase /\ NoPick
    \/ /\ \/ part = "plain" /\ Plain!Init
          \/ part = "moved" /\ Moved!Init
          \/ part = "shaped" /\ Shaped!Init
       /\ NoSplit /\ NoPick
    \/ /\ \/ part = "kept" /\ Kept!Init
          \/ part = "skipped" /\ Skipped!Init
          \/ part = "any pick" /\ AnyPick!Init
       /\ NoSplit /\ NoRebase

SplitStep == part = "split" /\ S!Next /\ UNCHANGED <<part, rebaseVars, pickVars>>

RebaseStep ==
    /\ \/ part = "plain" /\ Plain!Next
       \/ part = "moved" /\ Moved!Next
       \/ part = "shaped" /\ Shaped!Next
    /\ UNCHANGED <<part, splitVars, pickVars>>

PickStep ==
    /\ \/ part = "kept" /\ Kept!Next
       \/ part = "skipped" /\ Skipped!Next
       \/ part = "any pick" /\ AnyPick!Next
    /\ UNCHANGED <<part, splitVars, rebaseVars>>

Next == SplitStep \/ RebaseStep \/ PickStep

Spec == Init /\ [][Next]_<<part, splitVars, rebaseVars, pickVars>>

\* A commit's note has the author of every line it added, INITIAL that of every
\* line it left out, and neither says more.
SplitExact ==
    part = "split" => S!NoteComplete /\ S!NoteSound /\ S!InitialExact

\* A rebase keeps the credit of agents, however the commits are reordered,
\* dropped, melded or split; when they are only replayed, the notes say nothing
\* that is not so.
RebaseKeepsCredit ==
    /\ part = "plain" => Plain!KeepsCredit /\ Plain!NotesAreAboutTheCommit
    /\ part = "moved" => Moved!KeepsCredit
    /\ part = "shaped" => Shaped!KeepsCredit

\* A cherry-pick keeps the credit of agents, with partial resolutions and skipped
\* commits, and whatever happens to it credits no line of a person.
PicksKeepCredit ==
    /\ part = "kept" => Kept!PicksKeepCredit
    /\ part = "skipped" => Skipped!PicksKeepCredit
    /\ part = "any pick" => AnyPick!PickedPeopleKeepTheirs
=============================================================================
