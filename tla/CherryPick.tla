----------------------------- MODULE CherryPick -----------------------------
(***************************************************************************)
(* Commits are picked from another branch and the daemon copies what their *)
(* notes say.                                                              *)
(*                                                                         *)
(* One git cherry-pick may take several commands: it stops at a commit     *)
(* that does not apply, and goes on with --continue or --skip, or ends     *)
(* with --abort or --quit, or with a git commit the user makes instead.    *)
(* The daemon sees one command at a time.  It keeps the commits named by a *)
(* command that failed (pending_cherry_pick_sources_by_worktree) and, when *)
(* a command that moved HEAD succeeds, finds the new commits in the reflog *)
(* (strict_cherry_pick_mappings_from_command) and writes their notes       *)
(* (rewrite_authorship_after_cherry_pick).                                 *)
(***************************************************************************)
EXTENDS LineVersions, Sequences, SequencesExt

CONSTANTS
  Agents,       \* the agents that write lines
  Writer,       \* who wrote each line: an agent or "human"
  Base,         \* the version both branches start from
  Branches,     \* the other branch may be any of these: the lines each of its
                \* commits adds, oldest first
  Targets,      \* the versions the commits may be picked onto
  MaxCommands,  \* how many commands are run at most
  Cases         \* what happens to a cherry-pick besides going well

\* What the constants must be.
CherryPickConstants ==
  /\ LinesConstants
  /\ Base \subseteq Lines /\ Targets \subseteq SUBSET Lines
  /\ Writer \in [Lines -> Agents \cup {"human"}]
  /\ \A b \in Branches : \A i \in DOMAIN b : b[i] \subseteq Lines /\ b[i] # {}
  /\ MaxCommands \in Nat
  /\ Cases \subseteq {"partly", "twice", "skip", "skiplast", "after", "commit", "quit"}

VARIABLES
  sources,   \* the other branch
  target,    \* the version the commits are picked onto
  commits,   \* the commits on top of it, oldest first
  todo,      \* the sources the stopped cherry-pick still has to apply, or none
  before,    \* how many commits there were when the cherry-pick began
  stops,     \* how often this cherry-pick stopped
  pending,   \* the sources the daemon keeps for the worktree
  runs       \* how many commands have run

vars == <<sources, target, commits, todo, before, stops, pending, runs>>

NoNote == [p \in {<<"no note", 0>>} |-> "none"]

\* The version of the other branch at its i-th commit, and its note.
SourceVersion(i) == Base \cup UNION {sources[j] : j \in 1..i}
AgentLines(ls)   == {l \in ls : Writer[l] \in Agents}
SourceNote(i)    == CreditOf(SourceVersion(i), AgentLines(sources[i]), Writer)

Version(cs, k) == IF k = 0 THEN target ELSE cs[k].ver

TypeOK ==
  /\ Range(todo) \cup Range(pending) \subseteq DOMAIN sources
  /\ before <= Len(commits)
  /\ \A k \in DOMAIN commits :
       /\ commits[k].src \in DOMAIN sources
       /\ commits[k].note = NoNote \/ DOMAIN commits[k].note \subseteq Files \X Nat

Init ==
  /\ sources \in Branches /\ target \in Targets
  /\ commits = <<>> /\ todo = <<>> /\ before = 0 /\ stops = 0 /\ pending = <<>> /\ runs = 0

-----------------------------------------------------------------------------
(* rewrite_authorship_after_cherry_pick, for as many sources ss as commits *)
(* from place first on.                                                    *)

TrackedFiles(ss) == UNION {{p[1] : p \in DOMAIN SourceNote(i)} : i \in Range(ss)}

TrackedPathsMatch(ss, v, k) ==
  ChangedFiles(SourceVersion(ss[k]), v) \cap TrackedFiles(ss) = {}

\* The blame of the last source: every line an agent wrote, in the files the
\* notes of the sources name.
AtSourceHead(ss) ==
  LET v == SourceVersion(Last(ss))
  IN  Only(CreditOf(v, AgentLines(v \ Base), Writer), TrackedFiles(ss))

\* (mutant) Lines that are not in the version before are nobody's.
TransformForward(att, head, ss, a, b) == TransferEqual(att, a, b)

\* transform_attributions_to_final_state: what is in the version before keeps
\* its agent, and what else the last source held gets it back.
Transform(att, head, ss, a, b) ==
  LET from  == SourceVersion(Last(ss))
      again == {l \in (b \ a) \cap from : Place(from, l) \in DOMAIN head}
  IN  TransferEqual(att, a, b) @@ CreditOf(b, again, [l \in again |-> head[Place(from, l)]])

\* The state begins as the last source, and each new commit puts the tracked
\* files it changes in place.  Its note is the whole state; only when no agent
\* wrote any of it is it the note of the source.
TransformedNotes(ss, new, start) ==
  LET head  == AtSourceHead(ss)
      first == {l \in SourceVersion(Last(ss)) : FileOf[l] \in TrackedFiles(ss)}
      Step(st, k) ==
        LET parent  == IF k = 1 THEN start ELSE new[k - 1].ver
            changed == {f \in ChangedFiles(parent, new[k].ver) \cap TrackedFiles(ss) :
                          Part(new[k].ver, f) # {}}
            now     == {l \in st.ver : FileOf[l] \notin changed}
                         \cup {l \in new[k].ver : FileOf[l] \in changed}
            att     == Transform(st.att, head, ss, st.ver, now)
        IN  [att |-> att, ver |-> now,
             notes |-> Append(st.notes, IF head = NoCredit THEN SourceNote(ss[k]) ELSE att)]
  IN  FoldLeft(Step, [att |-> head, ver |-> first, notes |-> <<>>], [k \in DOMAIN ss |-> k]).notes

\* The notes of the commits new, made on top of version start from sources ss.
CherryPickNotes(ss, new, start) ==
  IF \/ TrackedFiles(ss) = {}
     \/ \A k \in DOMAIN ss : TrackedPathsMatch(ss, new[k].ver, k)
  THEN [k \in DOMAIN ss |-> SourceNote(ss[k])]
  ELSE TransformedNotes(ss, new, start)

-----------------------------------------------------------------------------
(* strict_cherry_pick_mappings_from_command.                               *)

\* The counts of new commits that are tried: fewer than there are sources
\* only when the command says --skip.
Counts(ss, skips, cs) ==
  {c \in 1..Len(ss) : c <= Len(cs) /\ (skips \/ c = Len(ss))}

\* match_source_to_new_commits_by_message: in order, each new commit takes
\* the next source with its subject; the last sources when one finds none.
MatchByMessage(ss, new) ==
  LET Match(got, c) ==
        LET later == {j \in DOMAIN ss : ss[j] = c.src /\ \A g \in Range(got) : j > g}
        IN  Append(got, IF later = {} THEN Len(ss) + 1 ELSE Min(later))
      got == FoldLeft(Match, <<>>, new)
  IN  IF \A g \in Range(got) : g <= Len(ss) THEN [k \in DOMAIN got |-> ss[got[k]]]
      ELSE SubSeq(ss, Len(ss) - Len(new) + 1, Len(ss))

\* What becomes of the commits cs when a command that ended well moved HEAD.
Completed(cs, named, skips) ==
  LET ss     == IF pending # <<>> THEN pending ELSE named
      counts == Counts(ss, skips, cs)
  IN  IF counts = {} THEN cs
      ELSE LET c     == Max(counts)
               from  == Len(cs) - c
               new   == SubSeq(cs, from + 1, Len(cs))
               notes == CherryPickNotes(IF c < Len(ss) THEN MatchByMessage(ss, new) ELSE ss,
                                        new, Version(cs, from))
           IN  [k \in DOMAIN cs |->
                  IF k <= from THEN cs[k] ELSE [cs[k] EXCEPT !.note = notes[k - from]]]

-----------------------------------------------------------------------------
(* git cherry-pick, and what the daemon makes of each command.             *)

PickedFrom(cs, i, ls) ==
  [src |-> i, ver |-> Version(cs, Len(cs)) \cup ls, note |-> NoNote]

\* The commits after sources ss were applied to cs.
PickAll(cs, ss) == FoldLeft(LAMBDA acc, i : Append(acc, PickedFrom(acc, i, sources[i])), cs, ss)

\* git applies the sources ss to the commits cs until one does not apply,
\* which is for one of them to show, or to the end.  named is what the command
\* names.
Apply(cs, ss, named, skips) ==
  \E n \in 0..Len(ss) :
    LET after == PickAll(cs, SubSeq(ss, 1, n))
    IN  IF n = Len(ss)
        THEN /\ todo' = <<>> /\ stops' = 0
             /\ IF Len(after) > Len(commits)
                THEN commits' = Completed(after, named, skips) /\ pending' = <<>>
                ELSE ("skiplast" \in Cases \/ before = Len(commits)) /\ commits' = after /\ UNCHANGED pending
        ELSE /\ stops = 0 \/ "twice" \in Cases
             /\ todo' = SubSeq(ss, n + 1, Len(ss)) /\ stops' = stops + 1
             /\ commits' = after /\ pending' = named

CanRun == runs < MaxCommands /\ runs' = runs + 1 /\ UNCHANGED <<sources, target>>

\* git cherry-pick <commits>.
Start ==
  /\ CanRun /\ todo = <<>>
  /\ commits = <<>> \/ "after" \in Cases
  /\ \E ss \in BoundedSeq(DOMAIN sources, Len(sources)) :
       /\ ss # <<>>
       /\ \A j, k \in DOMAIN ss : j < k => ss[j] < ss[k]
       /\ \A i \in Range(ss), c \in Range(commits) : c.src # i
       /\ before' = Len(commits)
       /\ Apply(commits, ss, ss, FALSE)

\* git cherry-pick --continue, after the commit it stopped at was put right:
\* some of its lines may have been left out.
Continue ==
  /\ CanRun /\ todo # <<>>
  /\ \E ls \in SUBSET sources[Head(todo)] :
       /\ ls # {} /\ (ls = sources[Head(todo)] \/ "partly" \in Cases)
       /\ Apply(Append(commits, PickedFrom(commits, Head(todo), ls)), Tail(todo), <<>>, FALSE)
  /\ UNCHANGED before

\* git cherry-pick --skip.
Skip ==
  /\ CanRun /\ todo # <<>> /\ "skip" \in Cases
  /\ Apply(commits, Tail(todo), <<>>, TRUE)
  /\ UNCHANGED before

\* git cherry-pick --abort: the branch is what it was.
Abort ==
  /\ CanRun /\ todo # <<>>
  /\ commits' = SubSeq(commits, 1, before) /\ todo' = <<>> /\ stops' = 0 /\ pending' = <<>>
  /\ UNCHANGED before

\* git cherry-pick --quit: the commits made so far stay.
Quit ==
  /\ CanRun /\ todo # <<>> /\ "quit" \in Cases
  /\ todo' = <<>> /\ stops' = 0
  /\ UNCHANGED <<commits, before, pending>>

\* The user commits the last source with git commit: its note credits what
\* the working log holds, and no agent edited anything.
CommitInstead ==
  /\ CanRun /\ Len(todo) = 1 /\ "commit" \in Cases
  /\ commits' = Append(commits, [PickedFrom(commits, Head(todo), sources[Head(todo)]) EXCEPT !.note = NoCredit])
  /\ todo' = <<>> /\ stops' = 0
  /\ UNCHANGED <<before, pending>>

Next == Start \/ Continue \/ Skip \/ Abort \/ Quit \/ CommitInstead

Spec == Init /\ [][Next]_vars

-----------------------------------------------------------------------------
Introduced(k) == commits[k].ver \ Version(commits, k - 1)

NotedFor(k, l) ==
  IF commits[k].note = NoNote THEN {} ELSE Credited(commits[k].note, commits[k].ver, l)

\* When no cherry-pick is under way every picked line that an agent wrote is
\* credited to it by the note of the commit that brings the line in.
PicksKeepCredit ==
  todo = <<>> => \A k \in DOMAIN commits : \A l \in Introduced(k) :
                   Writer[l] \in Agents => NotedFor(k, l) = {Writer[l]}

\* No line of a person is credited to an agent by the commit that brings it
\* in, whatever happened to the cherry-pick.
PickedPeopleKeepTheirs ==
  \A k \in DOMAIN commits : \A l \in Introduced(k) :
    Writer[l] = "human" => NotedFor(k, l) = {}

\* The note of a picked commit is about lines that the commit holds.
PickNotesAreAboutTheCommit ==
  \A k \in DOMAIN commits :
    commits[k].note # NoNote =>
      \A p \in DOMAIN commits[k].note :
        \E l \in LineAt(commits[k].ver, p) : Writer[l] = commits[k].note[p]
=============================================================================
