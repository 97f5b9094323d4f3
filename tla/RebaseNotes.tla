----------------------------- MODULE RebaseNotes -----------------------------
(***************************************************************************)
(* A branch is rebased and the daemon rewrites its authorship notes.       *)
(*                                                                         *)
(* People and agents commit to a branch; every commit made with git-ai has *)
(* a note that credits agents with lines.  Then git replays the branch on  *)
(* the target: a commit is picked, dropped, melded into the one before it, *)
(* split, taken out of turn, or changed while the rebase is stopped at it. *)
(* When the rebase is over the daemon finds out which new commits stand    *)
(* for which old ones (build_rebase_commit_mappings) and writes the notes  *)
(* of the new commits (rewrite_authorship_after_rebase_v2) from the old    *)
(* notes, the versions of the files and nothing else.                      *)
(***************************************************************************)
EXTENDS LineVersions, Sequences, SequencesExt

CONSTANTS
  Agents,       \* the agents that write lines
  Base,         \* the version the branch starts from
  MaxCommits,   \* how many commits the branch has at most
  MaxAdded,     \* how many lines a commit adds at most
  Cases         \* the unusual things that happen to the branch

\* What the constants must be.
RebaseConstants ==
  /\ LinesConstants
  /\ Base \subseteq Lines
  /\ MaxCommits \in Nat /\ MaxAdded \in Nat
  /\ Cases \subseteq {"insert", "remove", "undo", "reorder", "drop", "meld", "split", "inplace",
                     "agent", "person", "own"}
  /\ "human" \notin Agents

VARIABLES
  who,      \* who wrote each line, once it is written
  old,      \* the commits of the branch, oldest first
  onto,     \* the version the branch is rebased onto
  left,     \* the commits of the branch the rebase has not come to
  new,      \* the commits the rebase has made, oldest first
  phase     \* "work", "rebase", "ended" or "rewritten"

vars == <<who, old, onto, left, new, phase>>

Authors == Agents \cup {"human"}
NoNote  == [p \in {<<"no note", 0>>} |-> "none"]   \* a commit without a note
Unwritten == {l \in Lines \ Base : who[l] = "none"}

Commit(v, subject, note, wl) ==
  [ver |-> v, subject |-> subject, note |-> note, wl |-> wl]

VersionOf(commits, start, i) == IF i = 0 THEN start ELSE commits[i].ver

OldHead == VersionOf(old, Base, Len(old))
NewHead == VersionOf(new, onto, Len(new))
Added(i)   == old[i].ver \ VersionOf(old, Base, i - 1)
Removed(i) == VersionOf(old, Base, i - 1) \ old[i].ver

\* The lines of ls that an agent wrote, as an attribution of version v.
ByAgents(v, ls, by) == CreditOf(v, {l \in ls : by[l] # "human"}, by)

\* Only a note with attestations counts: a commit made while the rebase was
\* stopped may have one without.
HasAttestations(commit) == commit.note # NoNote /\ commit.note # NoCredit

TypeOK ==
  /\ who \in [Lines -> Authors \cup {"none"}]
  /\ Len(old) <= MaxCommits /\ left \subseteq DOMAIN old
  /\ onto \subseteq Lines
  /\ phase \in {"work", "rebase", "ended", "rewritten"}
  /\ \A c \in Range(old) \cup Range(new) :
       /\ c.ver \subseteq Lines
       /\ c.note = NoNote \/ (DOMAIN c.note \subseteq Files \X Nat /\ Range(c.note) \subseteq Agents)

Init ==
  /\ who = [l \in Lines |-> IF l \in Base THEN "human" ELSE "none"]
  /\ old = <<>> /\ new = <<>> /\ left = {} /\ onto = Base /\ phase = "work"

-----------------------------------------------------------------------------
(* The branch and its target.                                              *)

\* Lines that come after every line of their files.
Appended(add) == \A l \in add : \A k \in Part(OldHead, FileOf[l]) : k < l

\* Lines a commit may remove: people's, and agents' in the case "undo".
Removable ==
  {l \in OldHead : (IF who[l] = "human" THEN "remove" ELSE "undo") \in Cases}

\* Somebody commits to the branch.  The note of the commit credits every
\* line an agent added; a commit of people only may have been made without
\* git-ai, and then has no note.
CommitToBranch ==
  /\ phase = "work" /\ Len(old) < MaxCommits
  /\ \E add \in SUBSET Unwritten, del \in SUBSET Removable :
       /\ "insert" \in Cases \/ Appended(add)
       /\ Cardinality(add) <= MaxAdded /\ Cardinality(del) <= 1 /\ add \cup del # {}
       /\ \E by \in [add -> Authors] :
            LET v    == (OldHead \ del) \cup add
                note == ByAgents(v, add, by)
            IN  \E n \in {note} \cup (IF note = NoCredit THEN {NoNote} ELSE {}) :
                  /\ old' = Append(old, Commit(v, Len(old) + 1, n, NoCredit))
                  /\ who' = by @@ who
  /\ UNCHANGED <<onto, left, new, phase>>

\* Somebody else's line arrives on the target branch.
CommitToTarget ==
  /\ phase = "work" /\ onto = Base
  /\ \E l \in Unwritten :
       /\ who' = [who EXCEPT ![l] = "human"]
       /\ onto' = onto \cup {l}
  /\ UNCHANGED <<old, left, new, phase>>

-----------------------------------------------------------------------------
(* git rebase.                                                             *)

StartRebase ==
  /\ phase = "work" /\ old # <<>>
  /\ phase' = "rebase" /\ left' = DOMAIN old
  /\ UNCHANGED <<who, old, onto, new>>

\* The commit that comes next; out of turn when the list was reordered.
MayTake(i) ==
  /\ phase = "rebase" /\ i \in left
  /\ "reorder" \in Cases \/ \A j \in left : i <= j

\* The commit applies: what it removes is there and what it adds is not.
Applies(i) == Removed(i) \subseteq NewHead /\ Added(i) \cap NewHead = {}

Applied(i) == (NewHead \ Removed(i)) \cup Added(i)

\* git does not replay a first commit whose parent stays what it was: such a
\* commit is no part of the rebase.
Replayed(i) == ~(new = <<>> /\ onto = Base /\ i = 1)

Pick(i) ==
  /\ MayTake(i) /\ Applies(i) /\ Replayed(i)
  /\ new' = Append(new, Commit(Applied(i), i, NoNote, NoCredit))
  /\ left' = left \ {i}
  /\ UNCHANGED <<who, old, onto, phase>>

Drop(i) ==
  /\ "drop" \in Cases
  /\ MayTake(i)
  /\ left' = left \ {i}
  /\ UNCHANGED <<who, old, onto, new, phase>>

\* squash or fixup: the commit before it keeps its subject.
Meld(i) ==
  /\ "meld" \in Cases
  /\ MayTake(i) /\ Applies(i) /\ new # <<>>
  /\ new' = [new EXCEPT ![Len(new)].ver = Applied(i)]
  /\ left' = left \ {i}
  /\ UNCHANGED <<who, old, onto, phase>>

\* The rebase stops at the commit, which is taken back and committed again in
\* two parts with git commit.  The working log knows nothing of its lines, so
\* both parts get notes without attestations.
Split(i) ==
  /\ "split" \in Cases
  /\ onto # Base \/ "inplace" \in Cases
  /\ MayTake(i) /\ Applies(i)
  /\ \E first \in SUBSET Added(i) :
       /\ first # {} /\ (first # Added(i) \/ Removed(i) # {})
       /\ new' = new \o << Commit(NewHead \cup first, 0, NoCredit, NoCredit),
                           Commit(Applied(i), i, NoCredit, NoCredit) >>
  /\ left' = left \ {i}
  /\ UNCHANGED <<who, old, onto, phase>>

\* The rebase stops at the commit, on a conflict or because it is to be
\* edited, and author a replaces the lines gone of it by line l.  An agent's
\* edit is in the working log of the commit before.  The commit is made by
\* rebase --continue, or ("own") by a git commit of its own, whose note
\* credits what the working log holds and nothing else.
Change(i, a, l, gone) ==
  /\ IF a = "human" THEN "person" \in Cases ELSE "agent" \in Cases
  /\ MayTake(i) /\ Applies(i)
  /\ LET v  == (Applied(i) \ gone) \cup {l}
         wl == ByAgents(v, {l}, [k \in {l} |-> a])
     IN  \E note \in {NoNote} \cup (IF "own" \in Cases THEN {wl} ELSE {}) :
           new' = Append(new, Commit(v, i, note, IF note = NoNote THEN wl ELSE NoCredit))
  /\ who' = [who EXCEPT ![l] = a]
  /\ left' = left \ {i}
  /\ UNCHANGED <<old, onto, phase>>

EndRebase ==
  /\ phase = "rebase" /\ left = {}
  /\ phase' = "ended"
  /\ UNCHANGED <<who, old, onto, left, new>>

-----------------------------------------------------------------------------
(* build_rebase_commit_mappings: which new commits the rebase made.        *)

\* When the branch did not move the target is the merge base: the walk takes
\* no more commits from the new head than the branch had.
NewCommits ==
  IF onto = Base /\ Len(new) > Len(old)
  THEN SubSeq(new, Len(new) - Len(old) + 1, Len(new))
  ELSE new

\* How many commits of the rebase the walk leaves out.
NotWalked == Len(new) - Len(NewCommits)

\* The version before the k-th commit the walk takes.
Parent(k) == VersionOf(new, onto, NotWalked + k - 1)

(* pair_commits_for_rewrite: the old commit of each new one, 0 for none.   *)

Least(s) == IF s = {} THEN 0 ELSE CHOOSE i \in s : \A j \in s : i <= j

\* By position when there are as many; else the first unused commit with the
\* same subject, or the first unused one.
PairCommits(ns) ==
  LET Match(used, c) ==
        LET free == DOMAIN old \ Range(used)
            same == {i \in free : old[i].subject = c.subject}
        IN  Append(used, IF same # {} THEN Least(same) ELSE Least(free))
  IN  IF Len(ns) = Len(old) THEN [k \in DOMAIN ns |-> k]
                            ELSE FoldLeft(Match, <<>>, ns)

-----------------------------------------------------------------------------
(* rewrite_authorship_after_rebase_v2.                                     *)

\* New commits that already have a note with attestations are left alone,
\* unless commits were melded or dropped.
ToProcess(ns) ==
  {k \in DOMAIN ns : Len(old) > Len(ns) \/ ~HasAttestations(ns[k])}

\* The files the old notes name.
TrackedFiles ==
  {p[1] : p \in UNION {DOMAIN old[i].note : i \in {j \in DOMAIN old : HasAttestations(old[j])}}}

TrackedPathsMatch(c, d) == ChangedFiles(c.ver, d.ver) \cap TrackedFiles = {}

\* try_fast_path_rebase_note_remap_cached: every new commit holds what its
\* old one held, in the files the notes name, and every old one has a note.
FastPath(ns, todo) ==
  /\ Len(ns) = Len(old)
  /\ \A k \in todo : TrackedPathsMatch(old[k], ns[k]) /\ old[k].note # NoNote

\* remap_notes_for_commit_pairs: the old commit's note, with its line numbers
\* as they are.
Remapped(pairs, k, note) ==
  IF pairs[k] # 0 /\ old[pairs[k]].note # NoNote THEN old[pairs[k]].note ELSE note

\* try_reconstruct_attributions_from_notes_cached: each old commit's hunks
\* move what is known so far and its note is laid over it.  Hunks were read
\* for the old commits that are paired with a commit to process.
ReplayNotes(hunked) ==
  LET Step(att, i) ==
        LET moved == IF i \in hunked
                     THEN ApplyHunks(att, VersionOf(old, Base, i - 1), old[i].ver) ELSE att
        IN  IF old[i].note = NoNote THEN moved ELSE old[i].note @@ moved
  IN  FoldLeft(Step, NoCredit, [i \in DOMAIN old |-> i])

\* The blame that is used when no attribution is left: the lines of the old
\* head that the note of the commit they came with credits.
BlameOldHead ==
  LET from(l)  == CHOOSE i \in DOMAIN old : l \in Added(i)
      noted(l) == IF old[from(l)].note = NoNote THEN {}
                  ELSE Credited(old[from(l)].note, old[from(l)].ver, l)
      lines    == {l \in OldHead \ Base : FileOf[l] \in TrackedFiles /\ noted(l) # {}}
  IN  CreditOf(OldHead, lines, [l \in lines |-> CHOOSE a \in noted(l) : TRUE])

AtOldHead(hunked) ==
  IF ReplayNotes(hunked) = NoCredit THEN BlameOldHead ELSE ReplayNotes(hunked)

\* original_head_line_to_author: the agent of a line with this text.
Remembered(head) == {l \in OldHead : Place(OldHead, l) \in DOMAIN head}

\* (mutant) Lines are never looked up by their text.
RestoredNothing(head, v, ls) == NoCredit

Restored(head, v, ls) ==
  LET known == ls \cap Remembered(head)
  IN  CreditOf(v, known, [l \in known |-> head[Place(OldHead, l)]])

\* The note of a commit speaks of the files the commit changed.
NoteOf(att, changed) == Only(att, changed)

(***************************************************************************)
(* One turn of the loop over the new commits.  For each file it changes    *)
(* the commit                                                              *)
(*  - that removes the file forgets all about it;                          *)
(*  - that is the first to change it, compares it with the old head, or    *)
(*    looks its lines up by their text when nothing is known of the file;  *)
(*  - that changes it again, moves the attribution with its hunks and      *)
(*    looks the added lines up by their text.                              *)
(***************************************************************************)
Transfer(st, head, k, c) ==
  LET changed == ChangedFiles(Parent(k), c.ver) \cap TrackedFiles
      gone    == {f \in changed : Part(c.ver, f) = {}}
      again   == (changed \cap st.synced) \ gone
      first   == changed \ (gone \cup st.synced)
      known   == {f \in first \ st.forgotten :
                    Part(OldHead, f) # {} /\ \E p \in DOMAIN st.att : p[1] = f}
      moved   == Restored(head, c.ver, {l \in c.ver \ Parent(k) : FileOf[l] \in again})
                   @@ ApplyHunks(Only(st.att, again), Parent(k), c.ver)
      equal   == TransferEqual(Only(st.att, known), OldHead, c.ver)
      byText  == Restored(head, c.ver, {l \in c.ver : FileOf[l] \in first \ known})
      att     == moved @@ equal @@ byText @@ Without(st.att, changed)
  IN  [att |-> att, synced |-> (st.synced \ gone) \cup first,
       forgotten |-> st.forgotten \cup gone,
       notes |-> Append(st.notes, NoteOf(att, changed)),
       wls   |-> Append(st.wls, Only(c.wl, changed))]

\* The loop passes over the commits that are not to be processed.
Loop(ns, todo, head) ==
  LET Step(st, k) ==
        IF k \in todo THEN Transfer(st, head, k, ns[k])
        ELSE [st EXCEPT !.notes = Append(@, NoCredit), !.wls = Append(@, NoCredit)]
  IN  FoldLeft(Step, [att |-> head, synced |-> {}, forgotten |-> {}, notes |-> <<>>, wls |-> <<>>],
               [k \in DOMAIN ns |-> k])

\* The note of each new commit: what the loop found, else what the working
\* log of its parent says of an agent's resolution, else the old note.
SlowPath(ns, todo, pairs) ==
  LET head == AtOldHead({pairs[k] : k \in todo})
      done == Loop(ns, todo, head)
  IN  [k \in DOMAIN ns |->
         IF k \notin todo THEN ns[k].note
         ELSE IF done.notes[k] # NoCredit THEN done.notes[k]
         ELSE IF done.wls[k] # NoCredit THEN done.wls[k]
         ELSE Remapped(pairs, k, ns[k].note)]

RewrittenNotes(ns) ==
  LET todo  == ToProcess(ns)
      pairs == PairCommits(ns)
  IN  IF TrackedFiles = {} \/ FastPath(ns, todo)
      THEN [k \in DOMAIN ns |-> IF k \in todo THEN Remapped(pairs, k, ns[k].note) ELSE ns[k].note]
      ELSE SlowPath(ns, todo, pairs)

\* The daemon handles the end of the rebase.
RewriteAfterRebase ==
  /\ phase = "ended"
  /\ phase' = "rewritten"
  /\ LET notes == RewrittenNotes(NewCommits)
     IN  new' = [k \in DOMAIN new |->
                   IF k <= NotWalked THEN new[k]
                   ELSE [new[k] EXCEPT !.note = notes[k - NotWalked]]]
  /\ UNCHANGED <<who, old, onto, left>>

-----------------------------------------------------------------------------
Next ==
  \/ CommitToBranch \/ CommitToTarget \/ StartRebase
  \/ \E i \in left : Pick(i) \/ Drop(i) \/ Meld(i) \/ Split(i)
  \/ \E i \in left, a \in Authors, l \in Unwritten :
       \E gone \in SUBSET Added(i) : Change(i, a, l, gone)
  \/ EndRebase \/ RewriteAfterRebase

Spec == Init /\ [][Next]_vars

-----------------------------------------------------------------------------
\* The lines the k-th new commit brings in.
Introduced(k) == new[k].ver \ VersionOf(new, onto, k - 1)

NotedFor(k, l) ==
  IF new[k].note = NoNote THEN {} ELSE Credited(new[k].note, new[k].ver, l)

\* Every line that an agent wrote is credited to it by the note of the
\* rewritten commit that brings the line in: a rebase loses nothing.
KeepsCredit ==
  phase = "rewritten" =>
    \A k \in DOMAIN new : \A l \in Introduced(k) :
      who[l] \in Agents => NotedFor(k, l) = {who[l]}

\* No line that a person wrote is credited to an agent by the note of the
\* rewritten commit that brings the line in: the line numbers of the notes
\* are those of the new versions.
PeopleKeepTheirs ==
  phase = "rewritten" =>
    \A k \in DOMAIN new : \A l \in Introduced(k) :
      who[l] = "human" => NotedFor(k, l) = {}

\* The note of a rewritten commit is about lines that the commit holds, and
\* credits each with the agent that wrote it.
NotesAreAboutTheCommit ==
  phase = "rewritten" =>
    \A k \in DOMAIN new :
      new[k].note # NoNote =>
        \A p \in DOMAIN new[k].note :
          \E l \in LineAt(new[k].ver, p) : who[l] = new[k].note[p]
=============================================================================
