----------------------------- MODULE WorkingLog -----------------------------
(***************************************************************************)
(* The working log of a repository: what checkpoints record about one file *)
(* between two commits, and how a commit turns it into an authorship note  *)
(* and into the INITIAL attributions of the next working log.  Agents run  *)
(* a checkpoint before and after their edit, an editor runs one when the   *)
(* user saves, `git commit` runs one before git and processes the log      *)
(* after it.  Each is a process of its own; the log's lock file, its       *)
(* rewrite in two steps and the reads outside the lock are modelled.       *)
(*                                                                         *)
(* A line of the file is a number that stands for its text; the file shows *)
(* its lines in increasing order, so the n-th line of a content S is       *)
(* LineAt(S, n).  Attributions are functions from lines to authors.        *)
(***************************************************************************)
EXTENDS Integers, Sequences, FiniteSets, SequencesExt, FiniteSetsExt

CONSTANTS
    Lines,       \* the texts a line of the file may have, numbers
    Agents,      \* agent sessions that edit the file
    Marks,       \* those whose tool marks its edits (codebuddy, qoder, trae)
    Returns,     \* BOOLEAN: a text that was taken out may be put in again
    Overlap,     \* the processes whose checkpoints may run during a commit
    Typing,      \* how busy the user may type: "idle" when nothing runs,
                 \* "checkpoint" while checkpoints run, "commit" always
    SaveDelays,  \* BOOLEAN: a save is checkpointed with the text of its event
    MaxEdits,    \* bound on the edits of the file
    MaxCommits,  \* bound on the commits
    MaxFaults    \* bound on killed processes and lock timeouts

Editor == "editor"
Committer == "commit"
Human == "human"   \* a checkpoint nobody vouches for
Known == "known"   \* a save event of an editor, a known human
Nobody == "nobody" \* who holds a lock that is free
Procs == Agents \cup {Editor, Committer}
Authors == Agents \cup {Human, Known}
Commits == 0..MaxCommits

ASSUME LinesAssumption == Lines \subseteq Nat /\ IsFiniteSet(Lines)
ASSUME AgentsAssumption ==
    /\ Marks \subseteq Agents
    /\ {Editor, Committer, Human, Known, Nobody} \cap Agents = {}
ASSUME FlagsAssumption ==
    /\ {Returns, SaveDelays} \subseteq BOOLEAN /\ Overlap \subseteq Procs
    /\ Typing \in {"idle", "checkpoint", "commit"}
ASSUME BoundsAssumption == {MaxEdits, MaxCommits, MaxFaults} \subseteq Nat

VARIABLES
    content,   \* the lines of the file in the working directory
    wrote,     \* ghost: who put each line there
    edits,     \* edits so far
    tree,      \* per commit, the lines of the file and who wrote them
    log,       \* per base commit, its working log
    lock,      \* per base commit, the holder of working_log.lock
    proc,      \* per process, where it is and what it has read
    note,      \* per commit, its note if any: the authors of its lines
    appended,  \* ghost: per base commit, the checkpoints written to its log
    faults     \* killed processes and timeouts so far

vars == <<content, wrote, edits, tree, log, lock, proc, note, appended, faults>>

NoAttr == <<>>
NoInitial == [content |-> {}, attr |-> NoAttr]

\* A directory working_logs/<sha>: checkpoints.jsonl (a line of it may be cut
\* off), INITIAL with its snapshot, and the marker of an active agent edit.
EmptyLog == [cps |-> <<>>, cut |-> FALSE, init |-> NoInitial, marked |-> FALSE]

Idle == [pc |-> "idle", kind |-> Human, base |-> 0, text |-> {}, skip |-> FALSE,
         cps |-> <<>>, blob |-> {}, write |-> <<>>, note |-> NoAttr,
         init |-> NoInitial]

head == Len(tree) - 1
TreeOf(c) == tree[c + 1].lines

Init ==
    /\ content = {} /\ wrote = [x \in Lines |-> Human] /\ edits = 0
    /\ tree = <<[lines |-> {}, by |-> wrote]>>
    /\ log = [c \in Commits |-> EmptyLog]
    /\ lock = [c \in Commits |-> Nobody]
    /\ proc = [p \in Procs |-> Idle]
    /\ note = [c \in Commits |-> {}]
    /\ appended = [c \in Commits |-> {}]
    /\ faults = 0

-----------------------------------------------------------------------------
(* What a checkpoint records.                                              *)

IsAi(kind) == kind \in Agents
LineAt(S, n) == CHOOSE x \in S : Cardinality({y \in S : y <= x}) = n
NumberIn(S, x) == Cardinality({y \in S : y <= x})

AuthorOf(attr, x) == IF x \in DOMAIN attr THEN attr[x] ELSE Human

\* The lines both contents have keep their author, the others are the
\* checkpoint's; what had no author counts as human.
UpdateAttributions(prev, attr, text, author) ==
    [x \in text |-> IF x \in prev THEN AuthorOf(attr, x) ELSE author]

\* Human lines are stripped from the line attributions.
LineAttributions(attr) ==
    [x \in {y \in DOMAIN attr : attr[y] # Human} |-> attr[x]]

AiTouched(cps, init) ==
    \/ init.attr # NoAttr
    \/ \E i \in DOMAIN cps :
          \/ IsAi(cps[i].kind)
          \/ \E x \in DOMAIN cps[i].lines : cps[i].lines[x] \in Agents

\* The state the first checkpoint of a log starts from: INITIAL on its
\* snapshot, else HEAD.  An agent's checkpoint also takes the line numbers that
\* neither INITIAL nor HEAD has.
FromInitial(kind, head_lines, init, text) ==
    IF init.attr = NoAttr THEN [blob |-> head_lines, attr |-> NoAttr]
    ELSE LET covered == {NumberIn(init.content, x) : x \in DOMAIN init.attr}
             taken == {x \in init.content :
                          LET n == NumberIn(init.content, x)
                          IN  /\ IsAi(kind) /\ n \notin covered
                              /\ n > Cardinality(head_lines)
                              /\ n <= Cardinality(text)}
         IN  [blob |-> init.content,
              attr |-> [x \in taken \cup DOMAIN init.attr |->
                           IF x \in DOMAIN init.attr THEN init.attr[x] ELSE kind]]

\* (mutant) INITIAL is not looked at.
PreviousNoInitial(kind, head_lines, cps, init, text) ==
    IF cps = <<>> THEN [blob |-> head_lines, attr |-> NoAttr]
    ELSE [blob |-> Last(cps).blob, attr |-> Last(cps).attr]

Previous(kind, head_lines, cps, init, text) ==
    IF cps = <<>> THEN FromInitial(kind, head_lines, init, text)
    ELSE [blob |-> Last(cps).blob, attr |-> Last(cps).attr]

\* The entry of the file, none when there is nothing to record.
CheckpointEntry(kind, pre, head_lines, cps, init, blob, text) ==
    LET prev    == Previous(kind, head_lines, cps, init, text)
        touched == AiTouched(cps, init)
        attr    == IF kind = Human /\ ~touched THEN NoAttr
                   ELSE UpdateAttributions(prev.blob, prev.attr, text, kind)
        same    == text = prev.blob
                   /\ (cps # <<>> \/ init.attr = NoAttr)
    IN  IF same \/ (pre /\ kind = Human /\ ~touched) THEN <<>>
        ELSE <<[kind |-> kind, blob |-> blob, attr |-> attr,
                lines |-> LineAttributions(attr),
                added |-> Cardinality(text \ prev.blob),
                deleted |-> Cardinality(prev.blob \ text)]>>

DedupeKey(cp) == <<cp.kind, cp.blob, cp.added, cp.deleted>>

\* Only the newest entry of the file keeps its character attributions.
PruneOldCharAttributions(cps) ==
    [i \in DOMAIN cps |-> IF i = Len(cps) THEN cps[i]
                          ELSE [cps[i] EXCEPT !.attr = NoAttr]]

RecentAiSnapshot(cps, blob) ==
    \E i \in DOMAIN cps : IsAi(cps[i].kind) /\ cps[i].blob = blob

-----------------------------------------------------------------------------
(* Edits.                                                                  *)

CommitRuns == proc[Committer].pc # "idle"

Add(by, x) ==
    /\ edits < MaxEdits /\ x \in Lines \ content
    /\ Returns \/ wrote[x] = Human
    /\ content' = content \cup {x}
    /\ wrote' = [wrote EXCEPT ![x] = by]
    /\ edits' = edits + 1

\* The user types while no agent edits.
MayType ==
    /\ \A a \in Agents : proc[a].pc \notin {"hooked", "edited"}
    /\ CommitRuns => Typing = "commit"
    /\ Typing # "idle" \/ \A p \in Procs : proc[p].pc = "idle"

HumanAdds(x) ==
    /\ MayType
    /\ Add(Known, x)
    /\ UNCHANGED <<tree, log, lock, proc, note, appended, faults>>

HumanRemoves(x) ==
    /\ MayType /\ edits < MaxEdits /\ x \in content
    /\ content' = content \ {x} /\ edits' = edits + 1
    /\ UNCHANGED <<wrote, tree, log, lock, proc, note, appended, faults>>

AgentEdits(a, x) ==
    /\ proc[a].pc = "hooked" /\ ~CommitRuns
    /\ Add(a, x)
    /\ proc' = [proc EXCEPT ![a].pc = "edited"]
    /\ UNCHANGED <<tree, log, lock, note, appended, faults>>

-----------------------------------------------------------------------------
(* A checkpoint: resolve, lock, read, compute, rewrite, release.           *)

\* Where a process goes when its checkpoint has ended.
AfterCheckpoint(p, kind) ==
    CASE p \in Agents /\ kind = Human -> [Idle EXCEPT !.pc = "hooked"]
      [] p = Committer -> [Idle EXCEPT !.pc = "git"]
      [] OTHER -> Idle

MayStart(p) == p \in Overlap \/ ~CommitRuns

\* The base commit and the files are resolved before the lock is taken.
Resolve(p, kind) ==
    LET l == log[head]
        unseen == ~l.cut /\ \A i \in DOMAIN l.cps : ~IsAi(l.cps[i].kind)
        skipped == \/ content = TreeOf(head)
                   \/ p = Committer /\ (l.cut \/ unseen) /\ l.init.attr = NoAttr
    IN  proc' = [proc EXCEPT ![p] =
                    IF skipped /\ ~IsAi(kind) THEN AfterCheckpoint(p, kind)
                    ELSE [Idle EXCEPT !.pc = "lock", !.kind = kind, !.base = head,
                                      !.text = content, !.skip = skipped]]

\* The hook before an edit: the tool's marker, then a human checkpoint.
BeforeEdit(a) ==
    /\ proc[a].pc = "idle" /\ MayStart(a) /\ edits < MaxEdits
    /\ a \in Marks => lock[head] = Nobody
    /\ log' = [log EXCEPT ![head].marked = @ \/ a \in Marks]
    /\ Resolve(a, Human)
    /\ UNCHANGED <<content, wrote, edits, tree, lock, note, appended, faults>>

AfterEdit(a) ==
    /\ proc[a].pc = "edited"
    /\ Resolve(a, a)
    /\ UNCHANGED <<content, wrote, edits, tree, log, lock, note, appended, faults>>

Save ==
    /\ proc[Editor].pc = "idle" /\ MayStart(Editor)
    /\ Resolve(Editor, Known)
    /\ proc'[Editor].pc = "lock"
    /\ UNCHANGED <<content, wrote, edits, tree, log, lock, note, appended, faults>>

CommitStarts ==
    /\ proc[Committer].pc = "idle" /\ head < MaxCommits
    /\ content # TreeOf(head)
    /\ \A p \in Procs : \/ proc[p].pc = "idle"
                        \/ p \in Overlap /\ proc[p].pc \notin {"hooked", "edited"}
    /\ Resolve(Committer, Human)
    /\ UNCHANGED <<content, wrote, edits, tree, log, lock, note, appended, faults>>

\* (mutant) The lock file is opened and not locked.
AcquireAnyway(p) ==
    /\ proc[p].pc = "lock"
    /\ lock' = [lock EXCEPT ![proc[p].base] = p]
    /\ proc' = [proc EXCEPT ![p].pc = "read"]
    /\ UNCHANGED <<content, wrote, edits, tree, log, note, appended, faults>>

Acquire(p) ==
    /\ proc[p].pc = "lock" /\ lock[proc[p].base] = Nobody
    /\ lock' = [lock EXCEPT ![proc[p].base] = p]
    /\ proc' = [proc EXCEPT ![p].pc = "read"]
    /\ UNCHANGED <<content, wrote, edits, tree, log, note, appended, faults>>

\* Release the lock and return.
Leave(p) ==
    /\ lock' = [lock EXCEPT ![proc[p].base] = Nobody]
    /\ proc' = [proc EXCEPT ![p] = AfterCheckpoint(p, @.kind)]

\* The text a process sees: that of its event, or the file.
TextOf(p) == IF SaveDelays /\ p = Editor THEN proc[p].text ELSE content

Rejects(p) ==
    LET l == log[proc[p].base]
    IN  proc[p].kind = Known
        /\ (l.marked \/ RecentAiSnapshot(l.cps, TextOf(p)))

\* Read the checkpoints, reject a known human's save, store the file's blob.
ReadAndSave(p) ==
    /\ proc[p].pc = "read"
    /\ IF log[proc[p].base].cut \/ Rejects(p) THEN Leave(p)
       ELSE /\ proc' = [proc EXCEPT ![p].pc = "entries", ![p].blob = TextOf(p),
                                    ![p].cps = log[proc[p].base].cps]
            /\ UNCHANGED lock
    /\ UNCHANGED <<content, wrote, edits, tree, log, note, appended, faults>>

\* The file is read again, its entry computed and, unless an equal checkpoint
\* is in the log, checkpoints.jsonl truncated to be written anew.
Entries(p) ==
    LET me == proc[p]
        l  == log[me.base]
        cp == CheckpointEntry(me.kind, p = Committer, TreeOf(me.base), me.cps,
                              l.init, me.blob, TextOf(p))
        known == cp # <<>> /\ \E i \in DOMAIN l.cps : DedupeKey(l.cps[i]) = DedupeKey(cp[1])
    IN  /\ me.pc = "entries"
        /\ IF me.skip \/ cp = <<>> \/ known
           THEN proc' = [proc EXCEPT ![p].pc = "clear"] /\ UNCHANGED log
           ELSE /\ proc' = [proc EXCEPT ![p].pc = "write",
                               ![p].write = PruneOldCharAttributions(l.cps \o cp)]
                /\ log' = [log EXCEPT ![me.base].cps = <<>>]
        /\ UNCHANGED <<content, wrote, edits, tree, lock, note, appended, faults>>

Write(p) ==
    /\ proc[p].pc = "write"
    /\ log' = [log EXCEPT ![proc[p].base].cps = proc[p].write]
    /\ appended' = [appended EXCEPT ![proc[p].base] =
                       @ \cup {DedupeKey(Last(proc[p].write))}]
    /\ proc' = [proc EXCEPT ![p].pc = "clear"]
    /\ UNCHANGED <<content, wrote, edits, tree, lock, note, faults>>

\* An agent's checkpoint clears the marker of the file, whoever set it.
Clear(p) ==
    /\ proc[p].pc = "clear"
    /\ log' = [log EXCEPT ![proc[p].base].marked = @ /\ ~IsAi(proc[p].kind)]
    /\ Leave(p)
    /\ UNCHANGED <<content, wrote, edits, tree, note, appended, faults>>

-----------------------------------------------------------------------------
(* The commit and its post-processing.                                     *)

\* git commits the staged lines; what HEAD had and is still there stays.
GitCommit(staged) ==
    /\ proc[Committer].pc = "git"
    /\ TreeOf(head) \cap content \subseteq staged
    /\ staged # TreeOf(head)
    /\ tree' = Append(tree, [lines |-> staged, by |-> wrote])
    /\ proc' = [proc EXCEPT ![Committer].pc = "refresh", ![Committer].base = head]
    /\ UNCHANGED <<content, wrote, edits, log, lock, note, appended, faults>>

\* mutate_all_checkpoints: under the lock, read, refresh the prompts, truncate.
Refresh(p) ==
    LET b == proc[p].base
    IN  /\ proc[p].pc = "refresh" /\ lock[b] = Nobody
        /\ IF log[b].cut
           THEN proc' = [proc EXCEPT ![p] = Idle] /\ UNCHANGED <<log, lock>>
           ELSE /\ lock' = [lock EXCEPT ![b] = p]
                /\ proc' = [proc EXCEPT ![p].pc = "rewrite", ![p].write = log[b].cps]
                /\ log' = [log EXCEPT ![b].cps = <<>>]
        /\ UNCHANGED <<content, wrote, edits, tree, note, appended, faults>>

Rewrite(p) ==
    LET b == proc[p].base
    IN  /\ proc[p].pc = "rewrite"
        /\ log' = [log EXCEPT ![b].cps = proc[p].write]
        /\ lock' = [lock EXCEPT ![b] = IF @ = p THEN Nobody ELSE @]
        /\ proc' = [proc EXCEPT ![p].pc = "attribute"]
        /\ UNCHANGED <<content, wrote, edits, tree, note, appended, faults>>

\* from_just_working_log: the last checkpoint that has attributions decides, and
\* INITIAL when none has.
VirtualAttributions(cps, init) ==
    LET telling == {i \in DOMAIN cps : cps[i].attr # NoAttr \/ cps[i].lines # NoAttr}
    IN  IF telling = {} THEN init.attr ELSE cps[Max(telling)].lines

Only(attr, S) == [x \in DOMAIN attr \cap S |-> attr[x]]

\* The log is read again, without its lock and without a complaint when it
\* cannot be read.  The lines the commit added go into the note, the unstaged
\* ones into INITIAL.
Attribute(p) ==
    LET l  == log[proc[p].base]
        va == VirtualAttributions(IF l.cut THEN <<>> ELSE l.cps, l.init)
    IN  /\ proc[p].pc = "attribute"
        /\ proc' = [proc EXCEPT ![p].pc = "note",
              ![p].note = Only(va, TreeOf(head) \ TreeOf(proc[p].base)),
              ![p].init = [content |-> content,
                           attr |-> Only(va, content \ TreeOf(head))]]
        /\ UNCHANGED <<content, wrote, edits, tree, log, lock, note, appended, faults>>

\* (mutant) A commit without attributed lines gets no note.
AddNoteIfAny(p) ==
    /\ proc[p].pc = "note"
    /\ note' = [note EXCEPT ![head] =
                   IF proc[p].note = NoAttr THEN {} ELSE {proc[p].note}]
    /\ proc' = [proc EXCEPT ![p].pc = "initial"]
    /\ UNCHANGED <<content, wrote, edits, tree, log, lock, appended, faults>>

AddNote(p) ==
    /\ proc[p].pc = "note"
    /\ note' = [note EXCEPT ![head] = {proc[p].note}]
    /\ proc' = [proc EXCEPT ![p].pc = "initial"]
    /\ UNCHANGED <<content, wrote, edits, tree, log, lock, appended, faults>>

WriteInitial(p) ==
    /\ proc[p].pc = "initial"
    /\ IF proc[p].init.attr = NoAttr THEN UNCHANGED log
       ELSE /\ lock[head] = Nobody
            /\ log' = [log EXCEPT ![head].init = proc[p].init]
    /\ proc' = [proc EXCEPT ![p].pc = "archive"]
    /\ UNCHANGED <<content, wrote, edits, tree, lock, note, appended, faults>>

\* The log of the parent is moved to old-<sha>.
Archive(p) ==
    LET b == proc[p].base
    IN  /\ proc[p].pc = "archive" /\ lock[b] = Nobody
        /\ log' = [log EXCEPT ![b] = EmptyLog]
        /\ appended' = [appended EXCEPT ![b] = {}]
        /\ proc' = [proc EXCEPT ![p] = Idle]
        /\ UNCHANGED <<content, wrote, edits, tree, lock, note, faults>>

-----------------------------------------------------------------------------
(* Faults.                                                                 *)

\* A process is killed: its lock goes, and a file it was writing stays empty
\* or ends in the middle of a line.
Killed(p) ==
    LET b == proc[p].base
    IN  /\ proc[p].pc # "idle" /\ faults < MaxFaults
        /\ faults' = faults + 1
        /\ proc' = [proc EXCEPT ![p] = Idle]
        /\ lock' = [c \in Commits |-> IF lock[c] = p THEN Nobody ELSE lock[c]]
        /\ IF proc[p].pc \in {"write", "rewrite"}
           THEN \E cut \in BOOLEAN : log' = [log EXCEPT ![b].cut = cut]
           ELSE UNCHANGED log
        /\ UNCHANGED <<content, wrote, edits, tree, note, appended>>

\* The lock is not had within thirty seconds: the command fails.
LockTimeout(p) ==
    /\ proc[p].pc \in {"lock", "refresh", "archive"} /\ faults < MaxFaults
    /\ lock[proc[p].base] # Nobody
    /\ faults' = faults + 1
    /\ proc' = [proc EXCEPT ![p] = IF @.pc = "lock" THEN AfterCheckpoint(p, @.kind)
                                   ELSE Idle]
    /\ UNCHANGED <<content, wrote, edits, tree, log, lock, note, appended>>

-----------------------------------------------------------------------------
Checkpoint(p) ==
    Acquire(p) \/ ReadAndSave(p) \/ Entries(p) \/ Write(p) \/ Clear(p)

PostCommit(p) ==
    \/ Refresh(p) \/ Rewrite(p) \/ Attribute(p)
    \/ AddNote(p) \/ WriteInitial(p) \/ Archive(p)

Next ==
    \/ \E x \in Lines : HumanAdds(x) \/ HumanRemoves(x)
    \/ \E a \in Agents : BeforeEdit(a) \/ AfterEdit(a)
    \/ \E a \in Agents, x \in Lines : AgentEdits(a, x)
    \/ Save
    \/ CommitStarts
    \/ \E p \in Procs : Checkpoint(p)
    \/ \E staged \in SUBSET content : GitCommit(staged)
    \/ PostCommit(Committer)
    \/ \E p \in Procs : Killed(p) \/ LockTimeout(p)

Spec == Init /\ [][Next]_vars

\* Processes go on by themselves; one that waits for the lock tries again and
\* again and gets it when it is free often enough; git ends its commit.
Fairness ==
    /\ \A p \in Procs : WF_vars(ReadAndSave(p) \/ Entries(p) \/ Write(p) \/ Clear(p))
    /\ \A p \in Procs : SF_vars(Acquire(p))
    /\ WF_vars(\E staged \in SUBSET content : GitCommit(staged))
    /\ SF_vars(PostCommit(Committer))

FairSpec == Spec /\ Fairness

-----------------------------------------------------------------------------
(* Properties.                                                             *)

Attributions == UNION {[S -> Authors] : S \in SUBSET Lines}

TypeOK ==
    /\ content \subseteq Lines
    /\ wrote \in [Lines -> Authors]
    /\ edits \in 0..MaxEdits /\ faults \in 0..MaxFaults
    /\ \A c \in Commits :
          /\ lock[c] \in Procs \cup {Nobody}
          /\ note[c] \subseteq Attributions
          /\ log[c].init.attr \in Attributions
          /\ \A i \in DOMAIN log[c].cps :
                /\ log[c].cps[i].attr \in Attributions
                /\ log[c].cps[i].blob \subseteq Lines
    /\ \A p \in Procs : proc[p].base \in 0..head

\* Every line a commit adds and an agent has written is an agent's in the note
\* of that commit, whether it was staged when it was written or carried through
\* the INITIAL file of an earlier commit, unless a process was killed or gave
\* up waiting for the lock.
AiLinesNoted ==
    faults = 0 => \A c \in 1..head : \A n \in note[c], x \in TreeOf(c) \ TreeOf(c - 1) :
        tree[c + 1].by[x] \in Agents => x \in DOMAIN n /\ n[x] \in Agents

\* A checkpoint that was written to a log is in it as long as nobody is
\* rewriting it: neither another checkpoint nor the refresh of the prompts
\* after a commit has dropped it.  (A process that is killed while it writes
\* leaves a broken log.)
AppendsKept ==
    \A c \in Commits : faults = 0 /\ lock[c] = Nobody =>
        appended[c] \subseteq {DedupeKey(log[c].cps[i]) : i \in DOMAIN log[c].cps}

\* A save that is turned down because its text is a recent snapshot of an agent
\* holds no change since the last checkpoint: no edit of the user is passed over.
NoEditPassedOver ==
    LET l == log[proc[Editor].base]
    IN  /\ proc[Editor].pc = "read" /\ ~l.cut /\ ~l.marked
        /\ RecentAiSnapshot(l.cps, TextOf(Editor))
        => Last(l.cps).blob = TextOf(Editor)

\* A checkpoint that is dropped because the log has an equal one repeats the
\* last: nothing has changed since, so dropping it loses nothing.
DuplicatesAreRepeats ==
    \A p \in Procs :
        LET me == proc[p]
            cp == CheckpointEntry(me.kind, p = Committer, TreeOf(me.base), me.cps,
                                  log[me.base].init, me.blob, TextOf(p))
        IN  me.pc = "entries" /\ ~me.skip /\ cp # <<>> =>
                \A i \in DOMAIN me.cps :
                    DedupeKey(me.cps[i]) = DedupeKey(cp[1]) =>
                        Last(me.cps).blob = me.blob

\* A commit whose processes live and get the lock in time is noted.
CommitsNoted ==
    \A c \in 1..MaxCommits : (head = c) ~> (note[c] # {} \/ faults > 0)
=============================================================================
