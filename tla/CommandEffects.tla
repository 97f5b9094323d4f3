--------------------------- MODULE CommandEffects ---------------------------
(***************************************************************************)
(* What the daemon does to the working logs when git moves HEAD or the     *)
(* worktree: commit, checkout and switch, pull, reset and stash.  A user   *)
(* runs commands and agents edit files; each sends the daemon an event,    *)
(* and the daemon applies the events in order, later.  A working log       *)
(* belongs to the commit that was HEAD when an edit was made, so every one *)
(* of these commands has to carry the attributions of uncommitted lines to *)
(* the log of the HEAD it leaves behind.                                   *)
(*                                                                         *)
(* A line is a number that stands for its text, and a file shows its lines *)
(* in increasing order.  An entry of a log is a text and the lines of it   *)
(* that are an agent's.  The log keeps line NUMBERS: an entry read against *)
(* another text than its own claims whatever stands there (Misread), while *)
(* the attribution tracker follows the text (Aligned).                     *)
(***************************************************************************)
EXTENDS Integers, Sequences, FiniteSets, SequencesExt, FiniteSetsExt, Functions

CONSTANTS
    Files,       \* the files of the repository
    Sessions,    \* the sets of commands of which a user mixes one
    Cases,       \* the unusual situations that may arise, see below
    MaxLine,     \* bound on the lines ever written
    MaxCommit,   \* bound on the commits; 1 is the root, 2 its published child
    MaxMoves     \* bound on the commands that are no commit

Lines == 1..MaxLine
Commits == 1..MaxCommit
Stashes == 1..MaxMoves
AllCommands == {"commit", "amend", "checkout", "force", "merge", "paths", "pull",
                "soft", "hard", "unstage", "stash"}

\* "lag": a command runs while the daemon has events to apply;
\* "type": the user types a line no checkpoint has seen;
\* "dirty": a reset that moves HEAD finds uncommitted lines;
\* "again": a reset that does not move HEAD follows one that did;
\* "clear": a hard reset that does not move HEAD finds uncommitted lines;
\* "beside": a commit is amended with a file that has no entry while the log
\*           tracks another one;
\* "shift": a stash is taken of a file whose entry shows another text;
\* "over": a stash is popped while the log already says something else.
AllCases == {"lag", "type", "dirty", "again", "clear", "beside",
             "shift", "over"}

ASSUME SessionsAssumption == Sessions \subseteq SUBSET AllCommands
ASSUME CasesAssumption == Cases \subseteq AllCases
ASSUME BoundsAssumption == {MaxLine, MaxMoves} \subseteq Nat /\ MaxCommit \in 2..9

VARIABLES
    head,      \* the commit HEAD is at
    made,      \* the commits made so far are 1..made
    tree,      \* per commit, the lines of each file
    parent,    \* per commit, its parent, 0 for none
    wt,        \* the lines of each file of the worktree
    written,   \* the lines ever written
    ai,        \* ghost: those an agent wrote
    log,       \* per commit, working_logs/<sha>
    note,      \* per commit, the agents' lines its note names, by file
    stash,     \* the stash commits: what each holds and its ai-stash note
    popped,    \* the stashes that were popped
    queue,     \* the events the daemon has not applied yet
    recent,    \* recent_replay_prerequisites_by_family, oldest first
    resets,    \* rewrite log: per commit, where the last reset to it came from
    cameFrom,  \* HEAD reflog: per commit, the last HEAD that moved there
    origHead,  \* ORIG_HEAD, 0 for none
    moves,     \* commands so far that are no commit
    commands   \* the commands this user runs

git == <<head, made, tree, parent, wt, written, ai, cameFrom, origHead, moves>>
daemon == <<log, note, recent, resets>>
vars == <<git, daemon, stash, popped, queue, commands>>

Nothing == <<>>   \* the function of no file: no entries, or no snapshot
NoLog == [dir |-> FALSE, init |-> Nothing, cps |-> Nothing]

Init ==
    /\ head = 1 /\ made = 2
    /\ tree = [c \in Commits |-> [f \in Files |-> {}]]
    /\ parent = [c \in Commits |-> IF c = 2 THEN 1 ELSE 0]
    /\ wt = tree[1]
    /\ written = {} /\ ai = {}
    /\ log = [c \in Commits |-> NoLog]
    /\ note = [c \in Commits |-> [f \in Files |-> {}]]
    /\ stash = <<>> /\ popped = {}
    /\ queue = <<>> /\ recent = <<>>
    /\ resets = [c \in Commits |-> 0]
    /\ cameFrom = [c \in Commits |-> 0] /\ origHead = 0
    /\ moves = 0
    /\ commands \in Sessions

-----------------------------------------------------------------------------
(* Working logs: a log has INITIAL and, per file, its latest checkpoint.   *)

Entry(text, lines) == [text |-> text, ai |-> lines]
RankIn(S, x) == Cardinality({y \in S : y <= x})

\* The lines of the text with the numbers the entry names.
Misread(e, text) ==
    LET numbers == {RankIn(e.text, x) : x \in e.ai}
    IN  Entry(text, {x \in text : RankIn(text, x) \in numbers})

\* (mutant) The line numbers stay while the text moves.
AlignedByNumber(e, text) == Misread(e, text)

\* The tracker moves the attributions from the entry's text to another one.
Aligned(e, text) == Entry(text, e.ai \cap text)

\* The latest checkpoint of a file replaces what INITIAL says of it.
Entries(l) ==
    [f \in DOMAIN l.init \cup DOMAIN l.cps |->
        IF f \in DOMAIN l.cps THEN l.cps[f] ELSE l.init[f]]

Tracked(l) == DOMAIN Entries(l)
Claimed(l, f) == IF f \in Tracked(l) THEN Entries(l)[f].ai ELSE {}

\* INITIAL names the files that have an agent's line, and no other.
WithAi(es) == Restrict(es, {f \in DOMAIN es : es[f].ai # {}})
WithInitial(l, es) == [l EXCEPT !.dir = TRUE, !.init = WithAi(es)]
Without(l, F) == [l EXCEPT !.dir = TRUE,
                           !.init = Restrict(@, DOMAIN @ \ F),
                           !.cps = Restrict(@, DOMAIN @ \ F)]

\* Only to a commit that has no log.
Renamed(L, old, new) ==
    IF L[old].dir /\ ~L[new].dir THEN [L EXCEPT ![new] = L[old], ![old] = NoLog]
    ELSE L

\* The directory is moved aside, to old-<sha>.
Archived(L, c) == [L EXCEPT ![c] = NoLog]

\* The entries of the log carried to another HEAD, for the files of the
\* snapshot and as the snapshot shows them; what that HEAD's log says fills in.
\* INITIAL is written anew.
Carried(L, es, new, S) ==
    LET there == Entries(L[new])
        Now(f) == (IF f \in DOMAIN es THEN Aligned(es[f], S[f]).ai ELSE {})
                     \cup (IF f \in DOMAIN there THEN Aligned(there[f], S[f]).ai
                           ELSE {})
        merged == [f \in DOMAIN S |-> Entry(S[f], Now(f))]
    IN  IF es = Nothing THEN L ELSE [L EXCEPT ![new] = WithInitial(@, merged)]

-----------------------------------------------------------------------------
(* The history.                                                            *)

Ancestors(c) ==
    LET up[k \in 0..MaxCommit] == IF k = 0 THEN {} ELSE {k} \cup up[parent[k]]
    IN  up[c]
IsAncestor(a, c) == a \in Ancestors(c)
ChangedFiles(a, c) == {f \in Files : tree[a][f] # tree[c][f]}
Dirty == {f \in Files : wt[f] # tree[head][f]}
Settled == queue = <<>>

\* The files of a snapshot: those the log of the HEAD before tracks when the
\* daemon learns that the command has ended.
Snapshot(old, F, text) == Restrict(text, Tracked(log[old]) \cap F)

-----------------------------------------------------------------------------
(* The daemon rebuilds the log of a commit that HEAD was reset to.         *)

\* The lines that the notes of the commits taken back claim.
NotedBetween(target, old, f) ==
    UNION {note[c][f] : c \in Ancestors(old) \ Ancestors(target)}

\* The log of the target starts anew from the log of the HEAD before, read by
\* line numbers against the final state, and from the notes taken back.  With
\* a snapshot only its files are looked at, else those that the notes name.
Reconstructed(L, target, old, F, S) ==
    LET files == {f \in ChangedFiles(target, old) \cap F :
                     NotedBetween(target, old, f) # {}}
        final == IF S # Nothing THEN S ELSE Restrict(wt, files)
        es == Entries(L[old])
        Now(f) == (IF f \in DOMAIN es THEN Misread(es[f], final[f]).ai ELSE {})
                     \cup (IF f \in files
                           THEN NotedBetween(target, old, f) \cap final[f] ELSE {})
        rebuilt == [f \in DOMAIN final |-> Entry(final[f], Now(f))]
    IN  IF files = {} THEN Archived(L, old)
        ELSE [L EXCEPT ![target] = WithInitial([NoLog EXCEPT !.dir = TRUE], rebuilt),
                       ![old] = NoLog]

-----------------------------------------------------------------------------
(* Stashes.                                                                *)

\* The note of a stash keeps the numbers of the lines that are an agent's.
SavedInStash(l, F) == WithAi(Restrict(Entries(l), Tracked(l) \cap F))

\* The note is read against the stash's own text and becomes INITIAL, in place
\* of what INITIAL was.
RestoredFromStash(L, s, c) ==
    LET es == [f \in DOMAIN stash[s].note |->
                  Misread(stash[s].note[f], stash[s].text[f])]
    IN  IF es = Nothing THEN L ELSE [L EXCEPT ![c] = WithInitial(@, es)]
-----------------------------------------------------------------------------
(* What a commit finds.                                                    *)

Rename(new, old) == [kind |-> "rename", target |-> new, old |-> old]
Merge(new, old, S) == [kind |-> "merge", target |-> new, old |-> old, final |-> S]
Reset(new, old, F, S, saved) ==
    [kind |-> "reset", target |-> new, old |-> old, paths |-> F, final |-> S,
     saved |-> saved]
StashRestore(c, s) == [kind |-> "stash", target |-> c, stash |-> s]

\* One recent command redone, for a commit whose base has no tracked state.
Redone(L, p) ==
    CASE p.kind = "reset" ->
            IF p.saved # Nothing
            THEN [L EXCEPT ![p.target] = WithInitial(@, p.saved)]
            ELSE Reconstructed(L, p.target, p.old, p.paths, p.final)
      [] p.kind = "rename" -> Renamed(L, p.old, p.target)
      [] p.kind = "merge" ->
            IF L[p.old].dir
            THEN Archived(Carried(L, Entries(L[p.old]), p.target, p.final), p.old)
            ELSE L
      [] p.kind = "stash" -> RestoredFromStash(L, p.stash, p.target)

\* The newest first, until one leaves something.
RecoveredRecent(L, base) ==
    FoldRight(LAMBDA p, M : IF Tracked(M[base]) # {} THEN M ELSE Redone(M, p),
              SelectSeq(recent, LAMBDA p : p.target = base), L)

\* The HEAD a reset to the base came from: what the rewrite log, ORIG_HEAD or
\* the reflog says.
ResetOldHead(base) ==
    IF resets[base] # 0 THEN resets[base]
    ELSE IF origHead \notin {0, base} THEN origHead ELSE cameFrom[base]

\* The log that HEAD left behind, as it is if the final state shows its texts,
\* else rebuilt.
RecoveredReset(L, base, final) ==
    LET old == ResetOldHead(base)
        saved == WithAi(Entries(L[old]))
        matches == \A f \in DOMAIN saved : f \in DOMAIN final /\ final[f] = saved[f].text
    IN  IF Tracked(L[base]) # {} \/ old = 0 THEN L
        ELSE IF ~IsAncestor(base, old) THEN L
        ELSE IF L[old].dir /\ saved # Nothing /\ matches
        THEN Archived([L EXCEPT ![base] = WithInitial(@, saved)], old)
        ELSE Reconstructed(L, base, old, Files, final)

Recovered(L, base, final) == RecoveredReset(RecoveredRecent(L, base), base, final)

-----------------------------------------------------------------------------
(* The user, the agents and git.                                           *)

MayAct(command) ==
    /\ command \in commands
    /\ Settled \/ "lag" \in Cases
MayMove(command) == MayAct(command) /\ moves < MaxMoves

\* An agent adds a line.  Its hooks capture the file before and after the edit,
\* for HEAD, and opening the log of HEAD creates its directory at once.
AgentEdit(f, x) ==
    /\ Settled \/ "lag" \in Cases
    /\ x \in Lines \ written
    /\ wt' = [wt EXCEPT ![f] = @ \cup {x}]
    /\ written' = written \cup {x} /\ ai' = ai \cup {x}
    /\ log' = [log EXCEPT ![head].dir = TRUE]
    /\ queue' = Append(queue, [kind |-> "checkpoint", base |-> head, file |-> f,
                               before |-> wt[f], text |-> wt'[f]])
    /\ UNCHANGED <<head, made, tree, parent, cameFrom, origHead, moves,
                   note, recent, resets, stash, popped, commands>>

\* The user types a line, and nothing is told.
Type(f, x) ==
    /\ "type" \in Cases /\ Settled
    /\ x \in Lines \ written
    /\ wt' = [wt EXCEPT ![f] = @ \cup {x}]
    /\ written' = written \cup {x}
    /\ UNCHANGED <<head, made, tree, parent, ai, cameFrom, origHead, moves,
                   daemon, stash, popped, queue, commands>>

MovedTo(c) ==
    /\ head' = c
    /\ cameFrom' = IF c = head THEN cameFrom ELSE [cameFrom EXCEPT ![c] = head]

\* The files F, as they are in the worktree, become a commit, or a new form of
\* the one HEAD is at.
Commit(F, command) ==
    /\ MayAct(command)
    /\ command = "amend" => head > 2
    /\ command = "amend" /\ ~(F \subseteq Tracked(log[head]))
          => Tracked(log[head]) = {} \/ "beside" \in Cases
    /\ made < MaxCommit /\ F # {} /\ F \subseteq Dirty
    /\ made' = made + 1
    /\ tree' = [tree EXCEPT ![made'] =
                   [f \in Files |-> IF f \in F THEN wt[f] ELSE tree[head][f]]]
    /\ parent' = [parent EXCEPT ![made'] = IF command = "amend" THEN parent[head] ELSE head]
    /\ MovedTo(made')
    /\ queue' = Append(queue, [kind |-> "commit", base |-> head, commit |-> made',
                               final |-> Snapshot(head, Files, wt)])
    /\ UNCHANGED <<wt, written, ai, origHead, moves, daemon, stash, popped, commands>>

\* What the worktree becomes when git moves from HEAD to c: a file that is not
\* dirty follows, a dirty one stays, with --force it follows too, and with
\* --merge it keeps its own changes.
Followed(c, mode) ==
    [f \in Files |->
        IF f \notin Dirty \/ mode = "force" THEN tree[c][f]
        ELSE IF mode = "merge"
        THEN (tree[c][f] \cup (wt[f] \ tree[head][f])) \ (tree[head][f] \ wt[f])
        ELSE wt[f]]

\* checkout or switch to another commit, and pull that fast-forwards.  Without
\* --force and --merge git refuses to overwrite a dirty file.
Switch(c, mode) ==
    /\ MayMove(mode)
    /\ c \in 1..made /\ c # head
    /\ mode \in {"force", "merge"} \/ Dirty \cap ChangedFiles(head, c) = {}
    /\ mode = "pull" => c = 2 /\ IsAncestor(head, c)
    /\ wt' = Followed(c, mode)
    /\ MovedTo(c)
    /\ origHead' = IF mode = "pull" THEN head ELSE origHead
    /\ moves' = moves + 1
    /\ queue' = Append(queue, [kind |-> "switch", mode |-> mode, old |-> head, new |-> c,
                               final |-> IF mode = "merge"
                                         THEN Snapshot(head, Files, wt') ELSE Nothing])
    /\ UNCHANGED <<made, tree, parent, written, ai, daemon, stash, popped, commands>>

\* checkout -- f
Discard(f) ==
    /\ MayMove("paths") /\ f \in Dirty
    /\ wt' = [wt EXCEPT ![f] = tree[head][f]]
    /\ moves' = moves + 1
    /\ queue' = Append(queue, [kind |-> "discard", base |-> head, paths |-> {f}])
    /\ UNCHANGED <<head, made, tree, parent, written, ai, cameFrom, origHead,
                   daemon, stash, popped, commands>>

\* The HEADs a reset event names: when HEAD has not moved, the last move to it.
ResetFrom(c) == IF c # head THEN head ELSE cameFrom[head]

ResetEvent(c, mode, F, text) ==
    [kind |-> "reset", hard |-> mode = "hard", old |-> ResetFrom(c), new |-> c,
     paths |-> F,
     final |-> IF mode = "hard" THEN Nothing ELSE Snapshot(ResetFrom(c), F, text)]

\* The two HEADs are on one line of history.  (A reset between others that is not
\* hard is taken for a rebase, which is left out here.)
OneLine(c) == ResetFrom(c) = 0 \/ IsAncestor(c, ResetFrom(c)) \/ IsAncestor(ResetFrom(c), c)

\* Without an earlier move the command leaves no event.
Told(c, event) == queue' = IF ResetFrom(c) = 0 THEN queue ELSE Append(queue, event)

\* reset to HEAD or to an ancestor of it.
ResetTo(c, mode) ==
    /\ MayMove(mode)
    /\ IsAncestor(c, head)
    /\ mode = "hard" \/ OneLine(c)
    /\ c # head /\ mode = "soft" /\ Dirty # {} => "dirty" \in Cases
    /\ c = head /\ mode = "hard" /\ Dirty # {} => "clear" \in Cases
    /\ c = head /\ ResetFrom(c) # 0 /\ IsAncestor(c, ResetFrom(c)) => "again" \in Cases
    /\ wt' = IF mode = "hard" THEN tree[c] ELSE wt
    /\ MovedTo(c) /\ origHead' = head
    /\ moves' = moves + 1
    /\ Told(c, ResetEvent(c, mode, Files, wt'))
    /\ UNCHANGED <<made, tree, parent, written, ai, daemon, stash, popped, commands>>

\* reset -- f: takes f out of the index, and no more.
Unstage(f) ==
    /\ MayMove("unstage") /\ f \in Dirty /\ OneLine(head)
    /\ ResetFrom(head) # 0 /\ IsAncestor(head, ResetFrom(head)) => "again" \in Cases
    /\ moves' = moves + 1
    /\ Told(head, ResetEvent(head, "soft", {f}, wt))
    /\ UNCHANGED <<head, made, tree, parent, wt, written, ai, cameFrom, origHead,
                   daemon, stash, popped, commands>>

\* stash push of the files F
StashPush(F) ==
    /\ MayMove("stash") /\ Len(stash) < MaxMoves
    /\ F # {} /\ F \subseteq Dirty
    /\ "shift" \in Cases \/ \A f \in F \cap Tracked(log[head]) :
                              Entries(log[head])[f].text = wt[f]
    /\ stash' = Append(stash, [base |-> head, files |-> F, text |-> wt, note |-> Nothing])
    /\ wt' = [f \in Files |-> IF f \in F THEN tree[head][f] ELSE wt[f]]
    /\ moves' = moves + 1
    /\ queue' = Append(queue, [kind |-> "push", head |-> head, stash |-> Len(stash'),
                               files |-> F])
    /\ UNCHANGED <<head, made, tree, parent, written, ai, cameFrom, origHead,
                   daemon, popped, commands>>

\* stash pop of the newest one.  Git refuses when a stashed file is dirty.
StashPop(s) ==
    /\ MayMove("stash")
    /\ s \in DOMAIN stash \ popped /\ \A r \in DOMAIN stash \ popped : r <= s
    /\ stash[s].files \cap Dirty = {}
    /\ "over" \in Cases \/ (/\ log[head].init = Nothing
                            /\ \A f \in stash[s].files \cap Tracked(log[head]) :
                                  /\ f \in DOMAIN stash[s].note
                                  /\ Entries(log[head])[f] = stash[s].note[f])
    /\ LET base == tree[stash[s].base]
           text == stash[s].text
       IN  wt' = [f \in Files |->
                    IF f \in stash[s].files
                    THEN (wt[f] \cup (text[f] \ base[f])) \ (base[f] \ text[f])
                    ELSE wt[f]]
    /\ popped' = popped \cup {s}
    /\ moves' = moves + 1
    /\ queue' = Append(queue, [kind |-> "pop", head |-> head, stash |-> s])
    /\ UNCHANGED <<head, made, tree, parent, written, ai, cameFrom, origHead,
                   daemon, stash, commands>>

-----------------------------------------------------------------------------
(* The daemon applies the events in order.                                 *)

Applies(kind) == queue # <<>> /\ queue[1].kind = kind /\ queue' = Tail(queue)

\* The two captures of an agent's edit: a human checkpoint of the text before
\* it, then the agent's, each starting from what the log of the base says.
ApplyCheckpoint ==
    /\ Applies("checkpoint")
    /\ LET e == queue[1]
           l == log[e.base]
           known == IF e.file \in Tracked(l)
                    THEN Aligned(Entries(l)[e.file], e.before).ai ELSE {}
           new == Entry(e.text, (known \cap e.text) \cup (e.text \ e.before))
       IN  log' = [log EXCEPT ![e.base].dir = TRUE,
                              ![e.base].cps = [f \in DOMAIN l.cps \cup {e.file} |->
                                                  IF f = e.file THEN new ELSE l.cps[f]]]
    /\ UNCHANGED <<git, note, recent, resets, stash, popped, commands>>

\* (mutant) The log of the HEAD before is put aside instead of moved.
SwitchedAside(L, e) == Archived(L, e.old)

\* checkout, switch and pull, by mode.
Switched(L, e) ==
    CASE e.mode = "force" -> Archived(L, e.old)
      [] e.mode = "merge" /\ (e.final # Nothing \/ Tracked(L[e.old]) = {}) ->
            Archived(IF e.final = Nothing THEN L
                     ELSE Carried(L, Entries(L[e.old]), e.new, e.final), e.old)
      [] OTHER -> Renamed(L, e.old, e.new)

\* The command is also remembered, for the commit that may find it undone.
ApplySwitch ==
    /\ Applies("switch")
    /\ LET e == queue[1]
       IN  /\ log' = Switched(log, e)
           /\ recent' = CASE e.mode = "checkout" -> Append(recent, Rename(e.new, e.old))
                          [] e.mode = "merge" /\ e.final # Nothing ->
                                Append(recent, Merge(e.new, e.old, e.final))
                          [] OTHER -> recent
    /\ UNCHANGED <<git, note, resets, stash, popped, commands>>

\* (mutant) Nothing is taken out of the log.
DiscardedNothing(L, e) == L

Discarded(L, e) == [L EXCEPT ![e.base] = Without(@, e.paths)]

ApplyDiscard ==
    /\ Applies("discard")
    /\ log' = Discarded(log, queue[1])
    /\ UNCHANGED <<git, note, recent, resets, stash, popped, commands>>

\* A hard reset clears the log of the HEAD before, and so does one that goes
\* forward, which leaves no commit to take for a rebased one; the others rebuild the log of the HEAD it moved to.
ResetEffect(L, e) ==
    IF e.hard \/ ~IsAncestor(e.new, e.old) THEN Archived(L, e.old)
    ELSE Reconstructed(L, e.new, e.old, e.paths, e.final)

\* It fails, and nothing is recorded, when the log of the HEAD before tracks
\* files the snapshot was taken without.
ResetFails(e) ==
    /\ ~e.hard /\ IsAncestor(e.new, e.old)
    /\ Tracked(log[e.old]) # {} /\ e.final = Nothing

ApplyReset ==
    /\ Applies("reset")
    /\ LET e == queue[1]
           L == ResetEffect(log, e)
       IN  IF ResetFails(e) THEN UNCHANGED daemon
           ELSE /\ log' = L
                /\ recent' = Append(recent, Reset(e.new, e.old, e.paths, e.final,
                                                 WithAi(Entries(L[e.new]))))
                /\ resets' = [resets EXCEPT ![e.new] = e.old]
                /\ UNCHANGED note
    /\ UNCHANGED <<git, stash, popped, commands>>

\* INITIAL forgets the files; their checkpoints stay.
ApplyPush ==
    /\ Applies("push")
    /\ LET e == queue[1]
           F == Tracked(log[e.head]) \cap e.files
       IN  /\ stash' = [stash EXCEPT ![e.stash].note = SavedInStash(log[e.head], F)]
           /\ log' = [log EXCEPT ![e.head].dir = TRUE,
                                 ![e.head].init = Restrict(@, DOMAIN @ \ F)]
    /\ UNCHANGED <<git, note, recent, resets, popped, commands>>

ApplyPop ==
    /\ Applies("pop")
    /\ LET e == queue[1]
       IN  /\ log' = RestoredFromStash(log, e.stash, e.head)
           /\ recent' = Append(recent, StashRestore(e.head, e.stash))
    /\ UNCHANGED <<git, note, resets, stash, popped, commands>>

\* (mutant) The amended commit's note is forgotten.
BlamedNothing(c, amended, f, final) == {}

\* What blame and the notes say of a file at a commit, for the commit that
\* amends it.  A file outside the final state keeps the numbers it had.
Blamed(c, amended, f, final) ==
    LET noted == Entry(tree[c][f], tree[c][f] \cap UNION {note[a][f] : a \in Ancestors(c)})
    IN  IF f \in DOMAIN final THEN Aligned(noted, final[f]).ai
        ELSE Misread(noted, tree[amended][f]).ai

\* The commit's note and the log of the new HEAD.  The log of the base is
\* recovered when it says nothing; its entries are aligned with what was in the
\* worktree; what is new in the commit goes to the note and what the worktree
\* has beyond the commit to INITIAL, where the files that differ from the
\* commit keep all their lines.
ApplyCommit ==
    /\ Applies("commit")
    /\ LET e == queue[1]
           committed == Restrict(tree[e.commit], ChangedFiles(e.base, e.commit))
           exact == [f \in DOMAIN committed \cup DOMAIN e.final |->
                        IF f \in DOMAIN e.final THEN e.final[f] ELSE committed[f]]
           L == Recovered(log, e.base, exact)
           es == Entries(L[e.base])
           Text(f) == IF f \in DOMAIN e.final THEN e.final[f] ELSE tree[e.commit][f]
           Ai(f) == (IF f \in DOMAIN es THEN Aligned(es[f], Text(f)).ai ELSE {})
                       \cup (IF parent[e.commit] = e.base THEN {}
                             ELSE Blamed(e.base, e.commit, f,
                                         IF e.final = Nothing THEN committed ELSE e.final))
           rest == {f \in DOMAIN e.final :
                       f \notin DOMAIN committed \/ committed[f] # e.final[f]}
           beyond == [f \in DOMAIN exact \cup DOMAIN es |-> Entry(Text(f), Ai(f) \ tree[e.commit][f])]
           M == [L EXCEPT ![e.base] = NoLog,
                          ![e.commit] = IF WithAi(beyond) = Nothing THEN @
                                        ELSE WithInitial(@, beyond)]
       IN  /\ note' = [note EXCEPT ![e.commit] =
                          [f \in Files |->
                             Ai(f) \cap (tree[e.commit][f] \ tree[parent[e.commit]][f])]]
           /\ log' = IF rest = {} THEN M
                     ELSE Carried(M, es, e.commit, Restrict(e.final, rest))
           /\ recent' = SelectSeq(recent, LAMBDA p : p.target # e.base)
    /\ UNCHANGED <<git, resets, stash, popped, commands>>

-----------------------------------------------------------------------------

User ==
    \/ \E f \in Files, x \in Lines : AgentEdit(f, x) \/ Type(f, x)
    \/ \E F \in SUBSET Files, command \in {"commit", "amend"} : Commit(F, command)
    \/ \E F \in SUBSET Files : StashPush(F)
    \/ \E c \in Commits, mode \in {"checkout", "force", "merge", "pull"} :
          Switch(c, mode)
    \/ \E c \in Commits, mode \in {"soft", "hard"} : ResetTo(c, mode)
    \/ \E f \in Files : Discard(f) \/ Unstage(f)
    \/ \E s \in Stashes : StashPop(s)

Daemon ==
    \/ ApplyCheckpoint \/ ApplySwitch \/ ApplyDiscard \/ ApplyReset
    \/ ApplyPush \/ ApplyPop \/ ApplyCommit

Next == User \/ Daemon

Spec == Init /\ [][Next]_vars

-----------------------------------------------------------------------------
(* Properties.                                                             *)

IsEntries(es) == /\ DOMAIN es \subseteq Files
                 /\ \A f \in DOMAIN es : es[f].ai \subseteq es[f].text
                                      /\ es[f].text \subseteq Lines

\* HEAD is a commit that was made, a log exists when it says something, its
\* entries name lines of their own text, and INITIAL only files with an agent's
\* line.
TypeOK ==
    /\ head \in 1..made /\ made \in Commits
    /\ tree \in [Commits -> [Files -> SUBSET Lines]]
    /\ parent \in [Commits -> 0..MaxCommit] /\ \A c \in Commits : parent[c] < c
    /\ wt \in [Files -> SUBSET Lines]
    /\ ai \subseteq written /\ written \subseteq Lines
    /\ \A c \in Commits :
          /\ IsEntries(log[c].init) /\ IsEntries(log[c].cps)
          /\ \A f \in DOMAIN log[c].init : log[c].init[f].ai # {}
          /\ Tracked(log[c]) # {} => log[c].dir
    /\ note \in [Commits -> [Files -> SUBSET Lines]]
    /\ popped \subseteq DOMAIN stash /\ moves \in 0..MaxMoves

\* When the daemon has applied every event, each agent's line of the worktree
\* that is not committed is in the working log of HEAD, so that the commit that
\* takes it will know whose it is: no command loses an uncommitted attribution.
UncommittedKept ==
    Settled => \A f \in Files :
                 (wt[f] \ tree[head][f]) \cap ai \subseteq Claimed(log[head], f)

\* The agents' lines a commit adds are in its note once the daemon has applied
\* it, however they came to the worktree: across checkouts, resets and stashes.
CommittedNoted ==
    Settled => \A c \in 3..made, f \in Files :
                 (tree[c][f] \ tree[parent[c]][f]) \cap ai \subseteq note[c][f]

\* Neither a log nor a note claims a line the user typed, though logs are read
\* against other texts than their own and rebuilt from notes.
HumanStaysHuman ==
    \A c \in Commits, f \in Files : Claimed(log[c], f) \cup note[c][f] \subseteq ai

\* When the daemon has applied every event, the log of HEAD claims no line that
\* the worktree has lost: what a command discards leaves the log.  (A stash
\* leaves the checkpoints of the files it puts away.)
NothingLeftOver ==
    Settled /\ "stash" \notin commands => \A f \in Files : Claimed(log[head], f) \subseteq wt[f]
=============================================================================
