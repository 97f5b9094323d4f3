------------------------------ MODULE BashTool ------------------------------
(***************************************************************************)
(* What an agent's shell commands did.  The hook before a command takes a   *)
(* snapshot of the stats of the files that no watermark covers and gives    *)
(* what the user changed to a human checkpoint; the hook after it compares  *)
(* the stats and gives what has changed to the agent.  The daemon applies   *)
(* checkpoints and commits in turn, and the family actor keeps watermarks:  *)
(* how far the files and the worktrees have been read.                      *)
(***************************************************************************)
EXTENDS Integers, Sequences, FiniteSets, SequencesExt

CONSTANTS
    Trees,     \* the worktrees of one family
    Files,     \* paths in a worktree
    Calls,     \* the shell commands of agents
    Home,      \* [Calls -> Trees]
    Unnamed,   \* the calls of one session whose agent gives no tool_use_id
    Grace,     \* MTIME_GRACE_WINDOW_NS
    Stale,     \* SNAPSHOT_STALE_SECS
    MaxClock,  \* bound on the clock
    MaxEdits,  \* bound on the writes of the user, and of each call
    Failing,   \* BOOLEAN: walks, queries, captures and hooks may run out of time
    Aborting,  \* the calls whose agent may be stopped: no second hook
    Overlap,   \* BOOLEAN: two calls may run in one worktree at a time
    Quick,     \* BOOLEAN: files are written within Grace of their watermark
    Typing,    \* BOOLEAN: the user writes while checkpoints are under way
    Lag,       \* BOOLEAN: hooks run before the daemon has seen earlier commits
    Committers \* who commits

User == "user"
None == "none"
Authors == Calls \cup {User}
Clock == 0..MaxClock

ASSUME HomeAssumption == Home \in [Calls -> Trees]
ASSUME CallsAssumption == /\ Unnamed \subseteq Calls /\ Aborting \subseteq Calls
                          /\ Committers \subseteq Authors
                          /\ User \notin Calls /\ None \notin Calls
ASSUME TimesAssumption == /\ Grace \in Nat \ {0} /\ Stale \in Nat /\ MaxClock \in Nat
                          /\ MaxEdits \in Nat
ASSUME SituationAssumption ==
    {Failing, Overlap, Quick, Typing, Lag} \subseteq BOOLEAN

VARIABLES
    now,      \* the clock
    mtime,    \* [Trees -> [Files -> Clock]]
    stat,     \* [Trees -> [Files -> Nat]]: another number is another stat tuple
    index,    \* [Trees -> Clock]: the mtime of .git/index
    edits,    \* how often each author has written
    unread,   \* whose changes of a file no checkpoint has read yet
    perFile,  \* the family's watermarks by path; NoTime when there is none
    perTree,  \* the family's watermarks by worktree
    snaps,    \* the saved snapshots, by the id in their key
    sidecar,  \* [Trees -> id of the last unnamed call, or None]
    call,     \* how far each call is, and what its running hook knows
    queue,    \* what the daemon has to apply, in order
    job,      \* the checkpoint whose watermarks are still to be taken
    credited, \* whose changes went to whom (for the properties)
    scoped    \* the mtime at which a scoped checkpoint last left a file (likewise)

fileVars == <<mtime, stat, index, edits, unread>>
actorVars == <<perFile, perTree>>
hookVars == <<snaps, sidecar, call>>
daemonVars == <<queue, job, credited, scoped>>
vars == <<now, fileVars, actorVars, hookVars, daemonVars>>

NoTime == -1
Times == Clock \cup {NoTime}
Ids == Calls \cup {"bash"}
Stats == (0..MaxEdits * Cardinality(Authors)) \cup {NoTime}
Marks == [perFile : [Files -> Times], tree : Times]
NoMarks == [perFile |-> [f \in Files |-> NoTime], tree |-> NoTime]
Snapshots == [tree : Trees, entries : [Files -> Stats], wm : Marks, at : Clock]
Phases == {"idle", "queried", "pre", "running", "loaded", "post", "done", "stopped"}
\* A checkpoint captured by a hook has the content of its paths with it; a
\* live one reads every file when it is applied.
Requests == [tree : Trees, kind : {"human", "ai", "commit"}, live : BOOLEAN,
             paths : SUBSET Files, text : [Files -> SUBSET Authors], by : Authors]
Idle == [pc |-> "idle", wm |-> NoMarks, snap |-> <<>>, used |-> None]

TypeOK ==
    /\ now \in Clock
    /\ mtime \in [Trees -> [Files -> Clock]] /\ index \in [Trees -> Clock]
    /\ stat \in [Trees -> [Files -> Stats]]
    /\ edits \in [Authors -> 0..MaxEdits]
    /\ unread \in [Trees -> [Files -> SUBSET Authors]]
    /\ perFile \in [Files -> Times] /\ perTree \in [Trees -> Times]
    /\ DOMAIN snaps \subseteq Ids /\ \A i \in DOMAIN snaps : snaps[i] \in Snapshots
    /\ sidecar \in [Trees -> Calls \cup {None}]
    /\ \A c \in Calls : /\ call[c].pc \in Phases /\ call[c].wm \in Marks
                        /\ call[c].snap = <<>> \/ call[c].snap[1] \in Snapshots
                        /\ call[c].used \in Ids \cup {None}
    /\ \A i \in DOMAIN queue : queue[i] \in Requests
    /\ job = <<>> \/ job[1] \in Requests
    /\ credited \subseteq Authors \X {"human", "ai"}
    /\ scoped \in [Trees -> [Files -> Times]]

Init ==
    /\ now = 0
    /\ mtime = [t \in Trees |-> [f \in Files |-> 0]] /\ stat = mtime /\ index = [t \in Trees |-> 0]
    /\ edits = [a \in Authors |-> 0]
    /\ unread = [t \in Trees |-> [f \in Files |-> {}]]
    /\ perFile = [f \in Files |-> NoTime] /\ perTree = [t \in Trees |-> NoTime]
    /\ snaps = <<>> /\ sidecar = [t \in Trees |-> None]
    /\ call = [c \in Calls |-> Idle]
    /\ queue = <<>> /\ job = <<>> /\ credited = {}
    /\ scoped = [t \in Trees |-> [f \in Files |-> NoTime]]

InFlight(c) == call[c].pc \in {"queried", "pre", "running", "loaded", "post"}

(***************************************************************************)
(* Watermarks                                                               *)
(***************************************************************************)

\* What a query for worktree t returns: the file watermarks of the family,
\* whichever worktree they are from, and the watermark of t, or else the
\* mtime of its index.
WatermarksFor(t) ==
    [perFile |-> perFile, tree |-> IF perTree[t] = NoTime THEN index[t] ELSE perTree[t]]

\* is_wm_covered.
Covered(m, wm, f) ==
    IF wm.perFile[f] # NoTime THEN m <= wm.perFile[f] + Grace
    ELSE wm.tree # NoTime /\ m <= wm.tree + Grace

\* snapshot: the files that are not covered, with their stats.
Entries(t, wm) ==
    [f \in Files |-> IF Covered(mtime[t][f], wm, f) THEN NoTime ELSE stat[t][f]]

\* (mutant) Files without a watermark of their own are never stale.
StaleFilesTier1(s) == {f \in Files : s.entries[f] # NoTime /\ s.wm.perFile[f] # NoTime}

\* find_stale_files: without any watermark there is no baseline.
StaleFiles(s) ==
    {f \in Files : /\ s.entries[f] # NoTime
                   /\ s.wm.perFile[f] # NoTime \/ s.wm.tree # NoTime}

\* (mutant) Files that were covered before are left out.
ChangedModified(pre, post) ==
    {f \in Files : post[f] # NoTime /\ pre[f] # NoTime /\ pre[f] # post[f]}

\* diff: deletions are not tracked.
Changed(pre, post) == {f \in Files : post[f] # NoTime /\ pre[f] # post[f]}

(***************************************************************************)
(* Writing files                                                            *)
(***************************************************************************)

Write(a, t, f) ==
    /\ edits[a] < MaxEdits
    /\ edits' = [edits EXCEPT ![a] = @ + 1]
    /\ mtime' = [mtime EXCEPT ![t][f] = now]
    /\ stat' = [stat EXCEPT ![t][f] = @ + 1]
    /\ unread' = [unread EXCEPT ![t][f] = @ \cup {a}]
    /\ UNCHANGED <<now, index, actorVars, hookVars, daemonVars>>

\* The user does not write while an agent's command runs in the worktree.
UserWrites(t, f) ==
    /\ \A c \in Calls : Home[c] = t => ~InFlight(c)
    /\ Typing \/ (queue = <<>> /\ job = <<>>)
    /\ Quick \/ ~Covered(now, WatermarksFor(t), f)
    /\ Write(User, t, f)

CallWrites(c, f) ==
    /\ call[c].pc = "running"
    /\ Quick \/ (c \in DOMAIN snaps => ~Covered(now, snaps[c].wm, f))
    /\ Write(c, Home[c], f)

Tick == /\ now < MaxClock /\ now' = now + 1
        /\ UNCHANGED <<fileVars, actorVars, hookVars, daemonVars>>

Request(t, k, l, ps, a) ==
    [tree |-> t, kind |-> k, live |-> l, paths |-> ps, by |-> a,
     text |-> [f \in Files |-> IF f \in ps THEN unread[t][f] ELSE {}]]

\* The content of a request has been read.
Read(t, ps) == [unread EXCEPT ![t] = [f \in Files |-> IF f \in ps THEN {} ELSE @[f]]]

\* git commit -a by the user, or by a call: the daemon hears of it in turn.
Commit(a, t) ==
    LET ps == {f \in Files : unread[t][f] # {}}
    IN  /\ a \in Committers /\ ps # {}
        /\ IF a = User THEN \A c \in Calls : Home[c] = t => ~InFlight(c)
                       ELSE Home[a] = t /\ call[a].pc = "running"
        /\ queue' = Append(queue, Request(t, "commit", FALSE, ps, a))
        /\ unread' = Read(t, ps)
        /\ index' = [index EXCEPT ![t] = now]
        /\ UNCHANGED <<now, mtime, stat, edits, actorVars, hookVars, job, credited, scoped>>

(***************************************************************************)
(* The hook before a command                                                *)
(***************************************************************************)

Expired(s) == now - s.at > Stale

Quiet(t) == Lag \/ \A i \in DOMAIN queue : queue[i].tree = t => queue[i].kind # "commit"

\* resolve_bash_tool_use_id writes the sidecar, cleanup_stale_snapshots,
\* query_daemon_watermarks.  A query that fails leaves no watermarks.
PreQuery(c) ==
    /\ call[c].pc = "idle"
    /\ Overlap \/ \A d \in Calls : Home[d] = Home[c] => ~InFlight(d)
    /\ Quiet(Home[c])
    /\ sidecar' = IF c \in Unnamed THEN [sidecar EXCEPT ![Home[c]] = c] ELSE sidecar
    /\ LET kept == {i \in DOMAIN snaps : snaps[i].tree = Home[c] => ~Expired(snaps[i])}
       IN  snaps' = [i \in kept |-> snaps[i]]
    /\ \E wm \in {WatermarksFor(Home[c])} \cup (IF Failing THEN {NoMarks} ELSE {}) :
          call' = [call EXCEPT ![c].pc = "queried", ![c].wm = wm]
    /\ UNCHANGED <<now, fileVars, actorVars, daemonVars>>

\* Nothing captured: a live human checkpoint of the worktree, which the hook
\* waits for.
AskHuman(c) ==
    /\ queue' = Append(queue, Request(Home[c], "human", TRUE, {}, c))
    /\ call' = [call EXCEPT ![c].pc = "pre"]
    /\ UNCHANGED unread

\* The stale files are captured, and the daemon gets to it when it can.
CaptureHuman(c, ps) ==
    /\ queue' = Append(queue, Request(Home[c], "human", FALSE, ps, c))
    /\ unread' = Read(Home[c], ps)
    /\ call' = [call EXCEPT ![c].pc = "running"]

Saved(c, s) == [i \in {c} \cup DOMAIN snaps |-> IF i = c THEN s ELSE snaps[i]]

PreSnapshot(c) ==
    LET t == Home[c]
        s == [tree |-> t, entries |-> Entries(t, call[c].wm), wm |-> call[c].wm, at |-> now]
    IN  /\ call[c].pc = "queried"
        /\ \/ /\ snaps' = Saved(c, s)
              /\ IF StaleFiles(s) # {} THEN CaptureHuman(c, StaleFiles(s)) ELSE AskHuman(c)
           \/ /\ Failing
              /\ snaps' \in {snaps, Saved(c, s)}
              /\ AskHuman(c)
        /\ UNCHANGED <<now, mtime, stat, index, edits, actorVars, sidecar, job, credited, scoped>>

(***************************************************************************)
(* The hook after a command                                                 *)
(***************************************************************************)

\* resolve_bash_tool_use_id: an unnamed call takes the id in the sidecar.
SnapshotId(c) ==
    IF c \notin Unnamed THEN c
    ELSE IF sidecar[Home[c]] # None THEN sidecar[Home[c]] ELSE "bash"

\* load_and_consume_snapshot.
PostLoad(c) ==
    LET id == SnapshotId(c)
    IN  /\ call[c].pc = "running" /\ Quiet(Home[c])
        /\ sidecar' = IF c \in Unnamed THEN [sidecar EXCEPT ![Home[c]] = None] ELSE sidecar
        /\ snaps' = [i \in DOMAIN snaps \ {id} |-> snaps[i]]
        /\ call' = [call EXCEPT ![c].pc = "loaded",
                                ![c].used = IF id \in DOMAIN snaps THEN id ELSE None,
                                ![c].snap = IF id \in DOMAIN snaps THEN <<snaps[id]>> ELSE <<>>]
        /\ UNCHANGED <<now, fileVars, actorVars, daemonVars>>

\* Without a snapshot, out of time, or with nothing changed, a live agent
\* checkpoint of the whole worktree, which the hook waits for.
AskAi(c) ==
    /\ queue' = Append(queue, Request(Home[c], "ai", TRUE, {}, c))
    /\ call' = [call EXCEPT ![c].pc = "post"]
    /\ UNCHANGED unread

\* (mutant) Captured like the files before the command.
CaptureAiAsHuman(c, ps) ==
    /\ queue' = Append(queue, Request(Home[c], "human", FALSE, ps, c))
    /\ unread' = Read(Home[c], ps)
    /\ call' = [call EXCEPT ![c].pc = "done", ![c].snap = <<>>, ![c].wm = NoMarks]

CaptureAi(c, ps) ==
    /\ queue' = Append(queue, Request(Home[c], "ai", FALSE, ps, c))
    /\ unread' = Read(Home[c], ps)
    /\ call' = [call EXCEPT ![c].pc = "done", ![c].snap = <<>>, ![c].wm = NoMarks]

\* The second snapshot uses the watermarks of the first.
PostSnapshot(c) ==
    LET pre == call[c].snap[1]
        changed == IF call[c].snap = <<>> THEN {}
                   ELSE Changed(pre.entries, Entries(Home[c], pre.wm))
    IN  /\ call[c].pc = "loaded"
        /\ \/ IF changed # {} THEN CaptureAi(c, changed) ELSE AskAi(c)
           \/ Failing /\ AskAi(c)
        /\ UNCHANGED <<now, mtime, stat, index, edits, actorVars, snaps, sidecar, job, credited, scoped>>

\* The agent is stopped while its command runs: there is no second hook.
Abort(c) ==
    /\ c \in Aborting /\ call[c].pc = "running"
    /\ call' = [call EXCEPT ![c].pc = "stopped"]
    /\ UNCHANGED <<now, fileVars, actorVars, snaps, sidecar, daemonVars>>

(***************************************************************************)
(* The daemon                                                               *)
(***************************************************************************)

\* scan_active_bash_snapshots: a commit is an agent's when there is a
\* snapshot that is not too old.
ActiveBash(t) == \E i \in DOMAIN snaps : snaps[i].tree = t /\ ~Expired(snaps[i])

Kind(r) == IF r.kind = "commit" THEN IF ActiveBash(r.tree) THEN "ai" ELSE "human"
           ELSE r.kind

\* (mutant) Without paths there is nothing to look at.
PathsOnly(r) == r.paths

\* get_all_tracked_files: a live checkpoint without paths looks at all files.
FilesOf(r) == IF r.live THEN Files ELSE r.paths

TextOf(r) == IF r.live THEN [f \in Files |-> IF f \in FilesOf(r) THEN unread[r.tree][f] ELSE {}]
             ELSE r.text

\* apply_checkpoint_side_effect, or the replay of a commit.
Apply ==
    LET r == queue[1]
        text == TextOf(r)
    IN  /\ queue # <<>> /\ job = <<>>
        /\ queue' = Tail(queue)
        /\ credited' = credited \cup {<<a, Kind(r)>> : a \in UNION {text[f] : f \in Files}}
        /\ unread' = IF r.live THEN Read(r.tree, FilesOf(r)) ELSE unread
        /\ job' = IF r.kind = "commit" THEN <<>> ELSE <<r>>
        /\ UNCHANGED <<now, mtime, stat, index, edits, actorVars, hookVars, scoped>>

\* FamilyMsg::UpdateWatermarks.
MarkFiles(marks) ==
    [f \in Files |-> IF marks[f] > perFile[f] THEN marks[f] ELSE perFile[f]]

Prune(marks, ts) == [f \in Files |-> IF marks[f] > ts THEN marks[f] ELSE NoTime]

\* compute_watermarks_from_stat: the stats of the paths as they are now.  A
\* live human checkpoint marks the worktree too.
StatMarks(r) == [f \in Files |-> IF f \in r.paths THEN mtime[r.tree][f] ELSE NoTime]

UpdateWatermarks(r) ==
    LET marks == MarkFiles(StatMarks(r))
        full == r.live /\ r.kind = "human"
    IN  IF full /\ now > perTree[r.tree]
        THEN /\ perTree' = [perTree EXCEPT ![r.tree] = now]
             /\ perFile' = Prune(marks, now)
        ELSE perFile' = marks /\ UNCHANGED perTree

\* The hook that waits for a live checkpoint goes on.
Answered(r) ==
    [c \in Calls |->
        CASE r.live /\ r.by = c /\ call[c].pc = "pre" -> [call[c] EXCEPT !.pc = "running"]
          [] r.live /\ r.by = c /\ call[c].pc = "post" -> [call[c] EXCEPT !.pc = "done", !.snap = <<>>,
                                                                !.wm = NoMarks]
          [] OTHER -> call[c]]

Complete ==
    LET r == job[1]
    IN  /\ job # <<>> /\ job' = <<>>
        /\ UpdateWatermarks(r)
        /\ call' = Answered(r)
        /\ scoped' = [scoped EXCEPT ![r.tree] = [f \in Files |->
                        IF f \in r.paths THEN mtime[r.tree][f] ELSE @[f]]]
        /\ UNCHANGED <<now, fileVars, snaps, sidecar, queue, credited>>

HookStep(c) == PreQuery(c) \/ PreSnapshot(c) \/ PostLoad(c) \/ PostSnapshot(c)

Next ==
    \/ Tick \/ Apply \/ Complete
    \/ \E t \in Trees, f \in Files : UserWrites(t, f)
    \/ \E a \in Authors, t \in Trees : Commit(a, t)
    \/ \E c \in Calls : \/ HookStep(c) \/ Abort(c)
                        \/ \E f \in Files : CallWrites(c, f)

Spec == Init /\ [][Next]_vars

(***************************************************************************)
(* Properties                                                               *)
(***************************************************************************)

\* What the user wrote before an agent's command started is never credited
\* to the agent: by a checkpoint of the hooks, or by the replay of a commit.
\* (The snapshot of an agent that was stopped counts as active; see README.)
UserStaysHuman ==
    <<User, "ai">> \in credited => \E c \in Calls : call[c].pc = "stopped"

\* What an agent's command wrote is never credited to the user, unless the agent
\* was stopped before its second hook.
AgentStaysAi ==
    \A c \in Calls : <<c, "human">> \in credited => call[c].pc = "stopped"

\* A change of the user that no checkpoint has read is not hidden by the
\* watermarks that the next hook is given, so that it counts as stale.
CoveredIsRead ==
    \A t \in Trees, f \in Files :
        User \in unread[t][f] => ~Covered(mtime[t][f], WatermarksFor(t), f)

\* A file that a scoped checkpoint has left as it is now is covered: no later
\* full checkpoint makes it look stale.
ScopedIsCovered ==
    \A t \in Trees, f \in Files :
        mtime[t][f] = scoped[t][f] => Covered(mtime[t][f], WatermarksFor(t), f)

\* When the hook after a command is over, everything the command wrote has
\* been given to a checkpoint: the comparison of stats missed nothing.
EditsReported ==
    \A c \in Calls : call[c].pc = "done" => \A f \in Files : c \notin unread[Home[c]][f]

\* The snapshot that the second hook compares with is the one its own first
\* hook took.
OwnSnapshot == \A c \in Calls : call[c].used \in {c, None}

\* A snapshot that counts as active belongs to a command that is running.
ActiveIsRunning ==
    \A t \in Trees : ActiveBash(t) => \E c \in Calls : Home[c] = t /\ InFlight(c)

=============================================================================
