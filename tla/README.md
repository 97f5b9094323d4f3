# git-ai in TLA+

git-ai records which lines of a repository were written by an AI agent. Git is
left alone: a background daemon watches it through trace2 events, receives
checkpoints from agents and editors, and turns commands and checkpoints of a
repository, in the right order, into authorship notes. This directory specifies
the parts of git-ai that keep state between steps, checks them with TLC and
proves the order of events in the daemon with TLAPS. Source references are to
`src/`.

## The system

| Part | State | Operations | What makes it correct |
|---|---|---|---|
| Trace ingress (`daemon/mod.rs`) | tracking state per root, ingress counter, channel, reorder buffer | accept, read, augment, stamp, send; close and its fallback; the ingest worker | one order of payloads, without gap or repetition; every command gets a terminal payload, none before its end |
| Trace normalizer (`daemon/trace_normalizer.rs`) | pending, deferred and completed roots | start, child events, exit | one command per root, with its own move of HEAD |
| Wrapper state overlay (`daemon/mod.rs`, `commands/git_handlers.rs`) | states before and after a command, by invocation | store, wait for both, give up after 750 ms | a state is used for its own command |
| Family sequencer (`daemon/mod.rs`) | a map of places per family, slots, execution locks | reserve, fill or cancel a place; append a checkpoint; drain; garbage collection | side effects one at a time, in start order, once; no place is lost |
| Family actor (`daemon/family_actor.rs`, `reducer.rs`, `coordinator.rs`) | watermarks, refs, worktrees of a family | apply a command or a checkpoint, read, merge and prune watermarks | a watermark hides only what was read |
| Shell command hooks (`checkpoint_agent/bash_tool.rs`) | snapshots of file stats on disk | before and after a command of an agent | every edit is reported, to its author |
| Checkpoints, working log (`commands/checkpoint.rs`, `git/repo_storage.rs`) | a directory per base commit | append, rewrite, archive, rename | what was checkpointed stays until a commit has dealt with it |
| Authorship (`src/src/authorship`) | none | diff, shift, split, merge attributions | the note of a commit credits each line to who wrote it |
| Side effects of commands (`daemon/mod.rs`, `authorship/rebase_authorship.rs`, `commands/hooks`) | working logs, notes, pending cherry-picks | commit, amend, checkout, reset, stash, rebase, cherry-pick | attributions follow the rewritten lines |
| Notes (`git/refs.rs`, `git/sync_authorship.rs`) | `refs/notes/ai`, local, tracking and remote | add, fetch, merge, push with retries | no note is lost or taken back; notes of all clones meet |
| Upload queues (`metrics/db.rs`, `authorship/internal_db.rs`, `daemon/telemetry_worker.rs`) | two SQLite tables, a buffer | enqueue, lease, upload, delete, retry | an item leaves the queue after it has arrived |
| Credentials (`auth`, `api/client.rs`) | a file, a keyring, tokens at the server | load, move, refresh, login, logout | the stored token is one the server takes |
| Daemon process (`daemon/runtime.rs`, `lock.rs`, `commands/daemon.rs`) | lock file, pid file, two sockets | start, serve, stop, restart, kill | one service; it can be reached |
| Upgrade (`commands/upgrade.rs`, `install.sh`) | the binary, a cache file | ask, download, verify, install | what is installed was released |
| Enterprise server (`enterprise-server`) | database, object store | metrics uploads and rollups, releases, tokens | rollups match the events; a published release can be had |
| Editor extension (`agent-support/vscode`) | timers, texts, a queue, a cache, what is shown | open, change, save, complete; request, cancel, render a blame | edits are reported for their author; what is shown is about what is there |
| Command line, report, blame, diff, search, installers, plugins | none, or files of other programs | | functions and I/O |

How they interact. Every git process opens a connection to the trace socket and
writes JSON events; the processes a command starts report under the sid of their
root. A thread per connection augments the events with the state of the
repository, numbers them and sends them through a bounded channel to one ingest
worker, which puts them back into the order of the numbers and hands them to the
normalizer. The start of a command that names its worktree (`git -C` with an
absolute path) reserves a place in the sequencer of its repository family, its
terminal event fills it; another command goes straight to its side effect.
Checkpoint requests come in on
control connections; a live or waited one first waits until the worker has
processed everything numbered before it, then takes a place of its own. Whoever
holds the family's execution lock drains the filled places from the front and
runs their side effects, which write the working log and the notes; notes are
pushed and fetched by side effects of their own. Prompts and metrics of a commit
go through two durable queues to the server, with the credentials of the user.

What is hard: threads that share state in several lock regions; a number taken
in one step and sent in another; the repository read by the daemon while git
goes on; processes that die; hooks of agents that run beside the user; two kinds
of tasks that drain the same map, with a garbage collector between any two steps;
notes and logs keyed by commits that are rewritten; several processes that share
a table, a file or a refresh token. The complete list is under `hazards` in
`PROJECT.json`, each with the properties that are about it.

## Modules

| Module | What it is |
|---|---|
| `OrderedStream` | abstract: payloads form a stream that is applied from the front |
| `TraceIngress` | connections, tracking state, numbers, channel, worker; implements `OrderedStream` |
| `FamilySequencer` | places, locks, drains, checkpoints, garbage collection, over such a stream |
| `RefCapture` | HEAD and reflogs read at ingress, the normalizer, the wrapper's overlay |
| `BashTool` | hooks of shell commands, snapshots, the family's watermarks, replayed commits |
| `WorkingLog` | checkpoints of agents, editor and commit in the log of one file, its lock and rewrites |
| `CommitSplit` | the split of the attributions of a worktree into a note and INITIAL |
| `CommandEffects` | what commits, amends, checkouts, pulls, resets and stashes do to logs and notes |
| `LineVersions` | vocabulary: lines, versions, places, the shifting of attributions |
| `RebaseNotes`, `CherryPick` | the notes of rebased and of picked commits |
| `NotesSync` | clones that add, fetch, merge and push notes |
| `AtLeastOnce` | abstract: an item is held until it has arrived |
| `MetricsQueue`, `CasQueue` | the upload queues; implement `AtLeastOnce` |
| `Credentials` | the credential store, refreshes, the token endpoint |
| `MetricsRollup` | uploads, rollup rows and workers of the server under READ COMMITTED |
| `ReleaseServer`, `SelfUpdate` | releases and channels; the updates made from them |
| `DaemonLifecycle` | services and their clients |
| `BlameQueue`, `BlameLens` | the editor's blame |
| `EditorCheckpoints` | the editor's checkpoints of saves, chat sessions and completions |
| `MC*` | the instances for TLC |
| `TraceIngressProofs` | theorems about the ingress |
| `FamilySequencerProofs` | theorems about the sequencer: places and locks; effects and their order |
| `NotesSyncProofs` | theorems about notes |
| `UploadQueuesProofs` | the refinements of `AtLeastOnce` as theorems |
| `WorkingLogProofs` | theorems about the log of a file |
| `DaemonLifecycleProofs` | theorems about services and their clients |
| `RefCaptureProofs` | theorems about what is captured of commands |
| `BashToolProofs` | theorems about what the hooks of shell commands credit to whom |

Three of the `MC` modules are sums: `MCServices`, `MCCommitNotes` and `MCEditor`
declare the variables of several modules that share no state, choose one
instance in `Init` and follow it; the other variables then have no value. One
run so checks several modules with several instances of each.

### TraceIngress

A thread's position is `at[p]`; each label ends a region the code executes
under one lock or as one atomic operation.

| Action | Code |
|---|---|
| `Accept` | `trace_listener_loop_actor` starts a thread |
| `Open` | `trace_root_connection_opened` at the first event |
| `Augment` | `augment_trace_payload_with_reflog_metadata`: the inline path for read-only commands (`AugmentInline`) or the full one (`AugmentFull`) |
| `Stamp` | `next_trace_ingest_seq` |
| `Send`, `SendFails` | `enqueue_trace_payload` |
| `ReadError` | the `?` on `read_json_line` |
| `CloseRecord`, `CloseCheck` | `record_trace_connection_close`, then `enqueue_stale_connection_close_fallbacks`: two lock regions |
| `WorkerRecv`, `WorkerIngest`, `WorkerStops` | the loop of `start_trace_ingest_worker` |
| `RequestShutdown`, `DaemonExits` | `request_shutdown`, the end of `run_daemon` |

`stream` is a history variable: the payloads in the order of their numbers; its
length is the ingress counter. `tracked` stands for `trace_root_is_tracked`,
that is for nine maps that are filled and emptied together. The two lock regions
of the full path of `Augment`, mark activity and everything else, are one step.
`Clear` is `clear_trace_root_tracking`, which the worker calls when a command
has been emitted or its place canceled; whether the normalizer accepts a
terminal event is a choice here and a definition in `FamilySequencer`.

### FamilySequencer

`stream` and `processed` are the promise of `OrderedStream`. A place is a record
in the set `entries[f]`; the key `<<started_at_ns, ordinal>>` orders it.
`lockOf[f]` is the entry of `side_effect_exec_locks`, `lock[t]` the `Arc` a task
keeps, `lockQueue[l]` tokio's fair mutex. Since the garbage collector may remove
the entry of a lock that is in use, the identity of locks matters.

| Action | Code |
|---|---|
| `GitBegins`, `EmitStart`, `EmitExit`, `EmitAtexit`, `ConnectionLost` | git, and what the ingress adds to its events |
| `IngestStart` | `maybe_append_pending_root_from_trace_payload`, `handle_start` |
| `IngestTerminalError` | `finalize_root_exit` fails |
| `IngestTerminalNone`, `IngestTerminalEmit` | the rest of `apply_trace_payload_to_state` |
| `DirectEffect` | `ingest_trace_payload_fast`, for a command without a place |
| `ReplacePendingRoot` | `replace_pending_root_entry` once the lock is held |
| `RequestCheckpoint`, `IngestCaughtUp`, `IngestWaitTimesOut`, `AppendCheckpoint`, `ReceiveReply` | `ingest_checkpoint_payload`, `append_checkpoint_to_family_sequencer` |
| `PopReady`, `RunEntry`, `ReleaseLock` | `drain_ready_family_sequencer_entries_locked` |
| `GcSequencers`, `GcLocks` | `gc_stale_family_state`, which locks one map after the other |

A side effect is the appending of its owner to `effects`; it may fail, which the
drain records and survives.

### RefCapture

A user runs commands, one after the other or from several shells (`Shells`); a
command may move HEAD (`Movers`), start a git elsewhere (`Child`), run in the
wrapper (`Wrapped`), name its worktree when it starts (`Named`: then its window
opens with the start, and it has a place in the sequencer). `Start` to `Exit` are git, which writes events and does not
wait, unless `Prompt`. `Read` is `augment_trace_payload_with_reflog_metadata`
(`ReadHead`, `StartOffset`, `ReadCuts`), `Ingest` the normalizer
(`HandleStart`, `HandleParam`, `HandleRepo`, `HandleExit`, `Finalize`) with the
retention limit of completed roots (a window that does not fit the reflog of the
tree it is read in, `Misplaced`, is an error), `StateRead` and `PostState` the wrapper,
`Overlay` and `OverlayTimeout` `apply_wrapper_state_overlay`, which only the
direct way calls (`Overlaid`), `AsCaptured` the drain of the sequencer and the
direct way without the wrapper, `Apply` the command as its side effect sees it;
the order in which the sequencer drains is `FamilySequencer`'s. Aliases, the targets of clone and init and
the metadata of stash and squash are left out.

### BashTool

`PreQuery`, `CaptureHuman`, `AskHuman`, `PreSnapshot` are the hook before a
command, `PostLoad`, `CaptureAi`, `CaptureAiAsHuman`, `AskAi`, `PostSnapshot`
the one after it; a hook may give up wherever the code checks a time limit, and
an agent may be stopped before its second hook. The daemon's queue holds
checkpoints and commits; the watermarks of a checkpoint are taken in a step of
their own. Reading a capture and sending it is one step. Time is a bounded
clock, `Grace` one unit. The hooks follow a preset like Claude's; a stopped
agent's snapshot counts as active until it expires, which is what the code
does. Left out: snapshot-only presets, refreshes of the index, a restart of the
daemon, size limits.

### WorkingLog, CommitSplit

`WorkingLog` is one file between commits. Its processes are agents, whose hook
runs a checkpoint before and after an edit, an editor that checkpoints on save,
and `git commit` with its checkpoint before and its processing after. `proc[p]`
holds what a process has read; the lock file, reads outside it, the write of a
line that may be cut off, the rewrite as a temporary file and a rename, are
steps. Killed processes and lock timeouts are faults. `Overlap`, `Typing`,
`SaveDelays` and `Returns` name the situations a run allows. The user does not
type while an agent edits. Left out: expiry of markers and archives, captured
checkpoints, line endings, several files.

`CommitSplit` computes, for every three versions of a file and all authors, the
note and INITIAL of `to_authorship_log_and_initial_working_log`, in line numbers
(`CommitLine`, `GapFills`, `PureInsertions`), and is checked against the authors
themselves. The three versions are sets of lines from one ordering, so that
diffs are unique.

### CommandEffects

Users commit, amend, check out, pull, reset and stash while agents edit files;
the daemon applies the events later, in order (`queue`). A log's entry is a text
and the lines of it that are an agent's; `Misread` and `Aligned` are the two ways
the code reads an entry against another text. `Rename`, `Merge`, `Reset`,
`StashRestore`, `Recovered` are the functions the side effects call. An agent's
edit is one event with its captures; commits take whole files. `Sessions` says
which commands a user mixes and `Cases` which of the unusual situations, listed
in the module, may arise. Sessions keep stash and reset apart: a stash leaves a
stale checkpoint in the log, and a later reset loses attributions by it. Left
out: `merge --squash`; a reset that is not hard between commits of diverged
lines (also one to HEAD, after a move from there), which the code takes for a
rebase (`daemon/mod.rs:5971`) and `OneLine` excludes; conflict markers; prompts in
stash notes; the limit of 256 remembered prerequisites.

### RebaseNotes, CherryPick

Lines have unique numbers in file order (`LineVersions`), so diffs are
intersections. `RebaseNotes` commits to a branch and its target, replays the
branch (`Pick`, `Drop`, `Meld`, `Split`, `Change`) and then computes the new
notes: `PairCommits` is `build_rebase_commit_mappings`, `FastPath` the copying
of notes, `SlowPath` the replay of hunks and the transfer of lines. `CherryPick`
runs commands that stop, continue, skip, abort or quit, with the sources the
daemon keeps between them, and writes notes as
`rewrite_authorship_after_cherry_pick` does. `Cases` again names what may happen.
Left out: prompt metrics, merge commits, detached HEAD, equal texts,
`--no-commit`, edits of agents while a pick is resolved.

### NotesSync

A notes commit is an id with its ancestors and its notes. Every git process is a
step: `AddRead`/`AddImport` for the daemon's fast-import, `Fetch`, `Inspect`,
`CopyRef`, `MergeNotes`, the fallback's `FallbackList`, `FallbackResolve`,
`FallbackImport`, and the push from `PushSends` to `PushUpdates` or
`PushRejected` with the attempts of `push_authorship_notes`. `Serialised` says
that adder and syncer of a clone exclude each other, as two side effects of one
family do; a manual fetch does not.

### MetricsQueue, CasQueue, Credentials, MetricsRollup

Each statement of SQLite and each request to the server is a step; answers can
be lost, processes killed. `MetricsQueue` has the daemon, submitters that fall
back to the table and manual flushes, none of which lease; `CasQueue` has leases
that go stale after two clock units, the daemon's copies, and retries with their
backoff. `Credentials` has threads of several processes with `REFRESH_LOCK`, a
file written in two steps, the keyring and the moves into it, and a server that
revokes before it issues. The device flow and several servers are left out.
`MetricsRollup` is one scope of the rollups: statements take row locks, granted
first come first served, and see what was committed when they began.

### ReleaseServer, SelfUpdate, DaemonLifecycle, BlameQueue, BlameLens, EditorCheckpoints

`ReleaseServer`: a build stands for contents and checksums; every `await` of a
handler is a step of `jobs[a]`. `SelfUpdate` adds the daemon, a user and the
background worker of one machine; a fetch is by channel, so the release may
change in between. The install script switches automatic updates off. HTTP
caching, size limits and the Windows installer are left out.

`DaemonLifecycle` is the Unix build: `run_daemon` from the lock to its release,
the listener threads, and clients from `Begin` to `ok` or `failed`. A probing
client holds the lock for a moment; a service that was asked to stop is joined
within half a second or left. Windows recovery, log files, the reuse of pids and
the update itself are left out.

`BlameQueue` and `BlameLens` run on an event loop, with one editor or none that
is active: an event runs to its end, then the promise jobs it left, in order. Left
out: eviction from the cache, colours, hovers, the fetching of prompts.

`EditorCheckpoints` has a timer per file for its saves and its stable text and one
for the user's saves, counted in steps that keep their order (300 < 500 < 2000 <
10000 ms); `Tick` moves the clock when no timer is due. `OpenSnapshot`, `Save`,
`SaveFires`, `KnownFires` and `StableFires` are the handlers and timers of
`AIEditManager` and `KnownHumanCheckpointManager`, `AcceptTab`, `Insert`,
`AfterHook` and `Resume` the override of the completion command up to its awaits.
A text is the number of its lines. What users and sessions wait for is named in
`Hurries`; `Haste` says what they do not wait for. Left out: the version check of
git-ai, and processes that fail.

## Runs

| Run | Instance | Shows |
|---|---|---|
| `seq_order` | two commands that may be killed, a checkpoint, one family, clock up to 2, no collection | `DrainsExclude`, `CheckpointAfterEarlierCommands`, `CommandsInStartOrder`, `WatermarkCoversEffects` |
| `seq_gc` | a command of any kind, a failure, a checkpoint, two collections, fairness | `SlotsMatchPending`, `EffectsAtMostOnce`, `WaitedCheckpointAnswered` |
| `ingress` | a commit and a process it starts, either may be killed, a read error, a shutdown, capacity 2, fairness | `NoNumberLost`, `FallbackAfterEnd`, refinement of `OrderedStream`, `StartedRootEnds`, `WatermarkAdvances` |
| `capture` | two wrapped commands that move HEAD, one with a child, one with a place in the sequencer, late reads | `TimelyMoveKept`, `AppliedOnce` |
| `bash` | two calls in one worktree that may be stopped, a user who edits and commits, timeouts | `UserStaysHuman`, `AgentStaysAi`, `CoveredIsRead`, `EditsReported` |
| `working_log` | an agent, a typing user, an editor, two commits, a killed process, fairness | `AiLinesNoted`, `AppendsKept`, `CommitsNoted` |
| `effects` | four users with different commands, two files, agents | `UncommittedKept`, `CommittedNoted`, `HumanStaysHuman`, `NothingLeftOver` |
| `commit_notes` | every split of four lines; rebases of three commits; cherry-picks of three | `SplitExact`, `RebaseKeepsCredit`, `PicksKeepCredit` |
| `notes` | two clones, two annotated commits, a failure, fairness | `PushedNotesStay`, `AddedNotesKept`, `NotesNeverRegress`, `NotesMeet` |
| `lifecycle` | two clients, three services, a kill, old files, a deleted socket, timeouts | `ServingIsReachable`, `PidNamesHolder` |
| `services` | both queues, credentials in three situations, rollups, releases and updates | refinement of `AtLeastOnce`, `CredentialsAreGood`, `RollupsAreRight`, `ReleasesAreWhole` |
| `editor` | the blame queue alone; its lens with a patient and a hasty user; two files edited by a calm user and a session; one edited in haste | `BlameShowsWhatIs`, `CheckpointsTellAuthors` |

Each property of a run is broken by a mutant of one definition, listed in
`PROJECT.json`; its operator stands in front of the definition it changes.

**Bounds.** `Procs`, `Roots`, `Clients`, `Calls`, `Clones`, `Admins`: two actors
are what it takes to race, a third process lets a command outlive another's
child. `Cap` is 2 instead of 16384, so that a full channel and a full reorder
buffer happen. `MaxClock` 2 of the sequencer allows equal and inverted start
times; `MaxClock` 3 of `BashTool` lets a file be written before, within and
after the grace window. `MaxGc` 2 allows a lock to be replaced twice; `LockIds`
is large enough for an allocation always to succeed (`LockIdsAssumption`).
`MaxFailures`, `MaxFaults`, `MaxReadErrors`, `Crashes`, `Deletes` are 1 or 2: a
later failure of the same kind meets the same states. The stale lease of
`CasQueue` needs `MaxTime` 4, of which the last unit is for retries only
(`LastFault`). Retention limits are 1, batches 1 or 2. `Lines` are four to six:
a hunk needs a line on each side, and two hunks shift each other. `MaxCommits`
3 in rebases and cherry-picks allows one in the middle to be skipped, melded or
split. `Ids` 5 of `NotesSync` covers three notes and two merges. Deadlock is not
checked, since systems rest when their scripts are through; that nobody waits
in a circle is stated where it matters (`UploadsNeverDeadlock` in
`RollupsAreRight`, and the liveness properties).

**Fairness.** Connection threads and the worker are scheduled by the operating
system and tokio, tokio's mutex is first come first served, and blocked
`blocking_send`s are woken: weak fairness of each. `WaitedCheckpointAnswered`
also assumes that git processes end, which is all that a place can wait for.
`CommitsNoted` assumes that the steps of a process follow each other, that a
started commit ends, and that who asks again and again for a lock file that is
again and again free gets it (strong fairness of `Acquire` and `PostCommit`: the
code polls). `NotesMeet` assumes that the steps of a sync follow each other and
that every clone pushes again and again (strong fairness of `StartPush`), as
users do; no push is assumed to succeed.
Requests, kills, failures, timeouts and shutdowns need never happen.

**What the properties except.** `FallbackAfterEnd` is checked with
`RootReadFirst`: the daemon reads the first event of a command before a process
that the command starts connects; without it the property fails, and the code
has no defence. `StartedRootEnds` excepts a shutdown and a connection that
cannot be read. `TimelyMoveKept` is about commands whose start offset was read
before they moved HEAD. `AiLinesNoted`, `AppendsKept` and `CommitsNoted` except
the process that was killed, and the run has no checkpoint during a commit
(`Overlap = {}`). `NotesNeverRegress` excepts what follows a crash of
`git notes merge`. `NothingLeftOver` excepts stashes. `DrainsExclude` is about
the time between collections. `CommitSplit` is checked with staged deletions.
`CheckpointsTellAuthors` is about calm users
and sessions (`Haste = {}`); with completions in haste it still says that what is
saved gets an author. What happens beyond these exceptions is in the next section.

## What disagrees with the repository's own words

`PROJECT.json` lists them under `findings`: what the code does, the comment,
document or test that says otherwise, the property that fails and the constants
of the module with which TLC finds it fail. To see one, write a configuration
with those constants and the property; the remaining constants as in the run of
the module. The properties among them that no run checks (`ReadOnlyNotEnqueued`,
`DrainedBeforeExit`, `FallbackFinalizesRoot`, `RacesAreRetried`, `CountedOnce`,
`ObjectsKept`, `EveryObjectArrives`, `LogoutHolds`, `CapturesOwnMoves`,
`NothingKept`, ...) stand at the end of their modules for that purpose. The most
consequential:

1. `gc_stale_family_state` keeps the idle execution locks and drops those in use:
   a drain that starts after a collection runs beside the one that holds the old
   lock. `EffectsAtMostOnce` survives, because places are popped under the map's
   own lock; the order of side effects does not.
2. The fallback of a killed mutating command has no reflog end cut, the
   normalizer refuses it, and the place blocks its family.
3. A fallback merge of notes takes back what only the remote has changed.
4. `fetch first` is not recognised as a lost race: a push of notes is not retried.
5. Objects the server failed to store are deleted from the daemon's queue; after
   a failed upload nothing of the daemon tries again.
6. Two processes may refresh with the same token; a refresh under way undoes a
   logout.
7. An unstaged deletion shifts the notes of a commit by a line; melding, dropping
   or reordering commits in a rebase moves credit between lines.
8. A second stop of a cherry-pick loses the notes of the whole sequence.

## Proofs

A theorem holds for every value of the constants that satisfies the named
assumptions of the module (`IngressAssumption`, `SequencerAssumption`,
`NotesAssumption`, ...: the constants have their types, the absent value is no
proper one, a new lock can always be allocated) and, where it says so, a
hypothesis on the situation. For every hypothesis that is dropped TLC finds a
counterexample to the properties the table names:

| Hypothesis | What it says, and where |
|---|---|
| `NoGcSpec` | the sequencer without `GcStep`: the collector runs between two phases of use; with it, `DrainsExclude` and the order properties are false |
| `RootReadFirst` | the daemon reads the first event of a root before a process started by it connects; nothing in the code sees to it, and without it `FallbackAfterEnd` is false |
| `Serialised` | the adder and the syncer of a clone exclude each other, as two side effects of one family do in the daemon; without it `AddedNotesKept` is false. `PushedNotesStay` then still holds on the instance of the run, but the proof uses that a fallback merge writes again every note of its parent |
| `~MayReject` | the answer to a direct upload of objects reports none as failed; `flush_cas` of the daemon deletes without looking at the answer, and without it `AtLeastOnceSpec` is false |
| `OneRepository` | no command starts git in the repository of another, in a submodule for one: a `def_repo` names its root, whoever sent it, and moves it there. Without it the exit's window is read in the wrong reflog: `TimelyMoveKept` is false, and so is `AppliedOnce`, since a window longer than that reflog ends the command with an error |
| `Distinct` | each call has an id (`Unnamed = {}`), and no file is written within the grace period of a watermark (`~Quick`). Unnamed calls that overlap take each other's snapshots: `EditsReported` and `UserStaysHuman` are false. A write that the grace period covers makes all four properties of `BashTool` false. For the other two properties only the proof uses the ids |
| `Alone` | one command at a time in a worktree, and only the user commits. An overlapping call's writes are captured as human by the first hook of the other, and so is what a call's own commit carries: `AgentStaysAi` is false |
| `Patient`, `~Lag` | one worktree, no edits of the user while checkpoints are under way; for `UserStaysHuman` also no hook ahead of the replay of a commit. The file watermarks of a family do not tell worktrees apart and are taken from the stats after the content was read, and a replayed commit looks at the snapshots of now: `CoveredIsRead` and `UserStaysHuman` are false |
| `Calm` | one agent, whose tool marks its edits; no checkpoint during a commit, no text that comes back after it was taken out, saves checkpointed with the text of the file. Without any one of the five `AiLinesNoted` is false: the hook before another agent's edit records as human what the first has written and not yet recorded; an edit without a marker is open to such a save from the start; an agent whose line brings the file back to a recorded text records nothing; a checkpoint that a commit overtakes comes after the log has been read; a save with the text of its event takes out of the log what the agent recorded since |

### FamilySequencerProofs

* `TypeCorrect`: `Spec => []TypeOK`. Not inductive by itself: releasing a lock
  takes the tail of its queue, so the proof carries `Inv1`, which adds where
  each task can be (`ControlInv`) and that a task refers to a lock exactly while
  it is in that lock's queue, at its head when it drains (`LockInv`).
* `PlacesNeverLost`: `Spec => []SlotsMatchPending`, garbage collection included.
  The strengthening `Inv2` adds that ordinals identify the entries of a family
  and stay below `next_ordinal` (`OrdinalInv`: an insertion never overwrites a
  place, even when two start times are equal), and that a root whose place is
  being filled has no second one (`TakenInv`). The collector may reset the
  ordinals of a family only because it then has no entries.
* `MutualExclusion`: `NoGcSpec => []DrainsExclude`. Between collections all
  tasks of a family refer to the lock in the map (`OneLock`); with `LockInv` the
  head of its queue is the only one that drains. With collections the statement
  is false.
* `NoEffectTwice`: `Spec => []EffectsAtMostOnce`, garbage collection included.
  `LifeInv` follows a root from its start payload to its completion: git reports
  a start once and first (`StreamInv`), a command keeps its slot until it is
  finalized (`RootInv`), what the worker holds has just been finalized
  (`HandInv`), an entry belongs to its family (`EntriesInv`), a request waits
  for no more than the stream had (`RequestInv`), and only what is completed or
  served has run (`RanInv`). On that rests `UseInv`: a command or checkpoint is
  in one place at a time, the worker's hands, the map, the popped entries of one
  task, or the past. Two drains that overlap after a collection pop different
  entries, so that the statement survives where mutual exclusion does not.
* `StartOrderKept`, `CheckpointsSeeEarlier`, `WatermarkKept`: under `NoGcSpec`,
  `CommandsInStartOrder`, `CheckpointAfterEarlierCommands` and
  `WatermarkCoversEffects`. They share `OrderInv`: a predecessor in the map
  stands in front (`QueueOrderInv`); what was popped has no predecessor left in
  the map, and what ran has none left at all (`SettledInv`); a filled place that
  nobody drains stands behind a pending one (`BlockedInv`). `Precedes` is the
  order of the start payloads for commands, and for a checkpoint the starts that
  were in the ingress when it was requested. A request's place comes after all
  of them only because it waits for the watermark before it takes one.

### TraceIngressProofs

* `IngressTypeCorrect`: `Spec => []TypeOK`, from `Inv` with `ThreadInv`: a
  thread does not run past its events and has a frame while it stamps or sends.
* `InOrderDelivery`: `Spec => DeliversInOrder`, the refinement of
  `OrderedStream`. `FrameInv` says that every frame on its way carries the
  payload its number was given to, and that the worker expects the number after
  the last one applied. Lemma `Flow` reduces every step to three shapes: a
  payload is numbered, the expected one is applied, or neither.
* `NumbersKept`: `Spec => []NoNumberLost`, from the same lemma.
* `FallbackWaitsForEnd`: with `RootReadFirst`, `Spec => []FallbackAfterEnd`. The
  inductive invariant `EndInv` adds where threads are relative to their root
  (`PlaceInv`), that what a payload says of a root's end is true (`ToldInv`),
  that the normalizer forgets only roots that ended (`NormInv`), and, the heart
  of it, what the count of open connections is worth (`CountInv`): while a root
  is tracked and runs it counts at least the connections whose threads will
  still decrement it, although a finalization in between forgets the count.

### NotesSyncProofs

* `PushedNotesAreKept`, `AddedNotesAreKept`: with `Serialised`,
  `Spec => []PushedNotesStay` and `Spec => []AddedNotesKept`, and the types
  (`NotesTypeCorrect`). Neither is inductive: whether a push keeps a note depends
  on the history of the tip it pushes. `StoreInv` says that notes commits contain
  their ancestors and a note for every commit an ancestor has one for; `SyncInv`
  that what a syncer has read of its own clone still holds when it uses it, while
  what it has read of the remote need not; `HistoryInv` that what was reported is
  contained in the ref. A push is then safe because git replaces the advertised
  tip only, and the syncer pushes what contains it. Lemma `Forward` shows that no
  step moves a ref to what does not contain its value.

### UploadQueuesProofs

* `MetricsAtLeastOnce`, `ObjectsAtLeastOnce`: the queues implement `AtLeastOnce`,
  the second with `~MayReject`. Each proof first classifies the steps by what
  they do to the table and the server (inserted, dropped, taken), and then maps
  each class to a step of `AtLeastOnce` or to a stutter. `JobsInv` and
  `UploadsInv` carry the server's answer to the deletion that relies on it,
  however many other drains, expired leases and deaths come between. For objects
  the invariant also says that the id of a leased record is never that of another
  object, even when the record is gone and the object has been enqueued anew:
  SQLite's AUTOINCREMENT, without which an old lease would delete a new row.
* `CommittedObjectsAreKept`: what a commit refers to is queued or on the server.

### WorkingLogProofs

* `AppendsAreKept`: `Spec => []AppendsKept`, for any number of agents, lines,
  edits and commits, overlapping or not, and the types (`WorkingLogTypeCorrect`).
  While a checkpoint or the refresh after a commit rewrites a log, what was
  appended is in no file but in the hands of the process. `Exclusion` says that
  who reads, computes or rewrites holds the lock of that log, which is what the
  steps between the truncation and the writing need; `Kept`, that what was
  appended is in the log, or in what the one process that is writing it is about
  to write. The types carry that a checkpoint never writes an empty log. An
  append that finds its checkpoint in the log already is dropped without being
  counted; what that costs is a finding, not this theorem.

* `AgentLinesAreNoted`: with `Calm`, `Spec => []AiLinesNoted`. The invariant
  `Noted` follows a line from the edit to the note. There is always one sequence
  of checkpoints that tells of the file (`Tells`): the log of HEAD, what a
  process is about to write to it, and during a commit that of the parent. It
  `Knows` every line of the agent that the commit it belongs to has not: the line
  is in the last text with the agent as its author, or the agent has still to
  record it (`Unrecorded`). A save cannot take the line in between, since the
  marker stands while the agent is not idle, and an entry under computation has
  read under the lock what is still in the log (`StageOf`). An entry that is
  dropped as a duplicate repeats a text that has the line, and lines stay in the
  texts of a log while they are in the file, so that the last text has it too.
  The commit carries what the log knows through the note (`NoteInv`) and INITIAL
  (`Carried`), and the log of the new HEAD is empty until then (`CommitInv`).
  `EverInv` says that a line the user or the agent adds was in no text before:
  this is where texts that come back are excluded.

### DaemonLifecycleProofs

* `PidFileIsHolders`, `ServingKeepsItsPaths`: `Spec => []PidNamesHolder` and
  `Spec => []ServingIsReachable`, and the types (`LifecycleTypeCorrect`). The
  proof adds that the lock file has one holder from `Acquire` to `ReleaseLock`
  (`LockInv`), that listener threads run only between the clearing of the old
  socket files and their joining (`ThreadsInv`), and that only a service that was
  told to leaves (`ClosingInv`). Files are written and removed under the lock:
  that is why a service late with its shutdown takes nothing from its successor.

### RefCaptureProofs

* `CommandsAreAppliedOnce`, `TimelyMovesAreKept`: with `OneRepository`,
  `Spec => []AppliedOnce` and `Spec => []TimelyMoveKept`, for any number of
  commands, worktrees and shells, any retention limit, with and without `Prompt`
  and `Timeouts`. `FlowInv` follows each command from its events to its side
  effect, by parts. `OrderOf`: what its root wrote is in order across the
  connection, the thread and the queue. `OnceOf`: while a start is on its way
  nothing of it is pending or emitted, so that one start makes one command; the
  second of exit and atexit finds none, and needs no memory of completed roots
  for that. `NoneLostOf` and `PlacedOf`: the start, the worktree and the exit are
  each on their way or have done their work. `WindowOf`: until the exit is read
  the start offset is that of the command's own worktree. `TimelyOf`: a move that
  came after the start offset was read stays inside the window, in the ingress,
  in the queue and in the command. A late child's `def_repo` may come after the
  exit; it opens a window that no exit reads, which is why these parts speak of
  the time before it (`ExitAhead`). Lemma `IngestIs` gives the normalizer's step
  four shapes (kept, begun, placed, ended), `OthersKeep` shows once for all steps
  that what is none of a command's leaves it as it is.

### BashToolProofs

* `EditsAreReported`: with `Distinct`, `Spec => []EditsReported`, for any number
  of worktrees, files and overlapping calls, whoever commits and whatever fails.
  `EditInv` says that a hook waits for one live checkpoint at a time, which has
  read everything when it is answered (`WaitInv`); that a snapshot is of the
  worktree of its call and never ahead of the stats (`SnapInv`); and the heart of
  it, that whatever a call has written and no checkpoint has read is shown by
  its own snapshot, if it has one (`WriteInv`): it was not covered when it was
  written, so it is not covered later, and its stat has changed since.
* `AgentsKeepTheirs`: with `Alone` too, `Spec => []AgentStaysAi`. While a call is
  before its command it is the only one in flight in its worktree (`SoloInv`), so
  that by `WriteInv` only stopped calls have something unread there; what waits
  in the queue as human is of stopped calls only (`TextInv`).
* `NothingIsHidden`: with `Distinct` and `Patient`, `Spec => []CoveredIsRead`.
  What is queued or under way has read what the user wrote to its paths
  (`ReadInv`), so that only files without anything of the user get a watermark.
* `UsersKeepTheirs`: with `~Lag` too, `Spec => []UserStaysHuman`, whoever commits
  and however many calls overlap. The watermarks a hook holds between its query
  and its snapshot hide nothing of the user, and when the command runs everything
  of the user has been read (`BeforeInv`); a queued commit of the user finds no
  call in flight when it is replayed (`UserTextInv`), so that by `SnapInv` a
  snapshot it takes for active is that of a stopped agent.

### Only model-checked

The liveness properties and the action property `NotesNeverRegress` (TLAPS
proves nothing that rests on fairness; whether a note goes back depends on
what a three-way merge chooses in every history of notes commits), and the
properties of the modules without proofs: `CommandEffects`, the notes of commits,
rebases and picks, credentials, rollups, releases and the editor. What their
recursive operators compute for every input is induction over data, which the
installed provers cannot do.

## Not modelled

* Pure I/O and formatting: command analyzers, argument parsing, reports, blame,
  diff, search, `install-hooks`, the plugins of other editors.
* Of the server: dashboards, administration, reports, bundles, retention and
  login pages, which are queries and single statements over its database.
* Byte-range attribution and move detection inside a line, statistics, the text
  of prompts and notes: functions of text, which the modules on lines abstract
  to sets of lines.
* Poisoned locks: the code only poisons one by a panic while it holds it, and
  such a panic is caught or ends the thread.
* The vendored `interprocess` and the protocol crate's types.

## Plan

1. `CommitSplit`: with everything staged, the note is complete and sound.
2. `Credentials`: a grant has one good refresh token.
3. `BlameQueue`: the queue keeps its order.
