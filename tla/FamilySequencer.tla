--------------------------- MODULE FamilySequencer ---------------------------
(***************************************************************************)
(* The per-family command sequencer of the git-ai daemon                   *)
(* (src/src/daemon/mod.rs).                                                *)
(*                                                                         *)
(* Git processes report their life cycle as trace2 payloads.  One ingest   *)
(* worker consumes the payloads in the order of their ingress sequence     *)
(* numbers (module TraceIngress shows that it does); here that order is    *)
(* the sequence "stream", its length is the high watermark and "processed" *)
(* is the processed watermark.  Checkpoint requests arrive on control      *)
(* connections, one task each.  Commands and checkpoints of a repository   *)
(* family meet in a BTreeMap ordered by (start time, ordinal); the start   *)
(* of a command reserves its place with a PendingRoot entry, its terminal  *)
(* payload fills the place, and whoever holds the family's execution lock  *)
(* drains the filled prefix.                                               *)
(*                                                                         *)
(* Of the normalizer only the life cycle of a root is kept: absent,        *)
(* pending, completed, or a deferred exit.                                 *)
(***************************************************************************)
EXTENDS Integers, Sequences, FiniteSets

CONSTANTS
    Families,     (* repository families (git common dirs)                 *)
    Roots,        (* root sids: one git process each                       *)
    Clients,      (* control connections, one checkpoint request each      *)
    Worker,       (* the trace ingest worker task                          *)
    FamilyOf,     (* the family a root's command runs in                   *)
    RepoOf,       (* the family a checkpoint request resolves to           *)
    LockIds,      (* identities of execution lock objects                  *)
    None,         (* absence: Rust's Option::None                          *)
    Commands,     (* the command lines considered: a subset of Attr        *)
    Killable,     (* roots whose git process may die without a terminal    *)
                  (* trace2 event (a signal)                               *)
    MaxClock,     (* bound: the clock                                      *)
    MaxFailures,  (* bound: normalizer and side effect failures            *)
    MaxGc         (* bound: garbage collections                            *)

Tasks == Clients \cup {Worker}

\* What a command line fixes.  hint: the start payload names a worktree and the
\* command takes part in the sequencer; mutates: command_may_mutate_refs.
Attr == [hint : BOOLEAN, mutates : BOOLEAN]

ASSUME SequencerAssumption ==
    /\ FamilyOf \in [Roots -> Families]
    /\ RepoOf \in [Clients -> Families]
    /\ Roots \cap Clients = {}
    /\ Worker \notin Clients
    /\ Commands \subseteq Attr
    /\ Killable \subseteq Roots
    /\ None \notin Nat \X Nat
    /\ None \notin LockIds
    /\ MaxClock \in Nat
    /\ MaxFailures \in Nat
    /\ MaxGc \in Nat

\* An allocation is always possible: the map and the tasks never refer to all
\* the lock identities there are.
ASSUME LockIdsAssumption ==
    \A g \in [Families -> LockIds \cup {None}], h \in [Tasks -> LockIds \cup {None}] :
        \E l \in LockIds : (\A f \in Families : g[f] # l) /\ (\A t \in Tasks : h[t] # l)

VARIABLES
    git,          (* life cycle of the git process behind a root           *)
    attr,         (* what its command line fixes: Attr                     *)
    startedAt,    (* the time git stamps on its start event                *)
    clock,        (* the machine's clock                                   *)
    stream,       (* payloads in ingress order                             *)
    processed,    (* processed_trace_ingest_seq                            *)
    norm,         (* TraceNormalizerState of a root                        *)
    entries,      (* FamilySequencerState.entries                          *)
    nextOrdinal,  (* FamilySequencerState.next_ordinal                     *)
    slots,        (* pending_root_slots_by_root                            *)
    lockOf,       (* side_effect_exec_locks                                *)
    lockQueue,    (* tokio's FIFO mutex: the head holds, the rest wait     *)
    lock,         (* the Arc of the lock a task holds                      *)
    pc,           (* where a task is                                       *)
    cur,          (* the root the worker's payload belongs to              *)
    taken,        (* the slot replace_pending_root_entry took              *)
    repl,         (* the kind of entry it puts there                       *)
    ready,        (* entries popped and not yet run                        *)
    request,      (* a client's request: see Request                       *)
    reply,        (* what the client was told                              *)
    effects,      (* history: who's side effect ran, in order              *)
    failures,     (* failures so far                                       *)
    gcState,      (* gc_stale_family_state between its lock regions        *)
    gcRuns        (* garbage collections so far                            *)

envVars    == <<git, attr, startedAt, clock>>
seqVars    == <<entries, nextOrdinal, slots>>
lockVars   == <<lockOf, lockQueue, lock>>
workerVars == <<cur, taken, repl>>
clientVars == <<request, reply>>
gcVars     == <<gcState, gcRuns>>
vars == <<envVars, stream, processed, norm, seqVars, lockVars, pc, workerVars,
          ready, clientVars, effects, failures, gcVars>>

-----------------------------------------------------------------------------
(* Data.                                                                    *)

\* cut: the payload carries the reflog end cut added at ingress.
Payload == [root : Roots, ev : {"start", "exit", "atexit", "fallback"}, cut : BOOLEAN]

Order == Nat \X Nat      \* <<started_at_ns, ordinal>>

Before(a, b) == a[1] < b[1] \/ (a[1] = b[1] /\ a[2] < b[2])

Kinds == {"pending", "ready", "canceled", "checkpoint"}

Entry == [order : Order, kind : Kinds, who : Roots \cup Clients]

Pending(o, r) == [order |-> o, kind |-> "pending", who |-> r]

\* BTreeMap::insert: an entry with the same key is overwritten.
Insert(es, e) == {x \in es : x.order # e.order} \cup {e}

\* Mutant: only checkpoints wait for the places in front of them.
ReadyCommands(es) ==
    {e \in es : /\ e.kind # "pending"
                /\ e.kind = "checkpoint" =>
                     \A q \in es : q.kind = "pending" => Before(e.order, q.order)}

\* Mutant: one entry per drain.
ReadyHead(es) ==
    {e \in es : e.kind # "pending" /\ \A q \in es \ {e} : Before(e.order, q.order)}

\* The entries in front of the first PendingRoot.
ReadyPrefix(es) ==
    {e \in es : /\ e.kind # "pending"
                /\ \A q \in es : q.kind = "pending" => Before(e.order, q.order)}

\* Mutant: the entries are read and not removed.
AfterPeek(es) == es

\* What is left in the map.
AfterPop(es) == es \ ReadyPrefix(es)

\* The next of the popped entries to run.
IsFirst(e, es) == e \in es /\ \A q \in es : ~Before(q.order, e.order)

TaskFamily(t) == IF t = Worker THEN FamilyOf[cur] ELSE RepoOf[t]

\* Mutant: lock() is called and not awaited.
HoldsArc(t) == lock[t] # None

HoldsLock(t) == /\ lock[t] # None
                /\ lockQueue[lock[t]] # <<>>
                /\ Head(lockQueue[lock[t]]) = t

Init ==
    /\ git = [r \in Roots |-> "idle"]
    /\ attr \in [Roots -> Commands]
    /\ startedAt = [r \in Roots |-> 0]
    /\ clock = 0
    /\ stream = <<>>
    /\ processed = 0
    /\ norm = [r \in Roots |-> "absent"]
    /\ entries = [f \in Families |-> {}]
    /\ nextOrdinal = [f \in Families |-> 1]
    /\ slots = [r \in Roots |-> None]
    /\ lockOf = [f \in Families |-> None]
    /\ lockQueue = [l \in LockIds |-> <<>>]
    /\ lock = [t \in Tasks |-> None]
    /\ pc = [t \in Tasks |-> "idle"]
    /\ cur = None
    /\ taken = None
    /\ repl = "canceled"
    /\ ready = [t \in Tasks |-> {}]
    /\ request = [c \in Clients |-> None]
    /\ reply = [c \in Clients |-> None]
    /\ effects = <<>>
    /\ failures = 0
    /\ gcState = "idle"
    /\ gcRuns = 0

-----------------------------------------------------------------------------
(* Git processes and their trace connections: the environment.  Git stamps  *)
(* its start time before the payload reaches the ingress counter, so the    *)
(* order of the stamps need not be the order of the stream.                 *)

\* now_unix_nanos: time may have passed, or not visibly.
ReadClock == clock' \in {t \in {clock, clock + 1} : t <= MaxClock}

GitBegins(r) ==
    /\ git[r] = "idle"
    /\ git' = [git EXCEPT ![r] = "begun"]
    /\ ReadClock
    /\ startedAt' = [startedAt EXCEPT ![r] = clock']
    /\ UNCHANGED <<attr, stream, processed, norm, seqVars, lockVars, pc, workerVars,
                   ready, clientVars, effects, failures, gcVars>>

Emit(r, ev, cut, from, to) ==
    /\ git[r] = from
    /\ git' = [git EXCEPT ![r] = to]
    /\ stream' = Append(stream, [root |-> r, ev |-> ev, cut |-> cut])
    /\ UNCHANGED <<attr, startedAt, clock, processed, norm, seqVars, lockVars, pc,
                   workerVars, ready, clientVars, effects, failures, gcVars>>

EmitStart(r) == Emit(r, "start", FALSE, "begun", "running")

\* The exit payload of a mutating command gets the end cut, unless the reflogs
\* cannot be read.
EmitExit(r) == \E cut \in {FALSE, attr[r].mutates} :
                   Emit(r, "exit", cut, "running", "exited")

\* The exit payload removed the ingress state, so atexit carries no cut.
EmitAtexit(r) == Emit(r, "atexit", FALSE, "exited", "done")

\* The process died: its connection closes and the daemon enqueues a
\* synthetic atexit that bypasses the capture of reflog metadata.
ConnectionLost(r) ==
    /\ r \in Killable
    /\ Emit(r, "fallback", FALSE, "running", "done")

-----------------------------------------------------------------------------
(* Execution locks.                                                         *)

\* A new Arc<AsyncMutex>: an identity nothing refers to.
FreshLock == CHOOSE l \in LockIds : /\ \A f \in Families : lockOf[f] # l
                                   /\ \A t \in Tasks : lock[t] # l

\* side_effect_exec_lock, then lock().await joins the mutex's queue.
JoinLock(t, f) ==
    LET l == IF lockOf[f] # None THEN lockOf[f] ELSE FreshLock IN
    /\ lockOf' = [lockOf EXCEPT ![f] = l]
    /\ lockQueue' = [lockQueue EXCEPT ![l] = Append(@, t)]
    /\ lock' = [lock EXCEPT ![t] = l]

Goto(t, label) == pc' = [pc EXCEPT ![t] = label]

-----------------------------------------------------------------------------
(* The ingest worker: apply_trace_payload_to_state.                         *)

NextPayload == stream[processed + 1]

WorkerTakes(events) ==
    /\ pc[Worker] = "idle"
    /\ processed < Len(stream)
    /\ NextPayload.ev \in events

TerminalEvents == {"exit", "atexit", "fallback"}

\* Something the code cannot rule out went wrong.
Fail == failures < MaxFailures /\ failures' = failures + 1

PayloadDone == processed' = processed + 1

\* The start payload reserves the command's place.  The sequencer map and the
\* slot map are locked one after the other, but only the worker reads slots.
AppendPendingRoot(r) ==
    IF attr[r].hint /\ slots[r] = None
    THEN LET f == FamilyOf[r]
             o == <<startedAt[r], nextOrdinal[f]>>
         IN /\ entries' = [entries EXCEPT ![f] = Insert(@, Pending(o, r))]
            /\ nextOrdinal' = [nextOrdinal EXCEPT ![f] = @ + 1]
            /\ slots' = [slots EXCEPT ![r] = o]
    ELSE UNCHANGED seqVars

IngestStart ==
    /\ WorkerTakes({"start"})
    /\ LET r == NextPayload.root IN
         /\ AppendPendingRoot(r)
         /\ norm' = [norm EXCEPT ![r] = "pending"]
    /\ PayloadDone
    /\ UNCHANGED <<envVars, stream, lockVars, pc, workerVars, ready, clientVars,
                   effects, failures, gcVars>>

\* finalize_root_exit can only fail for this command.
MissingCut(p) == attr[p.root].mutates /\ ~p.cut

\* finalize_root_exit fails: the root is forgotten, the ingest error is logged
\* and the reserved place stays as it is.
IngestTerminalError ==
    /\ WorkerTakes(TerminalEvents)
    /\ LET r == NextPayload.root IN
         /\ norm[r] = "pending"
         /\ \/ MissingCut(NextPayload) /\ UNCHANGED failures
            \/ ~MissingCut(NextPayload) /\ Fail
         /\ norm' = [norm EXCEPT ![r] = "absent"]
    /\ PayloadDone
    /\ UNCHANGED <<envVars, stream, seqVars, lockVars, pc, workerVars, ready,
                   clientVars, effects, gcVars>>

\* replace_pending_root_entry up to the await of the execution lock.
TakeSlot(r, kind) ==
    /\ slots[r] # None
    /\ taken' = slots[r]
    /\ slots' = [slots EXCEPT ![r] = None]
    /\ repl' = kind
    /\ cur' = r
    /\ JoinLock(Worker, FamilyOf[r])
    /\ Goto(Worker, "queued")
    /\ UNCHANGED <<entries, nextOrdinal, processed, ready>>

\* A terminal payload of a root that is not pending in the normalizer emits no
\* command; a reserved place is canceled.
IngestTerminalNone ==
    /\ WorkerTakes(TerminalEvents)
    /\ LET r == NextPayload.root IN
         /\ norm[r] # "pending"
         /\ norm' = [norm EXCEPT ![r] = IF @ = "absent" THEN "deferred" ELSE @]
         /\ \/ TakeSlot(r, "canceled")
            \/ /\ slots[r] = None
               /\ PayloadDone
               /\ UNCHANGED <<seqVars, lockVars, pc, workerVars, ready>>
    /\ UNCHANGED <<envVars, stream, clientVars, effects, failures, gcVars>>

\* A command is emitted: it fills its place, or, when its start reserved none,
\* it is routed at once, outside the execution lock.
IngestTerminalEmit ==
    /\ WorkerTakes(TerminalEvents)
    /\ LET r == NextPayload.root IN
         /\ norm[r] = "pending"
         /\ ~MissingCut(NextPayload)
         /\ norm' = [norm EXCEPT ![r] = "completed"]
         /\ \/ TakeSlot(r, "ready") /\ UNCHANGED failures
            \/ /\ slots[r] = None
               /\ cur' = r
               /\ Goto(Worker, "direct")
               /\ UNCHANGED <<seqVars, lockVars, processed, taken, repl, ready, failures>>
            \/ /\ slots[r] = None            \* route_command fails
               /\ Fail
               /\ PayloadDone
               /\ UNCHANGED <<seqVars, lockVars, pc, workerVars, ready>>
    /\ UNCHANGED <<envVars, stream, clientVars, effects, gcVars>>

\* The side effect of a command routed directly; its failure is only recorded.
DirectEffect ==
    /\ pc[Worker] = "direct"
    /\ effects' = Append(effects, cur)
    /\ cur' = None
    /\ PayloadDone
    /\ Goto(Worker, "idle")
    /\ UNCHANGED <<envVars, stream, norm, seqVars, lockVars, taken, repl, ready,
                   clientVars, failures, gcVars>>

\* Mutant: canceling a place does not drain what waited behind it.
AfterReplaceCommandOnly == IF repl = "ready" THEN "pop" ELSE "release"

AfterReplace == "pop"

\* The second half of replace_pending_root_entry, under the execution lock; the
\* two error returns leave the sequencer alone and release the lock.
ReplacePendingRoot ==
    /\ pc[Worker] = "queued"
    /\ HoldsLock(Worker)
    /\ LET f == FamilyOf[cur]
           hit == {e \in entries[f] : e.order = taken /\ e.kind = "pending"}
       IN IF hit # {}
          THEN /\ entries' = [entries EXCEPT ![f] =
                     Insert(@, [order |-> taken, kind |-> repl, who |-> cur])]
               /\ Goto(Worker, AfterReplace)
          ELSE /\ Goto(Worker, "release")
               /\ UNCHANGED entries
    /\ UNCHANGED <<envVars, stream, processed, norm, nextOrdinal, slots, lockVars,
                   workerVars, ready, clientVars, effects, failures, gcVars>>

-----------------------------------------------------------------------------
(* Checkpoint requests: ingest_checkpoint_payload.                          *)

\* Live requests and wait=true callers first wait for trace ingest through the
\* high watermark; captured, unwaited ones do not.
RequestCheckpoint(c) ==
    /\ pc[c] = "idle"
    /\ \E live, wait \in BOOLEAN :
         request' = [request EXCEPT ![c] =
             [wait |-> wait,
              through |-> IF live \/ wait THEN Len(stream) ELSE 0]]
    /\ Goto(c, "ingest")
    /\ UNCHANGED <<envVars, stream, processed, norm, seqVars, lockVars, workerVars,
                   ready, reply, effects, failures, gcVars>>

\* Mutant: the last payload may still be in progress.
NearlyProcessedThrough(seq) == processed + 1 >= seq

ProcessedThrough(seq) == processed >= seq

IngestCaughtUp(c) ==
    /\ pc[c] = "ingest"
    /\ ProcessedThrough(request[c].through)
    /\ JoinLock(c, RepoOf[c])
    /\ Goto(c, "queued")
    /\ UNCHANGED <<envVars, stream, processed, norm, seqVars, workerVars, ready,
                   clientVars, effects, failures, gcVars>>

\* The five second deadline of wait_for_trace_ingest_processed_through.
IngestWaitTimesOut(c) ==
    /\ pc[c] = "ingest"
    /\ ~ProcessedThrough(request[c].through)
    /\ reply' = [reply EXCEPT ![c] = "timeout"]
    /\ Goto(c, "done")
    /\ UNCHANGED <<envVars, stream, processed, norm, seqVars, lockVars, workerVars,
                   ready, request, effects, failures, gcVars>>

\* append_checkpoint_to_family_sequencer: stamped when the lock is held.
AppendCheckpoint(c) ==
    /\ pc[c] = "queued"
    /\ HoldsLock(c)
    /\ ReadClock
    /\ LET f == RepoOf[c] IN
         /\ entries' = [entries EXCEPT ![f] =
                Insert(@, [order |-> <<clock', nextOrdinal[f]>>,
                           kind |-> "checkpoint", who |-> c])]
         /\ nextOrdinal' = [nextOrdinal EXCEPT ![f] = @ + 1]
    /\ Goto(c, "pop")
    /\ UNCHANGED <<git, attr, startedAt, stream, processed, norm, slots, lockVars,
                   workerVars, ready, clientVars, effects, failures, gcVars>>

\* A waited checkpoint's response arrives on its oneshot channel.
ReceiveReply(c) ==
    /\ pc[c] = "await"
    /\ reply[c] # None
    /\ Goto(c, "done")
    /\ UNCHANGED <<envVars, stream, processed, norm, seqVars, lockVars, workerVars,
                   ready, clientVars, effects, failures, gcVars>>

-----------------------------------------------------------------------------
(* drain_ready_family_sequencer_entries_locked, by any task.                *)

AfterEntry(rest) == IF rest = {} THEN "release" ELSE "run"

PopReady(t) ==
    /\ pc[t] = "pop"
    /\ LET f == TaskFamily(t) IN
         /\ ready' = [ready EXCEPT ![t] = ReadyPrefix(entries[f])]
         /\ entries' = [entries EXCEPT ![f] = AfterPop(@)]
         /\ Goto(t, AfterEntry(ReadyPrefix(entries[f])))
    /\ UNCHANGED <<envVars, stream, processed, norm, nextOrdinal, slots, lockVars,
                   workerVars, clientVars, effects, failures, gcVars>>

\* The entry is finished: a checkpoint that is waited for is answered.
FinishEntry(t, e, answer) ==
    /\ reply' = IF e.kind = "checkpoint" /\ request[e.who].wait
                THEN [reply EXCEPT ![e.who] = answer] ELSE reply
    /\ ready' = [ready EXCEPT ![t] = @ \ {e}]
    /\ Goto(t, AfterEntry(ready[t] \ {e}))

\* One turn of the loop over the popped entries: the command or checkpoint is
\* routed to the family actor and its side effect runs.  An error or a panic
\* on the way is recorded and does not stop the drain.
RunEntry(t) ==
    /\ pc[t] = "run"
    /\ \E e \in ready[t] :
         /\ IsFirst(e, ready[t])
         /\ \/ /\ e.kind = "canceled"
               /\ FinishEntry(t, e, "ok")
               /\ UNCHANGED <<effects, failures>>
            \/ /\ e.kind # "canceled"
               /\ effects' = Append(effects, e.who)
               /\ \/ FinishEntry(t, e, "ok") /\ UNCHANGED failures
                  \/ FinishEntry(t, e, "error") /\ Fail
    /\ UNCHANGED <<envVars, stream, processed, norm, seqVars, lockVars, workerVars,
                   request, gcVars>>

\* The guard is dropped; the worker is done with its payload, a client waits
\* for its answer or is done.
ReleaseLock(t) ==
    /\ pc[t] = "release"
    /\ lockQueue' = [lockQueue EXCEPT ![lock[t]] = Tail(@)]
    /\ lock' = [lock EXCEPT ![t] = None]
    /\ IF t = Worker
       THEN /\ PayloadDone
            /\ cur' = None
            /\ taken' = None
            /\ Goto(t, "idle")
       ELSE /\ Goto(t, IF request[t].wait THEN "await" ELSE "done")
            /\ UNCHANGED <<processed, cur, taken>>
    /\ UNCHANGED <<envVars, stream, norm, seqVars, lockOf, repl, ready, clientVars,
                   effects, failures, gcVars>>

-----------------------------------------------------------------------------
(* gc_stale_family_state: the worker calls it every 500 payloads, the       *)
(* update check thread every hour, so it may run at any time.  Each map has *)
(* a lock of its own; the two regions that matter here are two steps.       *)

\* Mutant: a sequencer that waits for its commands counts as idle.
NothingToRun(f) == \A e \in entries[f] : e.kind = "pending"

NoEntries(f) == entries[f] = {}

\* family_sequencers_by_family.retain: an absent sequencer is one without
\* entries whose next ordinal is 1, which is how it is created again.
GcSequencers ==
    /\ gcState = "idle"
    /\ gcRuns < MaxGc
    /\ gcRuns' = gcRuns + 1
    /\ gcState' = "locks"
    /\ entries' = [f \in Families |-> IF NoEntries(f) THEN {} ELSE entries[f]]
    /\ nextOrdinal' = [f \in Families |-> IF NoEntries(f) THEN 1 ELSE nextOrdinal[f]]
    /\ UNCHANGED <<envVars, stream, processed, norm, slots, lockVars, pc, workerVars,
                   ready, clientVars, effects, failures>>

\* Arc::strong_count(lock) <= 1: nobody but the map refers to the lock.
StrongCountIsOne(l) == \A t \in Tasks : lock[t] # l

\* retain(|_, lock| strong_count(lock) <= 1)
GcLocks ==
    /\ gcState = "locks"
    /\ gcState' = "idle"
    /\ lockOf' = [f \in Families |->
                     IF lockOf[f] # None /\ StrongCountIsOne(lockOf[f])
                     THEN lockOf[f] ELSE None]
    /\ UNCHANGED <<envVars, stream, processed, norm, seqVars, lockQueue, lock, pc,
                   workerVars, ready, clientVars, effects, failures, gcRuns>>

-----------------------------------------------------------------------------

GitStep == \E r \in Roots : \/ GitBegins(r)
                            \/ EmitStart(r)
                            \/ EmitExit(r)
                            \/ EmitAtexit(r)
                            \/ ConnectionLost(r)

WorkerStep == \/ IngestStart
              \/ IngestTerminalError
              \/ IngestTerminalNone
              \/ IngestTerminalEmit
              \/ DirectEffect
              \/ ReplacePendingRoot

ClientStep(c) == \/ IngestCaughtUp(c)
                 \/ AppendCheckpoint(c)
                 \/ ReceiveReply(c)

DrainStep(t) == \/ PopReady(t)
                \/ RunEntry(t)
                \/ ReleaseLock(t)

DaemonStep == \/ WorkerStep
              \/ \E c \in Clients : ClientStep(c) \/ RequestCheckpoint(c)
                                                  \/ IngestWaitTimesOut(c)
              \/ \E t \in Tasks : DrainStep(t)

GcStep == GcSequencers \/ GcLocks

Next == GitStep \/ DaemonStep \/ GcStep

Spec == Init /\ [][Next]_vars

\* The daemon between two garbage collections.
NoGcNext == GitStep \/ DaemonStep

NoGcSpec == Init /\ [][NoGcNext]_vars

\* Tokio polls every ready task, its mutex is FIFO, and git processes end.
\* Requests, kills, failures and timeouts need never happen.
Fairness ==
    /\ WF_vars(WorkerStep)
    /\ \A c \in Clients : WF_vars(ClientStep(c))
    /\ \A t \in Tasks : WF_vars(DrainStep(t))
    /\ \A r \in Roots : WF_vars(EmitStart(r) \/ EmitExit(r) \/ EmitAtexit(r))

FairSpec == Spec /\ Fairness

-----------------------------------------------------------------------------
(* Correctness.                                                             *)

PcLabels == {"idle", "direct", "ingest", "queued", "pop", "run", "release",
             "await", "done"}

TypeOK ==
    /\ git \in [Roots -> {"idle", "begun", "running", "exited", "done"}]
    /\ attr \in [Roots -> Attr]
    /\ startedAt \in [Roots -> Nat]
    /\ clock \in Nat
    /\ stream \in Seq(Payload)
    /\ processed \in Nat
    /\ norm \in [Roots -> {"absent", "pending", "deferred", "completed"}]
    /\ entries \in [Families -> SUBSET Entry]
    /\ nextOrdinal \in [Families -> Nat]
    /\ slots \in [Roots -> Order \cup {None}]
    /\ lockOf \in [Families -> LockIds \cup {None}]
    /\ lockQueue \in [LockIds -> Seq(Tasks)]
    /\ lock \in [Tasks -> LockIds \cup {None}]
    /\ pc \in [Tasks -> PcLabels]
    /\ cur \in Roots \cup {None}
    /\ taken \in Order \cup {None}
    /\ repl \in {"ready", "canceled"}
    /\ ready \in [Tasks -> SUBSET Entry]
    /\ request \in [Clients -> [wait : BOOLEAN, through : Nat] \cup {None}]
    /\ reply \in [Clients -> {"ok", "error", "timeout", None}]
    /\ effects \in Seq(Roots \cup Clients)
    /\ failures \in Nat
    /\ gcState \in {"idle", "locks"}
    /\ gcRuns \in Nat

Ran(x) == \E i \in 1..Len(effects) : effects[i] = x

\* The worker is between taking a slot and filling it.
Replacing(r) == pc[Worker] = "queued" /\ cur = r

\* A command whose start reserved a place that has not been settled yet.
Unsettled(r) ==
    \/ slots[r] # None
    \/ \E e \in entries[FamilyOf[r]] : e.who = r
    \/ \E t \in Tasks : \E e \in ready[t] : e.who = r /\ e.kind # "canceled"

Position(r, ev) == {i \in 1..Len(stream) : stream[i].root = r /\ stream[i].ev \in ev}

(* A PendingRoot entry and the slot that leads to it are never separated,   *)
(* whatever drains and garbage collections happen in between: every slot,   *)
(* and the slot replace_pending_root_entry took, designates a PendingRoot   *)
(* entry of its own family, and every PendingRoot entry has exactly that    *)
(* one way to be filled.  So "missing pending root sequencer entry" and     *)
(* "was not pending" cannot happen, and no place is lost for good.          *)
SlotsMatchPending ==
    /\ \A r \in Roots : slots[r] # None => Pending(slots[r], r) \in entries[FamilyOf[r]]
    /\ pc[Worker] = "queued" => Pending(taken, cur) \in entries[FamilyOf[cur]]
    /\ \A f \in Families : \A e \in entries[f] : e.kind = "pending" =>
         \/ e.who \in Roots /\ slots[e.who] = e.order
         \/ Replacing(e.who) /\ taken = e.order

(* No command and no checkpoint has its side effect applied twice, even     *)
(* when two drains of a family overlap.                                     *)
EffectsAtMostOnce ==
    \A i, j \in 1..Len(effects) : i # j => effects[i] # effects[j]

(* The execution lock does its job: two drains of a family never overlap.   *)
Draining(t) == pc[t] \in {"pop", "run"}
DrainsExclude ==
    \A s, t \in Tasks : /\ s # t
                        /\ Draining(s)
                        /\ Draining(t)
                        => TaskFamily(s) # TaskFamily(t)

(* A live or waited checkpoint sees the commands that were reported before  *)
(* it was requested: when its side effect has run, every command of the     *)
(* family whose start was in the ingress at the time of the request is      *)
(* settled.                                                                 *)
CheckpointAfterEarlierCommands ==
    \A c \in Clients, r \in Roots :
        /\ Ran(c)
        /\ FamilyOf[r] = RepoOf[c]
        /\ \E i \in Position(r, {"start"}) : i <= request[c].through
        => ~Unsettled(r)

(* Commands of a family are applied in the order they started: a command    *)
(* whose side effect ran has no unsettled predecessor, a predecessor being  *)
(* one that git started and reported earlier.                               *)
CommandsInStartOrder ==
    \A q, r \in Roots :
        /\ Ran(r)
        /\ attr[q].hint /\ attr[r].hint
        /\ FamilyOf[q] = FamilyOf[r]
        /\ startedAt[q] <= startedAt[r]
        /\ \E i \in Position(q, {"start"}), j \in Position(r, {"start"}) : i < j
        => ~Unsettled(q)

(* What the processed watermark promises to its waiters: when the worker is *)
(* done with the payload that completed a command, the command is settled,  *)
(* unless it stands behind a place that is still pending.                   *)
WatermarkCoversEffects ==
    \A r \in Roots :
        /\ norm[r] = "completed"
        /\ pc[Worker] = "idle"
        /\ Unsettled(r)
        => \E e, q \in entries[FamilyOf[r]] :
              e.who = r /\ q.kind = "pending" /\ Before(q.order, e.order)

(* A checkpoint whose caller waits is answered, whatever is collected, when *)
(* no command of the family loses its connection: the place of such a       *)
(* command may never be filled.                                             *)
WaitedCheckpointAnswered ==
    \A c \in Clients :
        (pc[c] = "await") ~> \/ pc[c] = "done"
                             \/ \E r \in Roots : /\ FamilyOf[r] = RepoOf[c]
                                                 /\ Position(r, {"fallback"}) # {}

(* The connection close fallback finalizes its root: once its payload is    *)
(* processed, the command no longer holds a place in the sequencer.         *)
FallbackFinalizesRoot ==
    \A i \in 1..processed : stream[i].ev = "fallback" => slots[stream[i].root] = None
=============================================================================
