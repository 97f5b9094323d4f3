---------------------------- MODULE TraceIngress ----------------------------
(***************************************************************************)
(* The trace ingress of the git-ai daemon (src/src/daemon/mod.rs): one     *)
(* thread per trace2 connection, the tracking state they share, the        *)
(* ingress counter, the bounded channel and the worker that puts the       *)
(* payloads back into counter order.                                       *)
(*                                                                         *)
(* A connection belongs to one git process.  The processes a git command   *)
(* starts report under the sid of their root, so several connections share *)
(* the tracking state of one root.  A root is named by its first process.  *)
(*                                                                         *)
(* root_last_activity_ns and the queued_trace_payloads counters are        *)
(* written and never read by the daemon; they are left out.                *)
(***************************************************************************)
EXTENDS Integers, Sequences, FiniteSets

CONSTANTS
    Procs,          (* git processes, one trace connection each             *)
    RootOf,         (* the root process a process belongs to                *)
    Script,         (* the trace2 events a process writes, in order         *)
    Killable,       (* processes that may die before they are through       *)
    RootReadFirst,  (* TRUE: the daemon reads the first event of a root     *)
                    (* before a process started by it connects              *)
    Cap,            (* TRACE_INGEST_QUEUE_CAPACITY                          *)
    MaxReadErrors,  (* bound: connections that end in a read error          *)
    MayStop,        (* TRUE: a shutdown may be requested from outside       *)
    None

Events == {"start", "def_repo", "exit", "atexit"}

\* What the ingress knows of the command from the event alone: nothing, a
\* command that only reads, or another one.
Event == [ev : Events, cmd : {"none", "readonly", "other"}]

Roots == {RootOf[p] : p \in Procs}

ASSUME IngressAssumption ==
    /\ RootOf \in [Procs -> Procs]
    /\ \A p \in Procs : RootOf[RootOf[p]] = RootOf[p]
    /\ Script \in [Procs -> Seq(Event)]
    /\ Killable \subseteq Procs
    /\ RootReadFirst \in BOOLEAN
    /\ Cap \in Nat \ {0}
    /\ MaxReadErrors \in Nat
    /\ MayStop \in BOOLEAN

\* A payload is known by its process and event; a frame adds the number
\* stamped on it, 0 before.
Payload == [proc : Procs, ev : Events \cup {"fallback"}]
Frame == [seq : Nat, payload : Payload]

ASSUME NoneAssumption == None \notin Frame

VARIABLES
    at,            (* where the thread of a connection is                  *)
    pos,           (* events of the process handled                        *)
    dead,          (* processes that have been killed                      *)
    frame,         (* the frame a thread holds                             *)
    stream,        (* history: payloads in the order of their numbers      *)
    tracked,       (* trace_root_is_tracked                                *)
    readOnly,      (* root_definitely_read_only                            *)
    openCount,     (* root_open_connections                                *)
    flagged,       (* root_close_fallback_enqueued                         *)
    channel,       (* the mpsc channel                                     *)
    buffer,        (* the worker's pending_by_seq                          *)
    nextSeq,       (* the worker's next_seq                                *)
    ingested,      (* history: payloads in the order they were applied     *)
    norm,          (* what the normalizer and sequencer know of a root     *)
    worker,        (* where the worker is                                  *)
    shutting,      (* shutting_down                                        *)
    exited,        (* the daemon process is gone                           *)
    readErrors     (* read errors so far                                   *)

threadVars == <<at, pos, dead, frame, readErrors>>
trackVars  == <<tracked, readOnly, openCount, flagged>>
workerVars == <<channel, buffer, nextSeq, ingested, norm, worker>>
vars == <<threadVars, trackVars, workerVars, stream, shutting, exited>>

Init ==
    /\ at = [p \in Procs |-> "connecting"]
    /\ pos = [p \in Procs |-> 0]
    /\ dead = {}
    /\ frame = [p \in Procs |-> None]
    /\ stream = <<>>
    /\ tracked = {}
    /\ readOnly = {}
    /\ openCount = [r \in Roots |-> 0]
    /\ flagged = {}
    /\ channel = <<>>
    /\ buffer = {}
    /\ nextSeq = 1
    /\ ingested = <<>>
    /\ norm = [r \in Roots |-> "absent"]
    /\ worker = "recv"
    /\ shutting = FALSE
    /\ exited = FALSE
    /\ readErrors = 0

IsRoot(p) == RootOf[p] = p

Goto(p, label) == at' = [at EXCEPT ![p] = label]

-----------------------------------------------------------------------------
(* Git processes: the environment.                                          *)

Kill(p) ==
    /\ p \in Killable \ dead
    /\ at[p] # "done"
    /\ dead' = dead \cup {p}
    /\ UNCHANGED <<at, pos, frame, readErrors, trackVars, workerVars, stream, shutting, exited>>

\* No further event will be read: the process is through, or died here.
AtEnd(p) == pos[p] = Len(Script[p]) \/ p \in dead

-----------------------------------------------------------------------------
(* A connection thread: handle_trace_connection_actor_reader.               *)

\* A process connects after the process that started it; connections are
\* accepted in that order, until the listener sees the shutdown.
Accept(p) ==
    /\ at[p] = "connecting"
    /\ ~shutting
    /\ ~IsRoot(p) => /\ at[RootOf[p]] # "connecting"
                     /\ RootReadFirst => pos[RootOf[p]] > 0 \/ RootOf[p] \in dead
    /\ Goto(p, "reading")
    /\ UNCHANGED <<pos, dead, frame, readErrors, trackVars, workerVars, stream, shutting, exited>>

\* Mutant: the entry says that there is a connection, not how many.
CountOne(r) == openCount' = [openCount EXCEPT ![r] = 1]

CountUp(r) == openCount' = [openCount EXCEPT ![r] = @ + 1]

\* trace_root_connection_opened, at the first payload of the connection.
Open(p) ==
    /\ at[p] = "reading"
    /\ pos[p] = 0
    /\ ~AtEnd(p)
    /\ CountUp(RootOf[p])
    /\ Goto(p, "opened")
    /\ UNCHANGED <<pos, dead, frame, readErrors, tracked, readOnly, flagged, workerVars,
                   stream, shutting, exited>>

Terminal(p, ev) == IsRoot(p) /\ ev \in {"exit", "atexit", "fallback"}

HandledInline(p, e) == e.cmd = "readonly" \/ (e.cmd = "none" /\ RootOf[p] \in readOnly)

\* Mutant: the number is allocated before the read-only check.
AugmentInlineStamped(p, e) ==
    LET r == RootOf[p] IN
    /\ tracked' = tracked \cup {r}
    /\ readOnly' = readOnly \cup {r}
    /\ stream' = Append(stream, [proc |-> p, ev |-> e.ev])
    /\ Goto(p, "reading")
    /\ UNCHANGED frame

\* Definitely read-only: tracked until its terminal event, never enqueued.
AugmentInline(p, e) ==
    LET r == RootOf[p] IN
    /\ IF Terminal(p, e.ev)
       THEN /\ tracked' = tracked \ {r}
            /\ readOnly' = readOnly \ {r}
       ELSE /\ tracked' = tracked \cup {r}
            /\ readOnly' = IF e.ev = "start" /\ IsRoot(p) THEN readOnly \cup {r} ELSE readOnly
    /\ Goto(p, "reading")
    /\ UNCHANGED <<frame, stream>>

\* Everything else is tracked until the terminal event of the root and handed
\* to the caller to be stamped.  An event that names neither command nor
\* worktree adds no tracking state.
AugmentFull(p, e) ==
    LET r == RootOf[p] IN
    /\ tracked' = IF Terminal(p, e.ev) THEN tracked \ {r}
                  ELSE IF e.cmd # "none" \/ e.ev = "def_repo" THEN tracked \cup {r}
                  ELSE tracked
    /\ frame' = [frame EXCEPT ![p] = [seq |-> 0, payload |-> [proc |-> p, ev |-> e.ev]]]
    /\ Goto(p, "stamping")
    /\ UNCHANGED <<readOnly, stream>>

\* augment_trace_payload_with_reflog_metadata; activity withdraws the mark of
\* an earlier fallback.
Augment(p) ==
    /\ at[p] = "opened" \/ (at[p] = "reading" /\ pos[p] > 0 /\ ~AtEnd(p))
    /\ LET e == Script[p][pos[p] + 1] IN
         IF HandledInline(p, e) THEN AugmentInline(p, e) ELSE AugmentFull(p, e)
    /\ flagged' = flagged \ {RootOf[p]}
    /\ pos' = [pos EXCEPT ![p] = @ + 1]
    /\ UNCHANGED <<dead, readErrors, openCount, workerVars, shutting, exited>>

\* next_trace_ingest_seq
Stamp(p) ==
    /\ at[p] = "stamping"
    /\ stream' = Append(stream, frame[p].payload)
    /\ frame' = [frame EXCEPT ![p] = [seq |-> Len(stream) + 1, payload |-> @.payload]]
    /\ Goto(p, "sending")
    /\ UNCHANGED <<pos, dead, readErrors, trackVars, workerVars, shutting, exited>>

\* enqueue_trace_payload: a full channel blocks the thread.
Send(p) ==
    /\ at[p] = "sending"
    /\ worker # "exited"
    /\ Len(channel) < Cap
    /\ channel' = Append(channel, frame[p])
    /\ frame' = [frame EXCEPT ![p] = None]
    /\ Goto(p, IF frame[p].payload.ev = "fallback" THEN "done" ELSE "reading")
    /\ UNCHANGED <<pos, dead, readErrors, trackVars, buffer, nextSeq, ingested, norm, worker,
                   stream, shutting, exited>>

\* The worker is gone and the channel closed: the frame is dropped, the daemon
\* shuts down and the reader leaves its loop.
SendFails(p) ==
    /\ at[p] = "sending"
    /\ worker = "exited"
    /\ frame' = [frame EXCEPT ![p] = None]
    /\ shutting' = TRUE
    /\ Goto(p, IF frame[p].payload.ev = "fallback" THEN "done" ELSE "closing")
    /\ UNCHANGED <<pos, dead, readErrors, trackVars, workerVars, stream, exited>>

\* An oversized or broken frame leaves the function without the bookkeeping.
ReadError(p) ==
    /\ at[p] = "reading"
    /\ readErrors < MaxReadErrors
    /\ readErrors' = readErrors + 1
    /\ Goto(p, "done")
    /\ UNCHANGED <<pos, dead, frame, trackVars, workerVars, stream, shutting, exited>>

\* Mutant: the last connection is counted down and not reported.
NoConnection(r) == openCount[r] = 0

\* record_trace_connection_close: is the root a candidate for the fallback?
LastConnection(r) == openCount[r] <= 1

CountDown(r) == openCount' = [openCount EXCEPT ![r] = IF @ > 1 THEN @ - 1 ELSE 0]

CloseRecord(p) ==
    /\ at[p] = "closing" \/ (at[p] = "reading" /\ AtEnd(p))
    /\ IF pos[p] = 0
       THEN Goto(p, "done") /\ UNCHANGED openCount
       ELSE /\ CountDown(RootOf[p])
            /\ Goto(p, IF LastConnection(RootOf[p]) THEN "stale" ELSE "done")
    /\ UNCHANGED <<pos, dead, frame, readErrors, tracked, readOnly, flagged, workerVars,
                   stream, shutting, exited>>

NeedsFallback(r) == r \in tracked /\ openCount[r] = 0 /\ r \notin flagged

\* enqueue_stale_connection_close_fallbacks: the check, in its own lock region.
CloseCheck(p) ==
    /\ at[p] = "stale"
    /\ LET r == RootOf[p] IN
         IF NeedsFallback(r)
         THEN /\ flagged' = flagged \cup {r}
              /\ frame' = [frame EXCEPT ![p] =
                     [seq |-> 0, payload |-> [proc |-> r, ev |-> "fallback"]]]
              /\ Goto(p, "stamping")
         ELSE Goto(p, "done") /\ UNCHANGED <<flagged, frame>>
    /\ UNCHANGED <<pos, dead, readErrors, tracked, readOnly, openCount, workerVars, stream,
                   shutting, exited>>

-----------------------------------------------------------------------------
(* The ingest worker: start_trace_ingest_worker.                            *)

\* Mutant: the frames are applied as they come.
IsAny(fr, next) == TRUE

IsNext(fr, next) == fr.seq = next

\* while let Some(payload) = pending_by_seq.remove(&next_seq)
AfterRecv(buf, next) == IF \E fr \in buf : IsNext(fr, next) THEN "drain" ELSE "recv"

\* Mutant: one payload per received frame.
AfterIngestOnce(buf, next) == "recv"

AfterIngest(buf, next) == AfterRecv(buf, next)

\* The reorder buffer is full, or a number came twice.
Refused(fr) == Cardinality(buffer) >= Cap \/ \E b \in buffer : b.seq = fr.seq

WorkerRecv ==
    /\ worker = "recv"
    /\ channel # <<>>
    /\ IF Refused(Head(channel))
       THEN /\ worker' = "exited"
            /\ shutting' = TRUE
            /\ UNCHANGED <<channel, buffer>>
       ELSE /\ channel' = Tail(channel)
            /\ buffer' = buffer \cup {Head(channel)}
            /\ worker' = AfterRecv(buffer', nextSeq)
            /\ UNCHANGED shutting
    /\ UNCHANGED <<threadVars, trackVars, nextSeq, ingested, norm, stream, exited>>

\* clear_trace_root_tracking
Clear(r) ==
    /\ tracked' = tracked \ {r}
    /\ readOnly' = readOnly \ {r}
    /\ openCount' = [openCount EXCEPT ![r] = 0]
    /\ flagged' = flagged \ {r}

NormIs(r, label) == norm' = [norm EXCEPT ![r] = label]

\* The command is emitted, or the normalizer fails and its place stays.
Finalize(r) ==
    \/ NormIs(r, "completed") /\ Clear(r)
    \/ NormIs(r, "failed") /\ UNCHANGED trackVars

\* apply_trace_payload_to_state, as far as the tracking state is concerned.
Apply(pl) ==
    LET r == RootOf[pl.proc] IN
    CASE pl.ev = "start" /\ IsRoot(pl.proc) /\ norm[r] = "absent" ->
            NormIs(r, "pending") /\ UNCHANGED trackVars
      [] pl.ev = "start" /\ IsRoot(pl.proc) /\ norm[r] = "deferred" -> Finalize(r)
      [] Terminal(pl.proc, pl.ev) /\ norm[r] = "pending" -> Finalize(r)
      [] Terminal(pl.proc, pl.ev) /\ norm[r] = "failed" ->
            \* Only a place in the sequencer is canceled and cleared.
            NormIs(r, "deferred") /\ (Clear(r) \/ UNCHANGED trackVars)
      [] Terminal(pl.proc, pl.ev) /\ norm[r] = "absent" ->
            NormIs(r, "deferred") /\ UNCHANGED trackVars
      [] OTHER -> UNCHANGED <<norm, trackVars>>

WorkerIngest ==
    /\ worker = "drain"
    /\ \E fr \in buffer :
         /\ IsNext(fr, nextSeq)
         /\ buffer' = buffer \ {fr}
         /\ ingested' = Append(ingested, fr.payload)
         /\ Apply(fr.payload)
    /\ nextSeq' = nextSeq + 1
    /\ worker' = AfterIngest(buffer', nextSeq')
    /\ UNCHANGED <<threadVars, channel, stream, shutting, exited>>

\* The shutdown arm of the biased select: only when nothing is queued.
WorkerStops ==
    /\ worker = "recv"
    /\ channel = <<>>
    /\ shutting
    /\ worker' = "exited"
    /\ UNCHANGED <<threadVars, trackVars, channel, buffer, nextSeq, ingested, norm, stream,
                   shutting, exited>>

-----------------------------------------------------------------------------
(* The daemon's end: run_daemon returns when the shutdown is requested; it  *)
(* joins its four threads for at most two seconds, and not the worker.      *)

RequestShutdown ==
    /\ MayStop
    /\ ~shutting
    /\ shutting' = TRUE
    /\ UNCHANGED <<threadVars, trackVars, workerVars, stream, exited>>

DaemonExits ==
    /\ shutting
    /\ exited' = TRUE
    /\ UNCHANGED <<threadVars, trackVars, workerVars, stream, shutting>>

ThreadStep(p) == \/ Accept(p)
                 \/ Open(p)
                 \/ Augment(p)
                 \/ Stamp(p)
                 \/ Send(p)
                 \/ SendFails(p)
                 \/ CloseRecord(p)
                 \/ CloseCheck(p)

WorkerStep == \/ WorkerRecv
              \/ WorkerIngest
              \/ WorkerStops

Next == /\ ~exited
        /\ \/ \E p \in Procs : ThreadStep(p) \/ Kill(p) \/ ReadError(p)
           \/ WorkerStep
           \/ RequestShutdown
           \/ DaemonExits

Spec == Init /\ [][Next]_vars

\* Threads and the worker run; processes write their events or end.
FairSpec == /\ Spec
            /\ \A p \in Procs : WF_vars(~exited /\ ThreadStep(p))
            /\ WF_vars(~exited /\ WorkerStep)

-----------------------------------------------------------------------------
(* Correctness.                                                             *)

Labels == {"connecting", "reading", "opened", "stamping", "sending", "closing", "stale", "done"}

TypeOK ==
    /\ at \in [Procs -> Labels]
    /\ pos \in [Procs -> Nat]
    /\ dead \subseteq Procs
    /\ frame \in [Procs -> Frame \cup {None}]
    /\ stream \in Seq(Payload)
    /\ tracked \subseteq Roots
    /\ readOnly \subseteq Roots
    /\ openCount \in [Roots -> Nat]
    /\ flagged \subseteq Roots
    /\ channel \in Seq(Frame)
    /\ buffer \subseteq Frame
    /\ nextSeq \in Nat
    /\ ingested \in Seq(Payload)
    /\ norm \in [Roots -> {"absent", "pending", "deferred", "completed", "failed"}]
    /\ worker \in {"recv", "drain", "exited"}
    /\ shutting \in BOOLEAN
    /\ exited \in BOOLEAN
    /\ readErrors \in Nat

(* The ingress keeps the promise of OrderedStream: whatever the threads     *)
(* interleave between stamping and sending, the worker applies the payloads *)
(* in the order of their numbers, each once, none left out.                 *)
Ordered == INSTANCE OrderedStream WITH Payload <- Payload, stream <- stream, ingested <- ingested
DeliversInOrder == Ordered!Spec

Carried == {frame[p] : p \in {q \in Procs : at[q] = "sending"}}
           \cup {channel[i] : i \in 1..Len(channel)} \cup buffer

(* No number is lost: until the daemon shuts down, every number allocated   *)
(* and not applied is on its way, in the hands of a thread, in the channel  *)
(* or in the reorder buffer.  A number that is nowhere would block the      *)
(* worker, and every checkpoint after it, for good.                         *)
NoNumberLost ==
    ~shutting => \A i \in (Len(ingested) + 1)..Len(stream) : \E fr \in Carried : fr.seq = i

\* The root process has told the daemon that it is over, or its connection has
\* nothing more to say.
RootEnded(r) == \/ AtEnd(r)
                \/ \E i \in 1..pos[r] : Script[r][i].ev \in {"exit", "atexit"}

(* No connection close fallback is applied to a command that still runs,    *)
(* although the connections of the processes it starts come and go, and     *)
(* although finalizing a root forgets how many of them are open.            *)
FallbackAfterEnd ==
    \A i \in 1..Len(ingested) : ingested[i].ev = "fallback" => RootEnded(ingested[i].proc)

Announced(r, events) == \E i \in 1..Len(stream) : stream[i].proc = r /\ stream[i].ev \in events

(* A command whose start was enqueued gets a terminal payload, even when    *)
(* its process is killed and whatever order its connections close in, unless *)
(* the daemon is told to stop or cannot read a connection to its end.       *)
StartedRootEnds ==
    \A r \in Roots : Announced(r, {"start"}) ~> \/ Announced(r, {"exit", "atexit", "fallback"})
                                                \/ shutting
                                                \/ readErrors > 0

(* The processed watermark reaches every number that was handed out: a      *)
(* checkpoint that waits for it is delayed, not stuck.                      *)
WatermarkAdvances ==
    \A n \in 1..(3 * Cardinality(Procs)) :
        (Len(stream) >= n) ~> (Len(ingested) >= n \/ shutting)

ReadOnlyCommand(p) == IsRoot(p) /\ Script[p][1].cmd = "readonly"

(* "Read-only invocations ... must not enter the serial ingest queue."      *)
ReadOnlyNotEnqueued ==
    \A i \in 1..Len(stream) : ~ReadOnlyCommand(stream[i].proc)

(* The daemon goes away "after draining in-flight work": nothing is left in *)
(* the channel.                                                             *)
DrainedBeforeExit == exited => channel = <<>>
=============================================================================
