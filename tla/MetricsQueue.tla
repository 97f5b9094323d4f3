---------------------------- MODULE MetricsQueue ----------------------------
(* The durable queue of metric events: the processes that submit an event   *)
(* (observability::log_metrics) to the daemon or, when that fails, store it *)
(* themselves; the SQLite table they share (metrics/db.rs); and everyone    *)
(* who drains it to the server: the daemon's flush loop, a submitter after  *)
(* its local fallback, and git-ai flush-metrics-db.  Nobody leases a record,*)
(* so several may be uploading the same ones.                               *)
EXTENDS Naturals, Sequences, FiniteSets

CONSTANTS Events,      \* metric events; each is submitted by one process
          Corrupt,     \* records of an earlier version that cannot be read
          Refused,     \* events the server cannot decode
          Daemon,
          Manual,      \* processes of git-ai flush-metrics-db
          BatchSize,   \* 250 in the code
          MaxFaults    \* bound: timeouts, failed uploads, lost answers, crashes

(* What the constants must be. *)
MetricsConstants ==
    /\ IsFiniteSet(Events) /\ IsFiniteSet(Corrupt)
    /\ Refused \subseteq Events
    /\ Corrupt \cap Events = {}
    /\ BatchSize \in Nat \ {0}
    /\ MaxFaults \in Nat

VARIABLES records,     \* every record ever inserted, by its id
          queue,       \* ids of the records in the table
          waiting,     \* records whose next_retry_at is in the future
          client,      \* state of each submission
          wire,        \* requests (first, second) the daemon has not answered
          daemonUp,
          job,         \* of every process: the drain it is in
          stored,      \* rows of each event in the server's metrics_events
          faults

vars == <<records, queue, waiting, client, wire, daemonUp, job, stored, faults>>

Drainers == Events \cup Manual \cup {Daemon}
\* An event is stored at most by its first request, its second and locally
MaxRecords == 3 * Cardinality(Events) + Cardinality(Corrupt)
Ids      == 1..MaxRecords
NoJob    == [pc |-> "idle", batch |-> {}, attempt |-> 1, rejected |-> {}]

TypeOK ==
    /\ records \in Seq(Events \cup Corrupt) /\ Len(records) \in 0..MaxRecords
    /\ queue \subseteq DOMAIN records
    /\ waiting \subseteq queue
    /\ client \in [Events -> {"new", "sent", "resent", "storing", "done", "failed"}]
    /\ wire \in [Events -> SUBSET {1, 2}]
    /\ daemonUp \in BOOLEAN
    /\ job \in [Drainers -> [pc : {"idle", "read", "upload", "answered", "failed"},
                             batch : SUBSET Ids, attempt : {1, 2}, rejected : SUBSET Ids]]
    /\ stored \in [Events -> Nat]
    /\ faults \in 0..MaxFaults

Init ==
    /\ records \in [1..Cardinality(Corrupt) -> Corrupt]
    /\ Corrupt = {records[r] : r \in DOMAIN records}
    /\ queue = DOMAIN records
    /\ waiting = {}
    /\ client = [e \in Events |-> "new"]
    /\ wire = [e \in Events |-> {}]
    /\ daemonUp \in BOOLEAN
    /\ job = [p \in Drainers |-> NoJob]
    /\ stored = [e \in Events |-> 0]
    /\ faults = 0

Fault == faults < MaxFaults /\ faults' = faults + 1

-----------------------------------------------------------------------------
\* Submission

InsertEvents(e) ==
    /\ records' = Append(records, e)
    /\ queue' = queue \cup {Len(records')}

\* The process is connected to the daemon and sends its event
SubmitToDaemon(e) ==
    /\ client[e] = "new"
    /\ daemonUp
    /\ client' = [client EXCEPT ![e] = "sent"]
    /\ wire' = [wire EXCEPT ![e] = {1}]
    /\ UNCHANGED <<records, queue, waiting, daemonUp, job, stored, faults>>

\* The daemon itself is the submitter
SubmitInternal(e) ==
    /\ client[e] = "new"
    /\ daemonUp
    /\ InsertEvents(e)
    /\ client' = [client EXCEPT ![e] = "done"]
    /\ UNCHANGED <<waiting, wire, daemonUp, job, stored, faults>>

\* There is no daemon route
SubmitLocal(e) ==
    /\ client[e] = "new"
    /\ ~daemonUp
    /\ client' = [client EXCEPT ![e] = "storing"]
    /\ UNCHANGED <<records, queue, waiting, wire, daemonUp, job, stored, faults>>

\* The daemon persists the event and answers; only a client that still waits
\* for this request hears of it
DaemonStores(e) ==
    \E n \in wire[e] :
        /\ daemonUp
        /\ InsertEvents(e)
        /\ wire' = [wire EXCEPT ![e] = @ \ {n}]
        /\ client' = IF client[e] = (IF n = 1 THEN "sent" ELSE "resent")
                     THEN [client EXCEPT ![e] = "done"] ELSE client
        /\ UNCHANGED <<waiting, daemonUp, job, stored, faults>>

\* ... or it cannot persist it and says so
DaemonRefuses(e) ==
    \E n \in wire[e] :
        /\ daemonUp
        /\ Fault
        /\ wire' = [wire EXCEPT ![e] = @ \ {n}]
        /\ client' = IF client[e] = (IF n = 1 THEN "sent" ELSE "resent")
                     THEN [client EXCEPT ![e] = "storing"] ELSE client
        /\ UNCHANGED <<records, queue, waiting, daemonUp, job, stored>>

\* No answer within the socket timeout, or the connection is gone: the request
\* is sent once more on a new connection, or the local fallback is used
NoAnswer(e) ==
    /\ client[e] \in {"sent", "resent"}
    /\ IF wire[e] = {} THEN UNCHANGED faults ELSE Fault
    /\ IF client[e] = "sent" /\ daemonUp
       THEN /\ client' = [client EXCEPT ![e] = "resent"]
            /\ wire' = [wire EXCEPT ![e] = @ \cup {2}]
       ELSE /\ client' = [client EXCEPT ![e] = "storing"]
            /\ UNCHANGED wire
    /\ UNCHANGED <<records, queue, waiting, daemonUp, job, stored>>

\* submit_local_telemetry: store, then drain the queue once
StoreLocally(e) ==
    /\ client[e] = "storing"
    /\ InsertEvents(e)
    /\ client' = [client EXCEPT ![e] = "done"]
    /\ job' = [job EXCEPT ![e] = [NoJob EXCEPT !.pc = "read"]]
    /\ UNCHANGED <<waiting, wire, daemonUp, stored, faults>>

StoreFails(e) ==
    /\ client[e] = "storing"
    /\ Fault
    /\ client' = [client EXCEPT ![e] = "failed"]
    /\ UNCHANGED <<records, queue, waiting, wire, daemonUp, job, stored>>

DaemonStarts ==
    /\ ~daemonUp
    /\ daemonUp' = TRUE
    /\ UNCHANGED <<records, queue, waiting, client, wire, job, stored, faults>>

DaemonDies ==
    /\ daemonUp
    /\ Fault
    /\ daemonUp' = FALSE
    /\ wire' = [e \in Events |-> {}]
    /\ job' = [job EXCEPT ![Daemon] = NoJob]
    /\ UNCHANGED <<records, queue, waiting, client, stored>>

-----------------------------------------------------------------------------
\* Draining

BeginDrain(p) ==
    /\ job[p].pc = "idle"
    /\ job' = [job EXCEPT ![p].pc = "read"]
    /\ UNCHANGED <<records, queue, waiting, client, wire, daemonUp, stored, faults>>

\* A tick of telemetry_flush_loop
FlushLoopTick == daemonUp /\ BeginDrain(Daemon)

\* The command flush-metrics-db, whose loop is that of the daemon's drain
FlushMetricsDb(p) == p \in Manual /\ BeginDrain(p)

WithRetry(p) == p \in Manual \cup {Daemon}

Due == queue \ waiting

\* get_batch: the oldest records that are due
Batch == {r \in Due : Cardinality({s \in Due : s < r}) < BatchSize}

Drop(rs) ==
    /\ queue' = queue \ rs
    /\ waiting' = waiting \ rs

\* Unreadable records are deleted; when nothing else is left the loop goes on
DrainRead(p) ==
    LET batch   == Batch
        invalid == {r \in batch : records[r] \in Corrupt}
    IN  /\ job[p].pc = "read"
        /\ Drop(invalid)
        /\ job' = [job EXCEPT ![p] =
                     [NoJob EXCEPT !.pc = CASE batch = {} -> "idle"
                                            [] batch # {} /\ batch = invalid -> "read"
                                            [] OTHER -> "upload",
                                   !.batch = batch \ invalid,
                                   !.rejected = {}]]
        /\ UNCHANGED <<records, client, wire, daemonUp, stored, faults>>

\* The server's process_metrics_batch: events it cannot decode are reported as
\* errors, the others are inserted in one transaction.  The table has no key
\* that would recognise an event it already has.
Rejects(batch) == {r \in batch : records[r] \in Refused}
Stores(batch)  == [e \in Events |-> stored[e] + Cardinality({r \in batch : records[r] = e})]

\* 200: the answer says which events were rejected
Uploaded(p) ==
    LET rejected == Rejects(job[p].batch)
    IN  /\ job[p].pc = "upload"
        /\ stored' = Stores(job[p].batch \ rejected)
        /\ job' = [job EXCEPT ![p].pc = "answered", ![p].rejected = rejected]
        /\ UNCHANGED <<records, queue, waiting, client, wire, daemonUp, faults>>

\* 200, and the transaction failed: every event is reported
StorageFails(p) ==
    /\ job[p].pc = "upload"
    /\ Fault
    /\ job' = [job EXCEPT ![p].pc = "answered", ![p].rejected = job[p].batch]
    /\ UNCHANGED <<records, queue, waiting, client, wire, daemonUp, stored>>

\* No answer arrives, whether or not the server stored the batch; a second
\* attempt follows a minute later, except in a submitter's own drain
UploadError(p) ==
    /\ job[p].pc = "upload"
    /\ Fault
    /\ stored' \in {stored, Stores(job[p].batch \ Rejects(job[p].batch))}
    /\ job' = IF WithRetry(p) /\ job[p].attempt = 1
              THEN [job EXCEPT ![p].attempt = 2]
              ELSE [job EXCEPT ![p].pc = "failed"]
    /\ UNCHANGED <<records, queue, waiting, client, wire, daemonUp>>

\* 403: uploads are not authorised; there is no second attempt
UploadForbidden(p) ==
    /\ job[p].pc = "upload"
    /\ Fault
    /\ job' = [job EXCEPT ![p].pc = "failed"]
    /\ UNCHANGED <<records, queue, waiting, client, wire, daemonUp, stored>>

\* (mutant) the answer's errors are only logged
DeleteAll(p) ==
    /\ job[p].pc = "answered"
    /\ Drop(job[p].batch)
    /\ job' = [job EXCEPT ![p] = [NoJob EXCEPT !.pc = "read"]]
    /\ UNCHANGED <<records, client, wire, daemonUp, stored, faults>>

\* The records the server took are deleted, the rejected ones wait for their
\* retry (if nobody else has deleted them); after a rejection the drain ends
Finish(p) ==
    /\ job[p].pc = "answered"
    /\ queue' = queue \ (job[p].batch \ job[p].rejected)
    /\ waiting' = (waiting \cup job[p].rejected) \cap queue'
    /\ job' = [job EXCEPT ![p] =
                 [NoJob EXCEPT !.pc = IF job[p].rejected = {} THEN "read" ELSE "idle"]]
    /\ UNCHANGED <<records, client, wire, daemonUp, stored, faults>>

\* The upload failed: the whole batch waits
RecordFailure(p) ==
    /\ job[p].pc = "failed"
    /\ waiting' = waiting \cup (job[p].batch \cap queue)
    /\ job' = [job EXCEPT ![p] = NoJob]
    /\ UNCHANGED <<records, queue, client, wire, daemonUp, stored, faults>>

\* A draining process other than the daemon is killed
DrainKilled(p) ==
    /\ p # Daemon
    /\ job[p].pc # "idle"
    /\ Fault
    /\ job' = [job EXCEPT ![p] = NoJob]
    /\ UNCHANGED <<records, queue, waiting, client, wire, daemonUp, stored>>

\* next_retry_at is reached
RetryDue(r) ==
    /\ r \in waiting
    /\ waiting' = waiting \ {r}
    /\ UNCHANGED <<records, queue, client, wire, daemonUp, job, stored, faults>>

Submission(e) ==
    \/ SubmitToDaemon(e) \/ SubmitInternal(e) \/ SubmitLocal(e)
    \/ DaemonStores(e) \/ DaemonRefuses(e) \/ NoAnswer(e)
    \/ StoreLocally(e) \/ StoreFails(e)

Drain(p) ==
    \/ FlushMetricsDb(p) \/ DrainRead(p)
    \/ Uploaded(p) \/ StorageFails(p) \/ UploadError(p) \/ UploadForbidden(p)
    \/ Finish(p) \/ RecordFailure(p) \/ DrainKilled(p)

Next ==
    \/ \E e \in Events : Submission(e)
    \/ DaemonStarts \/ DaemonDies \/ FlushLoopTick
    \/ \E p \in Drainers : Drain(p)
    \/ \E r \in waiting : RetryDue(r)

Spec == Init /\ [][Next]_vars

-----------------------------------------------------------------------------
Queued == {records[r] : r \in queue}
Arrived == {e \in Events : stored[e] > 0}

AtLeast == INSTANCE AtLeastOnce WITH
    Item <- Events \cup Corrupt, Unsendable <- Corrupt,
    held <- Queued, arrived <- Arrived

(* The queue keeps its promise whoever drains it: a record leaves the table *)
(* only when the server has stored its event, although drains overlap, fail *)
(* halfway, are killed and see answers lost.                                *)
AtLeastOnceSpec == AtLeast!Spec

(* The header of metrics/db.rs: the server handles idempotency, so an event *)
(* counts once.                                                             *)
CountedOnce == \A e \in Events : stored[e] <= 1
=============================================================================
