------------------------------ MODULE CasQueue ------------------------------
(* The queue of content-addressed prompt objects: post-commit enqueues them *)
(* in SQLite (authorship/internal_db.rs) and hands a copy to the daemon or  *)
(* uploads it itself; git-ai flush-cas leases records and uploads them.     *)
(* The daemon works from its copies and never reads the table, flush-cas    *)
(* only from the table.  Time is counted in units of five minutes.          *)
EXTENDS Naturals, FiniteSets

CONSTANTS Objects,      \* hashes
          Flushers,     \* processes of git-ai flush-cas
          Daemon, Local,\* who upload the copies they were given
          None,
          MayReject,    \* whether the answer to a direct upload may report
                        \* failed objects (an answer to flush-cas may always)
          MaxAttempts,  \* 6 in the code
          StaleAfter,   \* age of a lease that is taken over: 2 (600 s)
          MaxCommits,   \* bound: how often the same object is committed
          MaxFaults,    \* bound: failed uploads, lost copies, killed processes
          MaxTime, LastFault \* bounds of the clock, and of when faults happen

\* A record of the table cas_sync_queue
Rows == [id : Nat, status : {"pending", "processing"}, attempts : Nat, retryAt : Nat, started : Nat]

(* What the constants must be. *)
CasConstants ==
    /\ None \notin Rows
    /\ MayReject \in BOOLEAN
    /\ {MaxAttempts, StaleAfter, MaxCommits, MaxFaults, MaxTime, LastFault} \subseteq Nat

VARIABLES row,      \* of every object: its record in cas_sync_queue, or None
          lastId,
          commits,  \* how often an object was enqueued
          unsent,   \* objects enqueued by a post-commit that has not submitted them
          buffer,   \* copies in the daemon's telemetry buffer
          daemonUp,
          direct,   \* uploads of Daemon and Local
          lease,    \* uploads of flush-cas
          server,   \* objects the server has
          clock, faults

vars == <<row, lastId, commits, unsent, buffer, daemonUp, direct, lease, server, clock, faults>>

Direct == {Daemon, Local}
Record == [id : 1..lastId, status : {"pending", "processing"}, attempts : 0..MaxFaults,
           retryAt : Nat, started : Nat]
NoDirect == [pc |-> "idle", batch |-> {}]
NoLease  == [pc |-> "idle", batch |-> {}, rejected |-> {}, since |-> 0]

TypeOK ==
    /\ \A o \in Objects : row[o] # None => row[o] \in Record
    /\ \A o, p \in Objects : o # p /\ row[o] # None /\ row[p] # None => row[o].id # row[p].id
    /\ lastId \in 0..(MaxCommits * Cardinality(Objects))
    /\ commits \in [Objects -> 0..MaxCommits]
    /\ unsent \subseteq Objects /\ buffer \subseteq Objects /\ server \subseteq Objects
    /\ daemonUp \in BOOLEAN
    /\ direct \in [Direct -> [pc : {"idle", "upload", "answered"}, batch : SUBSET Objects]]
    /\ \A f \in Flushers : /\ lease[f].pc \in {"idle", "upload", "answered", "failed"}
                           /\ lease[f].batch \subseteq Objects \X (1..lastId)
                           /\ lease[f].rejected \subseteq lease[f].batch
    /\ clock \in 0..MaxTime /\ faults \in 0..MaxFaults

Init ==
    /\ row = [o \in Objects |-> None]
    /\ lastId = 0
    /\ commits = [o \in Objects |-> 0]
    /\ unsent = {} /\ buffer = {} /\ server = {}
    /\ daemonUp \in BOOLEAN
    /\ direct = [d \in Direct |-> NoDirect]
    /\ lease = [f \in Flushers |-> NoLease]
    /\ clock = 0 /\ faults = 0

Fault == faults < MaxFaults /\ clock <= LastFault /\ faults' = faults + 1

\* The last unit of the bounded clock is kept for the retry of what has failed
Tick ==
    /\ clock < MaxTime
    /\ clock = MaxTime - 1 => \A f \in Flushers : lease[f].pc = "idle"
    /\ clock' = clock + 1
    /\ UNCHANGED <<row, lastId, commits, unsent, buffer, daemonUp, direct, lease, server, faults>>

-----------------------------------------------------------------------------

\* A commit whose prompt has these messages; a record with the hash stays as it is
Enqueue(o) ==
    /\ commits[o] < MaxCommits
    /\ commits' = [commits EXCEPT ![o] = @ + 1]
    /\ IF row[o] = None
       THEN /\ lastId' = lastId + 1
            /\ row' = [row EXCEPT ![o] = [id |-> lastId', status |-> "pending", attempts |-> 0,
                                          retryAt |-> clock, started |-> 0]]
       ELSE UNCHANGED <<lastId, row>>
    /\ unsent' = unsent \cup {o}
    /\ UNCHANGED <<buffer, daemonUp, direct, lease, server, clock, faults>>

\* The copies go to the daemon's buffer, or are uploaded by the process itself
SubmitToDaemon(o) ==
    /\ o \in unsent /\ daemonUp
    /\ unsent' = unsent \ {o}
    /\ buffer' = buffer \cup {o}
    /\ UNCHANGED <<row, lastId, commits, daemonUp, direct, lease, server, clock, faults>>

SubmitLocally(o) ==
    /\ o \in unsent /\ ~daemonUp
    /\ direct[Local].pc = "idle"
    /\ unsent' = unsent \ {o}
    /\ direct' = [direct EXCEPT ![Local] = [pc |-> "upload", batch |-> {o}]]
    /\ UNCHANGED <<row, lastId, commits, buffer, daemonUp, lease, server, clock, faults>>

\* The send fails, the buffer is locked, or the process ends: nobody retries
SubmitLost(o) ==
    /\ o \in unsent
    /\ Fault
    /\ unsent' = unsent \ {o}
    /\ UNCHANGED <<row, lastId, commits, buffer, daemonUp, direct, lease, server, clock>>

\* The flush loop takes the buffer
TakeBuffer ==
    /\ daemonUp /\ buffer # {}
    /\ direct[Daemon].pc = "idle"
    /\ direct' = [direct EXCEPT ![Daemon] = [pc |-> "upload", batch |-> buffer]]
    /\ buffer' = {}
    /\ UNCHANGED <<row, lastId, commits, unsent, daemonUp, lease, server, clock, faults>>

\* The server's process_cas_uploads: every object is stored or reported
Rejections(batch) == IF MayReject THEN SUBSET batch ELSE {{}}

DirectUploaded(d) ==
    /\ direct[d].pc = "upload"
    /\ \E bad \in Rejections(direct[d].batch) : server' = server \cup (direct[d].batch \ bad)
    /\ direct' = [direct EXCEPT ![d].pc = "answered"]
    /\ UNCHANGED <<row, lastId, commits, unsent, buffer, daemonUp, lease, clock, faults>>

\* Not logged in, or an error, whether or not the objects arrived: the copies
\* are gone
DirectFails(d) ==
    /\ direct[d].pc = "upload"
    /\ Fault
    /\ server' \in {server, server \cup direct[d].batch}
    /\ direct' = [direct EXCEPT ![d] = NoDirect]
    /\ UNCHANGED <<row, lastId, commits, unsent, buffer, daemonUp, lease, clock>>

Delete(os) == row' = [o \in Objects |-> IF o \in os THEN None ELSE row[o]]

\* delete_cas_by_hashes for the whole chunk, whatever the answer says of each
DirectDelete(d) ==
    /\ direct[d].pc = "answered"
    /\ Delete(direct[d].batch)
    /\ direct' = [direct EXCEPT ![d] = NoDirect]
    /\ UNCHANGED <<lastId, commits, unsent, buffer, daemonUp, lease, server, clock, faults>>

DaemonStarts ==
    /\ ~daemonUp
    /\ daemonUp' = TRUE
    /\ UNCHANGED <<row, lastId, commits, unsent, buffer, direct, lease, server, clock, faults>>

DaemonDies ==
    /\ daemonUp
    /\ Fault
    /\ daemonUp' = FALSE
    /\ buffer' = {}
    /\ direct' = [direct EXCEPT ![Daemon] = NoDirect]
    /\ UNCHANGED <<row, lastId, commits, unsent, lease, server, clock>>

-----------------------------------------------------------------------------
Stale(r)   == r.status = "processing" /\ r.started + StaleAfter < clock

\* Due for an upload: free, or left behind by a process that takes too long
Leasable(o) ==
    /\ row[o] # None
    /\ row[o].status = "pending" \/ Stale(row[o])
    /\ row[o].retryAt <= clock
    /\ row[o].attempts < MaxAttempts

\* dequeue_cas_batch: leases that are too old are released first, also those
\* that are not taken now; then every record that is due is leased
Dequeue(f) ==
    LET taken == {o \in Objects : Leasable(o)}
    IN  /\ lease[f].pc = "idle"
        /\ taken # {}
        /\ row' = [o \in Objects |->
                     CASE o \in taken -> [row[o] EXCEPT !.status = "processing", !.started = clock]
                       [] o \notin taken /\ row[o] # None /\ Stale(row[o]) ->
                            [row[o] EXCEPT !.status = "pending", !.started = 0]
                       [] OTHER -> row[o]]
        /\ lease' = [lease EXCEPT ![f] = [NoLease EXCEPT !.pc = "upload", !.since = clock,
                                             !.batch = {<<o, row[o].id>> : o \in taken}]]
        /\ UNCHANGED <<lastId, commits, unsent, buffer, daemonUp, direct, server, clock, faults>>

FlushUploaded(f) ==
    /\ lease[f].pc = "upload"
    /\ \E bad \in SUBSET lease[f].batch :
          /\ IF bad = {} THEN UNCHANGED faults ELSE Fault
          /\ server' = server \cup {b[1] : b \in lease[f].batch \ bad}
          /\ lease' = [lease EXCEPT ![f].pc = "answered", ![f].rejected = bad]
    /\ UNCHANGED <<row, lastId, commits, unsent, buffer, daemonUp, direct, clock>>

FlushFails(f) ==
    /\ lease[f].pc = "upload"
    /\ Fault
    /\ server' \in {server, server \cup {b[1] : b \in lease[f].batch}}
    /\ lease' = [lease EXCEPT ![f].pc = "failed"]
    /\ UNCHANGED <<row, lastId, commits, unsent, buffer, daemonUp, direct, clock>>

\* calculate_next_retry: 5 and 30 minutes, 2, 6 and 12 hours, then a day
Backoff(n) == CASE n = 1 -> 1 [] n = 2 -> 6 [] n = 3 -> 24 [] n = 4 -> 72 [] n = 5 -> 144
                [] OTHER -> 288

Ids(bs) == {b[2] : b \in bs}

\* update_cas_sync_failure, for records that still exist: it does not ask who
\* holds the lease
Failed(bs) ==
    [o \in Objects |->
        IF row[o] # None /\ row[o].id \in Ids(bs)
        THEN [row[o] EXCEPT !.status = "pending", !.started = 0, !.attempts = @ + 1,
                            !.retryAt = clock + Backoff(row[o].attempts + 1)]
        ELSE row[o]]

\* Records are deleted by id, so one enqueued anew is not touched
FlushAnswered(f) ==
    /\ lease[f].pc = "answered"
    /\ row' = [o \in Objects |->
                 IF row[o] # None /\ row[o].id \in Ids(lease[f].batch \ lease[f].rejected)
                 THEN None ELSE Failed(lease[f].rejected)[o]]
    /\ lease' = [lease EXCEPT ![f] = NoLease]
    /\ UNCHANGED <<lastId, commits, unsent, buffer, daemonUp, direct, server, clock, faults>>

FlushFailed(f) ==
    /\ lease[f].pc = "failed"
    /\ row' = Failed(lease[f].batch)
    /\ lease' = [lease EXCEPT ![f] = NoLease]
    /\ UNCHANGED <<lastId, commits, unsent, buffer, daemonUp, direct, server, clock, faults>>

\* The process is killed and leaves its leases behind
FlushKilled(f) ==
    /\ lease[f].pc # "idle"
    /\ Fault
    /\ lease' = [lease EXCEPT ![f] = NoLease]
    /\ UNCHANGED <<row, lastId, commits, unsent, buffer, daemonUp, direct, server, clock>>

FlushCas(f) == Dequeue(f) \/ FlushUploaded(f) \/ FlushFails(f) \/ FlushAnswered(f)
               \/ FlushFailed(f) \/ FlushKilled(f)

Next ==
    \/ Tick
    \/ \E o \in Objects : Enqueue(o) \/ SubmitToDaemon(o) \/ SubmitLocally(o) \/ SubmitLost(o)
    \/ TakeBuffer \/ DaemonStarts \/ DaemonDies
    \/ \E d \in Direct : DirectUploaded(d) \/ DirectFails(d) \/ DirectDelete(d)
    \/ \E f \in Flushers : FlushCas(f)

Spec == Init /\ [][Next]_vars

\* The daemon is running and its loop ticks; time passes.  flush-cas is run
\* again and again by those who are in Flushers.
FairSpec ==
    /\ Spec
    /\ WF_vars(Tick) /\ WF_vars(TakeBuffer) /\ WF_vars(DaemonStarts)
    /\ \A o \in Objects : WF_vars(SubmitToDaemon(o)) /\ WF_vars(SubmitLocally(o))
    /\ \A d \in Direct : WF_vars(DirectUploaded(d)) /\ WF_vars(DirectDelete(d))
    /\ \A f \in Flushers : /\ WF_vars(Dequeue(f)) /\ WF_vars(FlushUploaded(f))
                           /\ WF_vars(FlushAnswered(f)) /\ WF_vars(FlushFailed(f))

-----------------------------------------------------------------------------
Queued == {o \in Objects : row[o] # None}

AtLeast == INSTANCE AtLeastOnce WITH
    Item <- Objects, Unsendable <- {}, held <- Queued, arrived <- server

(* The table holds an object until the server has it, with direct uploads   *)
(* and several flush-cas processes beside each other, expired leases and    *)
(* processes that die before or after their deletion.                       *)
AtLeastOnceSpec == AtLeast!Spec

(* A commit that recorded the URL of an object never finds it lost: it is   *)
(* queued or on the server.                                                 *)
ObjectsKept == \A o \in Objects : commits[o] > 0 => o \in Queued \cup server

(* Every enqueued object reaches the server.                                *)
EveryObjectArrives == \A o \in Objects : (commits[o] > 0) ~> (o \in server)
=============================================================================
