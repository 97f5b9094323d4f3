-------------------------- MODULE UploadQueuesProofs --------------------------
(***************************************************************************)
(* The queues of metric events and of prompt objects keep the promise of   *)
(* AtLeastOnce: for any number of events, submitters, drains and faults;   *)
(* and for any number of objects and of flush-cas processes, as long as the *)
(* answer to a direct upload reports no object as failed: its deletion does *)
(* not look at the answer.                                                 *)
(***************************************************************************)
EXTENDS MetricsQueue, FiniteSetTheorems, TLAPS

\* The queue of prompt objects shares the daemon with that of metric events.
CONSTANTS Objects, Flushers, Local, None, MayReject, MaxAttempts, StaleAfter, MaxCommits,
          MaxTime, LastFault
VARIABLES row, lastId, commits, unsent, buffer, direct, lease, server, clock

Cas == INSTANCE CasQueue

-----------------------------------------------------------------------------
(* The queue of metric events.                                              *)

RecordsInv ==
    /\ records \in Seq(Events \cup Corrupt)
    /\ queue \subseteq DOMAIN records
    /\ stored \in [Events -> Nat]

\* The server has the event of record r.
IsStored(r) == records[r] \in Events /\ stored[records[r]] > 0

\* A record that is not in the table any more could not be read, or its event
\* has been stored.
GoneInv ==
    \A r \in DOMAIN records \ queue : records[r] \in Corrupt \/ IsStored(r)

Job == [pc : {"idle", "read", "upload", "answered", "failed"},
        batch : SUBSET Nat, attempt : {1, 2}, rejected : SUBSET Nat]

Readable == {r \in DOMAIN records : records[r] \in Events}

\* Whoever has the server's answer relies on it when it deletes, however long ago
\* that was.
JobsInv ==
    /\ job \in [Drainers -> Job]
    /\ \A p \in Drainers :
          /\ job[p].batch \subseteq Readable
          /\ job[p].pc = "answered" =>
                \A r \in job[p].batch \ job[p].rejected : IsStored(r)

Inv == RecordsInv /\ GoneInv /\ JobsInv

-----------------------------------------------------------------------------
(* The three ways in which the table and the server change.                 *)

Inserted(e) ==
    /\ records' = Append(records, e)
    /\ queue' = queue \cup {Len(records')}
    /\ UNCHANGED stored

\* Only what cannot be read or has been stored is deleted.
Dropped(rs) ==
    /\ \A r \in rs \cap DOMAIN records : records[r] \in Corrupt \/ IsStored(r)
    /\ queue' = queue \ rs
    /\ UNCHANGED <<records, stored>>

Taken(batch) ==
    /\ batch \subseteq Readable
    /\ stored' = Stores(batch)
    /\ UNCHANGED <<records, queue>>

LEMMA ReadableIsFinite ==
    ASSUME RecordsInv, NEW batch \in SUBSET Readable
    PROVE  IsFiniteSet(batch)
<1>1. DOMAIN records = 1..Len(records) /\ Len(records) \in Nat
  BY DEF RecordsInv
<1>2. IsFiniteSet(1..Len(records))
  BY <1>1, FS_Interval
<1> QED
  BY <1>1, <1>2, FS_Subset DEF Readable

\* What an upload adds up to.
LEMMA StoresCounts ==
    ASSUME RecordsInv, NEW batch \in SUBSET Readable
    PROVE  /\ Stores(batch) \in [Events -> Nat]
           /\ \A e \in Events :
                 Stores(batch)[e] > 0 <=> (stored[e] > 0 \/ \E r \in batch : records[r] = e)
<1>1. ASSUME NEW e \in Events
      PROVE  LET n == Cardinality({r \in batch : records[r] = e})
             IN  n \in Nat /\ (n = 0 <=> ~\E r \in batch : records[r] = e)
  <2> DEFINE of == {r \in batch : records[r] = e}
  <2>1. IsFiniteSet(of)
    BY ReadableIsFinite, FS_Subset
  <2>2. Cardinality(of) \in Nat /\ (Cardinality(of) = 0 <=> of = {})
    BY <2>1, FS_CardinalityType, FS_EmptySet
  <2> QED
    BY <2>2
<1>2. \A e \in Events : stored[e] \in Nat
  BY DEF RecordsInv
<1> QED
  BY <1>1, <1>2 DEF Stores

LEMMA InsertedKeeps ==
    ASSUME RecordsInv, GoneInv, NEW e \in Events, Inserted(e)
    PROVE  /\ RecordsInv' /\ GoneInv'
           /\ Queued' = Queued \cup {e} /\ Arrived' = Arrived
           /\ \A r \in Readable : r \in Readable' /\ records'[r] = records[r]
<1>1. /\ records' \in Seq(Events \cup Corrupt)
      /\ DOMAIN records = 1..Len(records) /\ Len(records) \in Nat
      /\ DOMAIN records' = 1..(Len(records) + 1) /\ Len(records') = Len(records) + 1
      /\ \A r \in DOMAIN records : records'[r] = records[r]
      /\ records'[Len(records) + 1] = e
  BY DEF RecordsInv, Inserted
<1>2. DOMAIN records' = DOMAIN records \cup {Len(records')} /\ Len(records') \notin DOMAIN records
  BY <1>1
<1>3. RecordsInv'
  BY <1>1, <1>2 DEF RecordsInv, Inserted
<1>4. GoneInv'
  BY <1>1, <1>2 DEF GoneInv, Inserted, IsStored
<1>5. Queued' = Queued \cup {e}
  BY <1>1, <1>2 DEF Queued, Inserted, RecordsInv
<1>6. Arrived' = Arrived
  BY DEF Arrived, Inserted
<1>7. \A r \in Readable : r \in Readable' /\ records'[r] = records[r]
  BY <1>1, <1>2 DEF Readable
<1> QED
  BY <1>3, <1>4, <1>5, <1>6, <1>7

LEMMA DroppedKeeps ==
    ASSUME RecordsInv, GoneInv, NEW rs, Dropped(rs)
    PROVE  /\ RecordsInv' /\ GoneInv'
           /\ Queued' \subseteq Queued /\ Queued \ Queued' \subseteq Arrived \cup Corrupt
           /\ Arrived' = Arrived
<1>1. RecordsInv' /\ GoneInv'
  BY DEF RecordsInv, GoneInv, Dropped, IsStored
<1>2. Queued' \subseteq Queued
  BY DEF Dropped, Queued
<1>3. Queued \ Queued' \subseteq Arrived \cup Corrupt
  BY DEF Dropped, Queued, Arrived, IsStored, RecordsInv
<1>4. Arrived' = Arrived
  BY DEF Dropped, Arrived
<1> QED
  BY <1>1, <1>2, <1>3, <1>4

LEMMA TakenKeeps ==
    ASSUME MetricsConstants, RecordsInv, GoneInv, NEW batch, Taken(batch)
    PROVE  /\ RecordsInv' /\ GoneInv'
           /\ Queued' = Queued
           /\ Arrived \subseteq Arrived' /\ Arrived' \ Arrived \subseteq Queued
           /\ \A r \in Readable : IsStored(r) \/ r \in batch => IsStored(r)'
<1>1. /\ stored' \in [Events -> Nat]
      /\ \A e \in Events : stored'[e] > 0 <=> (stored[e] > 0 \/ \E r \in batch : records[r] = e)
  BY StoresCounts DEF Taken
<1>2. \A r \in Readable : IsStored(r) \/ r \in batch => IsStored(r)'
  BY <1>1 DEF Taken, Readable, IsStored
<1>3. RecordsInv'
  BY <1>1 DEF RecordsInv, Taken
<1>4. GoneInv'
  BY <1>2 DEF GoneInv, Taken, IsStored, Readable
<1>5. Queued' = Queued
  BY DEF Queued, Taken
<1>6. Arrived \subseteq Arrived'
  BY <1>1 DEF Arrived
<1>7. Arrived' \ Arrived \subseteq Queued
  <2> SUFFICES ASSUME NEW e \in Events, stored'[e] > 0, ~(stored[e] > 0)
               PROVE  e \in Queued
    BY DEF Arrived
  <2>1. PICK r \in batch : records[r] = e
    BY <1>1
  <2>2. r \in DOMAIN records /\ ~IsStored(r)
    BY <2>1 DEF Taken, Readable, IsStored
  <2>3. r \in queue
    BY <2>1, <2>2 DEF GoneInv, MetricsConstants
  <2> QED
    BY <2>1, <2>3 DEF Queued
<1> QED
  BY <1>2, <1>3, <1>4, <1>5, <1>6, <1>7

-----------------------------------------------------------------------------
(* The drains.                                                              *)

\* What a drain may become: its batch is readable, and it has an answer only
\* for what is stored.
JobOf(j) ==
    /\ j \in Job /\ j.batch \subseteq Readable
    /\ j.pc = "answered" => \A r \in j.batch \ j.rejected : IsStored(r)

LEMMA NoJobIsFine == NoJob \in Job /\ JobOf(NoJob) /\ JobOf([NoJob EXCEPT !.pc = "read"])
BY DEF NoJob, Job, JobOf

\* The records that were readable still are, with their events, and the server
\* forgets none.
Lasting ==
    /\ \A r \in Readable : r \in Readable'
    /\ \A r \in Readable : IsStored(r) => IsStored(r)'

\* A drain goes on, the others wait.
JobMoves == \/ UNCHANGED job
            \/ \E p \in Drainers, j \in Job : JobOf(j)' /\ job' = [job EXCEPT ![p] = j]

LEMMA JobsStep ==
    ASSUME JobsInv, Lasting, JobMoves
    PROVE  JobsInv'
<1>1. \A p \in Drainers : JobOf(job[p]) /\ job[p] \in Job
  BY DEF JobsInv, JobOf
<1>2. ASSUME NEW j \in Job, JobOf(j) PROVE JobOf(j)'
  BY <1>2 DEF JobOf, Lasting
<1>3. \A p \in Drainers, j \in Job : j = job[p] => JobOf(j)'
  BY <1>1, <1>2
<1>4. job \in [Drainers -> Job]
  BY DEF JobsInv
<1>5. CASE UNCHANGED job
  BY <1>3, <1>4, <1>5, <1>1 DEF JobsInv, JobOf
<1>6. ASSUME NEW p \in Drainers, NEW j \in Job, JobOf(j)', job' = [job EXCEPT ![p] = j]
      PROVE  JobsInv'
  <2>1. job' \in [Drainers -> Job]
    BY <1>4, <1>6
  <2>2. \A q \in Drainers : job'[q] = IF q = p THEN j ELSE job[q]
    BY <1>4, <1>6
  <2> QED
    BY <1>3, <1>6, <2>1, <2>2 DEF JobsInv, JobOf
<1> QED
  BY <1>5, <1>6 DEF JobMoves

\* What a step is to the table and the server.
Moves ==
    \/ \E e \in Events : Inserted(e)
    \/ \E rs \in SUBSET Nat : Dropped(rs)
    \/ \E batch \in SUBSET Nat : Taken(batch)
    \/ UNCHANGED <<records, queue, stored>>

LEMMA MovesKeep ==
    ASSUME MetricsConstants, RecordsInv, GoneInv, Moves
    PROVE  RecordsInv' /\ GoneInv' /\ Lasting
<1>1. ASSUME NEW e \in Events, Inserted(e) PROVE RecordsInv' /\ GoneInv' /\ Lasting
  BY <1>1, InsertedKeeps DEF Lasting, IsStored, Inserted
<1>2. ASSUME NEW rs, Dropped(rs) PROVE RecordsInv' /\ GoneInv' /\ Lasting
  BY <1>2, DroppedKeeps DEF Lasting, IsStored, Dropped, Readable
<1>3. ASSUME NEW batch, Taken(batch) PROVE RecordsInv' /\ GoneInv' /\ Lasting
  BY <1>3, TakenKeeps DEF Lasting, Taken, Readable
<1>4. CASE UNCHANGED <<records, queue, stored>>
  BY <1>4 DEF RecordsInv, GoneInv, Lasting, IsStored, Readable
<1> QED
  BY <1>1, <1>2, <1>3, <1>4 DEF Moves

\* What a step is to the promise.
LEMMA MovesAreSteps ==
    ASSUME MetricsConstants, RecordsInv, GoneInv, Moves
    PROVE  AtLeast!Next \/ UNCHANGED <<Queued, Arrived>>
<1>0. Queued \subseteq Events \cup Corrupt /\ Arrived \subseteq Events \cup Corrupt
  BY DEF RecordsInv, Queued, Arrived
<1>1. ASSUME NEW e \in Events, Inserted(e) PROVE AtLeast!Next
  <2>1. AtLeast!Accept(e)
    BY <1>1, InsertedKeeps DEF AtLeast!Accept
  <2> QED
    BY <2>1 DEF AtLeast!Next
<1>2. ASSUME NEW rs, Dropped(rs) PROVE AtLeast!Next
  <2> DEFINE gone == Queued \ Queued'
  <2>1. AtLeast!Release(gone)
    BY <1>2, DroppedKeeps DEF AtLeast!Release
  <2>2. gone \in SUBSET (Events \cup Corrupt)
    BY <1>0
  <2> QED
    BY <2>1, <2>2 DEF AtLeast!Next
<1>3. ASSUME NEW batch, Taken(batch) PROVE AtLeast!Next
  <2> DEFINE new == Arrived' \ Arrived
  <2>1. AtLeast!Arrive(new)
    BY <1>3, TakenKeeps DEF AtLeast!Arrive
  <2>2. new \in SUBSET (Events \cup Corrupt)
    BY <1>0, <1>3, TakenKeeps
  <2> QED
    BY <2>1, <2>2 DEF AtLeast!Next
<1>4. CASE UNCHANGED <<records, queue, stored>>
  BY <1>4 DEF Queued, Arrived
<1> QED
  BY <1>1, <1>2, <1>3, <1>4 DEF Moves

\* Every action moves the table as it should, and at most one drain.
LEMMA Classified ==
    ASSUME MetricsConstants, Inv, [Next]_vars
    PROVE  Moves /\ JobMoves
<1> USE DEF Inv
<1>0. /\ \A p \in Drainers : job[p] \in Job /\ JobOf(job[p])
      /\ Daemon \in Drainers /\ Events \subseteq Drainers /\ Manual \subseteq Drainers
  BY DEF JobsInv, JobOf, Drainers
<1>1. ASSUME NEW e \in Events,
             SubmitToDaemon(e) \/ SubmitLocal(e) \/ DaemonRefuses(e) \/ NoAnswer(e) \/ StoreFails(e)
      PROVE  Moves /\ JobMoves
  BY <1>1 DEF SubmitToDaemon, SubmitLocal, DaemonRefuses, NoAnswer, StoreFails, Moves, JobMoves
<1>2. ASSUME NEW e \in Events, SubmitInternal(e) \/ DaemonStores(e) PROVE Moves /\ JobMoves
  BY <1>2 DEF SubmitInternal, DaemonStores, InsertEvents, Inserted, Moves, JobMoves
<1>3. ASSUME NEW e \in Events, StoreLocally(e) PROVE Moves /\ JobMoves
  <2>1. Inserted(e)
    BY <1>3 DEF StoreLocally, InsertEvents, Inserted
  <2> DEFINE reads == [NoJob EXCEPT !.pc = "read"]
  <2>2. reads \in Job /\ JobOf(reads)'
    BY DEF NoJob, Job, JobOf
  <2>3. job' = [job EXCEPT ![e] = reads]
    BY <1>3 DEF StoreLocally
  <2> QED
    BY <1>0, <2>1, <2>2, <2>3 DEF Moves, JobMoves
<1>4. ASSUME NEW p \in Drainers, NEW j \in Job, JobOf(j), job' = [job EXCEPT ![p] = j],
             UNCHANGED <<records, queue, stored>>
      PROVE  Moves /\ JobMoves
  <2>1. JobOf(j)'
    BY <1>4 DEF JobOf, Readable, IsStored
  <2> QED
    BY <1>4, <2>1 DEF Moves, JobMoves
<1>5. NoJob \in Job /\ JobOf(NoJob)
  BY DEF NoJob, Job, JobOf
<1>6. ASSUME DaemonDies PROVE Moves /\ JobMoves
  BY <1>0, <1>4, <1>5, <1>6 DEF DaemonDies
<1>7. ASSUME NEW p \in Drainers, BeginDrain(p) PROVE Moves /\ JobMoves
  <2> DEFINE j == [job[p] EXCEPT !.pc = "read"]
  <2>1. j \in Job /\ JobOf(j)
    BY <1>0 DEF Job, JobOf
  <2>2. job' = [job EXCEPT ![p] = j]
    BY <1>7 DEF BeginDrain
  <2> QED
    BY <1>4, <1>7, <2>1, <2>2 DEF BeginDrain
<1>8. ASSUME NEW p \in Drainers, DrainRead(p) PROVE Moves /\ JobMoves
  <2> DEFINE invalid == {r \in Batch : records[r] \in Corrupt}
  <2>0. Batch \subseteq DOMAIN records /\ DOMAIN records \subseteq Nat
        /\ \A r \in DOMAIN records : records[r] \in Events \cup Corrupt
    BY DEF Batch, Due, RecordsInv
  <2>1. Dropped(invalid)
    BY <1>8 DEF DrainRead, Drop, Dropped
  <2>2. PICK pc \in {"idle", "read", "upload"} :
          job' = [job EXCEPT ![p] = [NoJob EXCEPT !.pc = pc, !.batch = Batch \ invalid,
                                                  !.rejected = {}]]
    BY <1>8 DEF DrainRead
  <2> DEFINE j == [NoJob EXCEPT !.pc = pc, !.batch = Batch \ invalid, !.rejected = {}]
  <2>3. j \in Job /\ j.batch = Batch \ invalid /\ j.pc = pc
    BY <2>0 DEF NoJob, Job
  <2>4. j.batch \subseteq Readable /\ j.pc # "answered"
    BY <2>0, <2>3 DEF Readable
  <2>5. Readable' = Readable
    BY <2>1 DEF Dropped, Readable
  <2>6. PICK k \in Job : k = j
    BY <2>3
  <2>7. JobOf(k)'
    BY <2>4, <2>5, <2>6 DEF JobOf
  <2>8. invalid \in SUBSET Nat
    BY <2>0
  <2> QED
    BY <2>1, <2>2, <2>6, <2>7, <2>8 DEF Moves, JobMoves
<1>9. ASSUME NEW p \in Drainers, Uploaded(p) PROVE Moves /\ JobMoves
  <2> DEFINE rejected == Rejects(job[p].batch)
             j == [job[p] EXCEPT !.pc = "answered", !.rejected = rejected]
  <2>1. Taken(job[p].batch \ rejected)
    BY <1>0, <1>9 DEF Uploaded, Taken, JobOf
  <2>2. j \in Job /\ j.batch = job[p].batch /\ j.rejected = rejected
    BY <1>0 DEF Job, Rejects
  <2>3. job' = [job EXCEPT ![p] = j]
    BY <1>9 DEF Uploaded
  <2>4. Readable' = Readable /\ \A r \in j.batch \ j.rejected : IsStored(r)'
    BY <1>0, <2>1, <2>2, TakenKeeps DEF JobOf, Taken, Readable
  <2>5. PICK k \in Job : k = j
    BY <2>2
  <2>6. JobOf(k)'
    BY <1>0, <2>2, <2>4, <2>5 DEF JobOf
  <2>7. job[p].batch \ rejected \in SUBSET Nat
    BY <1>0 DEF Job
  <2> QED
    BY <2>1, <2>3, <2>5, <2>6, <2>7 DEF Moves, JobMoves
<1>10. ASSUME NEW p \in Drainers, StorageFails(p) PROVE Moves /\ JobMoves
  <2> DEFINE j == [job[p] EXCEPT !.pc = "answered", !.rejected = job[p].batch]
  <2>1. j \in Job /\ JobOf(j)
    BY <1>0 DEF Job, JobOf
  <2>2. job' = [job EXCEPT ![p] = j]
    BY <1>10 DEF StorageFails
  <2> QED
    BY <1>4, <1>10, <2>1, <2>2 DEF StorageFails
<1>11. ASSUME NEW p \in Drainers, UploadError(p) PROVE Moves /\ JobMoves
  <2> DEFINE again == [job[p] EXCEPT !.attempt = 2]
             fails == [job[p] EXCEPT !.pc = "failed"]
             sent  == job[p].batch \ Rejects(job[p].batch)
  <2>1. again \in Job /\ fails \in Job
    BY <1>0 DEF Job
  <2>2. again.pc = "upload" /\ again.batch = job[p].batch
        /\ fails.pc = "failed" /\ fails.batch = job[p].batch
    BY <1>0, <1>11 DEF Job, UploadError
  <2>3. job' = [job EXCEPT ![p] = again] \/ job' = [job EXCEPT ![p] = fails]
    BY <1>11 DEF UploadError
  <2>4. PICK k \in Job : k \in {again, fails} /\ job' = [job EXCEPT ![p] = k]
    BY <2>1, <2>3
  <2>5. UNCHANGED <<records, queue>> /\ (stored' = stored \/ stored' = Stores(sent))
    BY <1>11 DEF UploadError
  <2>6. JobOf(k)'
    BY <1>0, <2>2, <2>4, <2>5 DEF JobOf, Readable
  <2>7. sent \in SUBSET Nat /\ sent \subseteq Readable
    BY <1>0 DEF Job, JobOf
  <2> QED
    BY <2>4, <2>5, <2>6, <2>7 DEF Moves, JobMoves, Taken
<1>12. ASSUME NEW p \in Drainers, UploadForbidden(p) PROVE Moves /\ JobMoves
  <2> DEFINE j == [job[p] EXCEPT !.pc = "failed"]
  <2>1. j \in Job /\ JobOf(j)
    BY <1>0 DEF Job, JobOf
  <2>2. job' = [job EXCEPT ![p] = j]
    BY <1>12 DEF UploadForbidden
  <2> QED
    BY <1>4, <1>12, <2>1, <2>2 DEF UploadForbidden
<1>13. ASSUME NEW p \in Drainers, Finish(p) PROVE Moves /\ JobMoves
  <2> DEFINE taken == job[p].batch \ job[p].rejected
  <2>1. Dropped(taken) /\ taken \in SUBSET Nat
    BY <1>0, <1>13 DEF Finish, Dropped, JobOf, Job
  <2>2. PICK pc \in {"read", "idle"} : job' = [job EXCEPT ![p] = [NoJob EXCEPT !.pc = pc]]
    BY <1>13 DEF Finish
  <2> DEFINE j == [NoJob EXCEPT !.pc = pc]
  <2>3. j \in Job /\ j.batch = {} /\ j.pc = pc
    BY DEF NoJob, Job
  <2>4. PICK k \in Job : k = j /\ k.batch = {} /\ k.pc # "answered"
    BY <2>3
  <2>5. JobOf(k)'
    BY <2>4 DEF JobOf
  <2> QED
    BY <2>1, <2>2, <2>4, <2>5 DEF Moves, JobMoves
<1>14. ASSUME NEW p \in Drainers, RecordFailure(p) \/ DrainKilled(p) PROVE Moves /\ JobMoves
  BY <1>4, <1>5, <1>14 DEF RecordFailure, DrainKilled
<1>15. CASE DaemonStarts \/ (\E r \in waiting : RetryDue(r)) \/ UNCHANGED vars
  BY <1>15 DEF DaemonStarts, RetryDue, vars, Moves, JobMoves
<1> QED
  BY <1>0, <1>1, <1>2, <1>3, <1>6, <1>7, <1>8, <1>9, <1>10, <1>11, <1>12, <1>13, <1>14, <1>15
  DEF Next, Submission, Drain, FlushLoopTick, FlushMetricsDb

-----------------------------------------------------------------------------
LEMMA InvHolds ==
    ASSUME MetricsConstants
    PROVE  Spec => []Inv
<1>1. Init => Inv
  <2> SUFFICES ASSUME Init PROVE Inv
    OBVIOUS
  <2>1. Cardinality(Corrupt) \in Nat
    BY FS_CardinalityType DEF MetricsConstants
  <2>2. RecordsInv
    BY <2>1 DEF Init, RecordsInv
  <2>3. GoneInv
    BY DEF Init, GoneInv
  <2>4. JobsInv
    BY DEF Init, JobsInv, NoJob, Job
  <2> QED
    BY <2>2, <2>3, <2>4 DEF Inv
<1>2. Inv /\ [Next]_vars => Inv'
  BY Classified, MovesKeep, JobsStep, MetricsConstants DEF Inv
<1> QED
  BY <1>1, <1>2, MetricsConstants, PTL DEF Spec

(* Whatever is submitted through the daemon or stored locally, however many *)
(* processes drain the table at once, fail, are killed or never see an      *)
(* answer: a record leaves the table only when it cannot be read or the     *)
(* server has its event, and what reaches the server came from the table.   *)
THEOREM MetricsAtLeastOnce ==
    ASSUME MetricsConstants
    PROVE  Spec => AtLeastOnceSpec
<1>1. Init => AtLeast!Init
  BY DEF Init, AtLeast!Init, Queued, Arrived
<1>2. Inv /\ [Next]_vars => [AtLeast!Next]_<<Queued, Arrived>>
  BY Classified, MovesAreSteps, MetricsConstants DEF Inv
<1>3. Spec => []Inv
  BY InvHolds, MetricsConstants
<1> QED
  BY <1>1, <1>2, <1>3, PTL DEF Spec, AtLeastOnceSpec, AtLeast!Spec

-----------------------------------------------------------------------------
(* The queue of prompt objects.                                             *)

RowsInv ==
    /\ row \in [Objects -> Cas!Rows \cup {None}]
    /\ lastId \in Nat /\ clock \in Nat
    /\ \A o \in Objects : row[o] # None => row[o].id <= lastId
    /\ \A o, p \in Objects :
          row[o] # None /\ row[p] # None /\ row[o].id = row[p].id => o = p

Uploads == [pc : {"idle", "upload", "answered"}, batch : SUBSET Objects]
Leases  == [pc : {"idle", "upload", "answered", "failed"}, batch : SUBSET (Objects \X Nat),
            rejected : SUBSET (Objects \X Nat), since : Nat]

\* An upload whose objects are to be deleted has brought them.
UploadOf(u) == u.pc = "answered" => u.batch \subseteq server

\* The id of a leased record is never that of another object, even when the
\* record is gone and the object has been enqueued anew.
Names(b) == /\ b[2] <= lastId
            /\ \A o \in Objects : row[o] # None /\ row[o].id = b[2] => o = b[1]

LeaseOf(l) ==
    /\ \A b \in l.batch : Names(b)
    /\ l.rejected \subseteq l.batch
    /\ l.pc = "answered" => \A b \in l.batch \ l.rejected : b[1] \in server

UploadsInv ==
    /\ server \subseteq Objects /\ unsent \subseteq Objects /\ buffer \subseteq Objects
    /\ direct \in [Cas!Direct -> Uploads]
    /\ \A d \in Cas!Direct : UploadOf(direct[d])
    /\ lease \in [Flushers -> Leases]
    /\ \A f \in Flushers : LeaseOf(lease[f])

\* The objects whose copies or leases are under way.
Underway ==
    {o \in Objects : \/ o \in unsent \cup buffer
                     \/ \E d \in Cas!Direct : o \in direct[d].batch
                     \/ \E f \in Flushers : \E b \in lease[f].batch : b[1] = o}

Committed == {o \in Objects : commits[o] > 0}

CommitsInv ==
    /\ commits \in [Objects -> Nat]
    /\ Cas!Queued \cup Underway \subseteq Committed
    /\ Cas!ObjectsKept

CasInv == RowsInv /\ UploadsInv /\ CommitsInv

-----------------------------------------------------------------------------
(* What a step does to the table and the server.                            *)

\* Only what the server has leaves the table, and no id changes.
RowsStay ==
    /\ row' \in [Objects -> Cas!Rows \cup {None}]
    /\ \A o \in Objects :
          /\ row'[o] # None => row[o] # None /\ row'[o].id = row[o].id
          /\ row[o] # None /\ row'[o] = None => o \in server
    /\ UNCHANGED <<lastId, server>>

Enqueued(o) ==
    /\ commits' = [commits EXCEPT ![o] = @ + 1]
    /\ IF row[o] = None
       THEN /\ lastId' = lastId + 1
            /\ row' = [row EXCEPT ![o] = [id |-> lastId', status |-> "pending", attempts |-> 0,
                                          retryAt |-> clock, started |-> 0]]
       ELSE UNCHANGED <<lastId, row>>
    /\ UNCHANGED <<server, clock>>

Reached(os) ==
    /\ os \subseteq Underway
    /\ server' = server \cup os
    /\ UNCHANGED <<row, lastId>>

RowMoves ==
    \/ \E o \in Objects : Enqueued(o)
    \/ RowsStay /\ UNCHANGED commits /\ clock' \in Nat
    \/ \E os \in SUBSET Objects : Reached(os) /\ UNCHANGED <<commits, clock>>

\* What follows from it for those who remember ids and answers.
RowsLast ==
    /\ \A b \in Objects \X Nat : Names(b) => Names(b)'
    /\ server \subseteq server'
    /\ lastId <= lastId'

LEMMA EnqueuedKeeps ==
    ASSUME Cas!CasConstants, RowsInv, NEW o \in Objects, Enqueued(o)
    PROVE  /\ RowsInv' /\ RowsLast
           /\ Cas!Queued' = Cas!Queued \cup {o}
<1> DEFINE new == [id |-> lastId + 1, status |-> "pending", attempts |-> 0,
                   retryAt |-> clock, started |-> 0]
<1>1. CASE row[o] # None
  BY <1>1 DEF Enqueued, RowsInv, RowsLast, Names, Cas!Queued
<1>2. CASE row[o] = None
  <2>1. new \in Cas!Rows /\ new.id = lastId + 1
    BY DEF RowsInv, Cas!Rows
  <2>2. new # None
    BY <2>1 DEF Cas!CasConstants
  <2> HIDE DEF new
  <2>3. /\ lastId' = lastId + 1 /\ clock' = clock /\ server' = server
        /\ row' = [row EXCEPT ![o] = new]
    BY <1>2 DEF Enqueued, new
  <2>4. /\ row' \in [Objects -> Cas!Rows \cup {None}]
        /\ \A p \in Objects : row'[p] = IF p = o THEN new ELSE row[p]
    BY <2>1, <2>3 DEF RowsInv
  <2>5. \A p \in Objects : row[p] # None => row[p].id \in Nat
    BY DEF RowsInv, Cas!Rows
  <2>6. RowsInv'
    BY <2>1, <2>3, <2>4, <2>5, <1>2 DEF RowsInv
  <2>7. RowsLast
    BY <2>1, <2>3, <2>4, <2>5, <1>2 DEF RowsInv, RowsLast, Names
  <2>8. Cas!Queued' = Cas!Queued \cup {o}
    BY <2>2, <2>4 DEF Cas!Queued
  <2> QED
    BY <2>6, <2>7, <2>8
<1> QED
  BY <1>1, <1>2

LEMMA RowsStayKeeps ==
    ASSUME RowsInv, RowsStay, clock' \in Nat
    PROVE  /\ RowsInv' /\ RowsLast
           /\ Cas!Queued' \subseteq Cas!Queued /\ Cas!Queued \ Cas!Queued' \subseteq server
<1>1. \A o \in Objects : row[o] # None => row[o].id \in Nat
  BY DEF RowsInv, Cas!Rows
<1>2. RowsInv'
  BY DEF RowsInv, RowsStay
<1>3. RowsLast
  BY <1>1 DEF RowsInv, RowsStay, RowsLast, Names
<1> QED
  BY <1>2, <1>3 DEF RowsStay, Cas!Queued

LEMMA ReachedKeeps ==
    ASSUME RowsInv, CommitsInv, NEW os, Reached(os), UNCHANGED clock
    PROVE  /\ RowsInv' /\ RowsLast
           /\ Cas!Queued' = Cas!Queued
           /\ os \subseteq Cas!Queued \cup server
<1>1. RowsInv' /\ Cas!Queued' = Cas!Queued
  BY DEF RowsInv, Reached, Cas!Queued
<1>2. RowsLast
  BY DEF RowsLast, Names, Reached, RowsInv
<1>3. os \subseteq Cas!Queued \cup server
  BY DEF Reached, CommitsInv, Committed, Cas!ObjectsKept
<1> QED
  BY <1>1, <1>2, <1>3

LEMMA RowMovesKeep ==
    ASSUME Cas!CasConstants, RowsInv, CommitsInv, RowMoves
    PROVE  /\ RowsInv' /\ RowsLast
           /\ commits' \in [Objects -> Nat] /\ Committed \subseteq Committed'
           /\ Cas!Queued' \subseteq Committed' /\ Cas!ObjectsKept'
<1>0. /\ commits \in [Objects -> Nat] /\ Committed \subseteq Cas!Queued \cup server
      /\ Cas!Queued \subseteq Committed
  BY DEF CommitsInv, Cas!ObjectsKept, Committed
<1>1. ASSUME NEW o \in Objects, Enqueued(o)
      PROVE  /\ RowsInv' /\ RowsLast
             /\ commits' \in [Objects -> Nat] /\ Committed \subseteq Committed'
             /\ Cas!Queued' \subseteq Committed' /\ Committed' \subseteq Cas!Queued' \cup server'
  <2>1. /\ commits' \in [Objects -> Nat]
        /\ \A p \in Objects : commits'[p] = IF p = o THEN commits[o] + 1 ELSE commits[p]
    BY <1>0, <1>1 DEF Enqueued
  <2>2. Committed' = Committed \cup {o}
    BY <1>0, <2>1 DEF Committed
  <2>3. RowsInv' /\ RowsLast /\ Cas!Queued' = Cas!Queued \cup {o} /\ server' = server
    BY <1>1, EnqueuedKeeps DEF Enqueued
  <2> QED
    BY <1>0, <2>1, <2>2, <2>3
<1>2. CASE RowsStay /\ UNCHANGED commits /\ clock' \in Nat
  <2>1. Committed' = Committed
    BY <1>2 DEF Committed
  <2>2. Cas!Queued' \subseteq Committed' /\ Committed' \subseteq Cas!Queued' \cup server'
    BY <1>0, <1>2, <2>1, RowsStayKeeps DEF RowsStay
  <2> QED
    BY <1>0, <1>2, <2>1, <2>2, RowsStayKeeps DEF Cas!ObjectsKept, Committed
<1>3. ASSUME NEW os, Reached(os), UNCHANGED <<commits, clock>>
      PROVE  /\ RowsInv' /\ RowsLast /\ commits' = commits
             /\ Committed' = Committed
             /\ Cas!Queued' \subseteq Committed' /\ Committed' \subseteq Cas!Queued' \cup server'
  BY <1>0, <1>3, ReachedKeeps DEF Committed, Reached
<1> QED
  BY <1>0, <1>1, <1>2, <1>3 DEF RowMoves, Cas!ObjectsKept, Committed

LEMMA RowMovesAreSteps ==
    ASSUME Cas!CasConstants, RowsInv, UploadsInv, CommitsInv, RowMoves
    PROVE  Cas!AtLeast!Next \/ UNCHANGED <<Cas!Queued, server>>
<1>1. ASSUME NEW o \in Objects, Enqueued(o) PROVE Cas!AtLeast!Next
  <2>1. Cas!AtLeast!Accept(o)
    BY <1>1, EnqueuedKeeps DEF Cas!AtLeast!Accept, Enqueued
  <2> QED
    BY <2>1 DEF Cas!AtLeast!Next
<1>2. CASE RowsStay /\ clock' \in Nat
  <2> DEFINE gone == Cas!Queued \ Cas!Queued'
  <2>1. Cas!AtLeast!Release(gone)
    BY <1>2, RowsStayKeeps DEF Cas!AtLeast!Release, RowsStay
  <2>2. gone \in SUBSET Objects
    BY DEF Cas!Queued
  <2> QED
    BY <2>1, <2>2 DEF Cas!AtLeast!Next
<1>3. ASSUME NEW os, Reached(os), UNCHANGED clock PROVE Cas!AtLeast!Next
  <2> DEFINE new == os \ server
  <2>1. new \subseteq Cas!Queued /\ server' = server \cup new /\ Cas!Queued' = Cas!Queued
    BY <1>3, ReachedKeeps DEF Reached
  <2>2. Cas!AtLeast!Arrive(new)
    BY <2>1 DEF Cas!AtLeast!Arrive
  <2>3. new \in SUBSET Objects
    BY <2>1 DEF Cas!Queued
  <2> QED
    BY <2>2, <2>3 DEF Cas!AtLeast!Next
<1> QED
  BY <1>1, <1>2, <1>3 DEF RowMoves

-----------------------------------------------------------------------------
(* What a step does to the uploads.                                         *)

\* What is under way after a step was so before, or has just been committed.
UploadsStep ==
    /\ server' \subseteq Objects /\ unsent' \subseteq Objects /\ buffer' \subseteq Objects
    /\ \/ UNCHANGED direct
       \/ \E d \in Cas!Direct, u \in Uploads :
             /\ direct' = [direct EXCEPT ![d] = u]
             /\ UploadOf(u)'
             /\ u.batch \subseteq Underway
    /\ \/ UNCHANGED lease
       \/ \E f \in Flushers, l \in Leases :
             /\ lease' = [lease EXCEPT ![f] = l]
             /\ LeaseOf(l)'
             /\ \A b \in l.batch : b[1] \in Committed
    /\ unsent' \cup buffer' \subseteq Underway \cup Committed'

LEMMA UploadsKeep ==
    ASSUME UploadsInv, CommitsInv, RowsInv, RowsInv', RowsLast, Committed \subseteq Committed',
           UploadsStep
    PROVE  UploadsInv' /\ Underway' \subseteq Committed'
<1>0. /\ Underway \subseteq Committed
      /\ direct \in [Cas!Direct -> Uploads] /\ lease \in [Flushers -> Leases]
      /\ \A d \in Cas!Direct : direct[d] \in Uploads /\ UploadOf(direct[d])
      /\ \A f \in Flushers : lease[f] \in Leases /\ LeaseOf(lease[f])
  BY DEF CommitsInv, UploadsInv
<1>1. \A d \in Cas!Direct, u \in Uploads :
         u = direct[d] => UploadOf(u)' /\ u.batch \subseteq Committed
  BY <1>0 DEF UploadOf, RowsLast, Underway, Uploads
<1>2. \A f \in Flushers, l \in Leases : l = lease[f] =>
         LeaseOf(l)' /\ \A b \in l.batch : b[1] \in Committed
  <2> SUFFICES ASSUME NEW f \in Flushers, NEW l \in Leases, l = lease[f]
               PROVE  LeaseOf(l)' /\ \A b \in l.batch : b[1] \in Committed
    OBVIOUS
  <2>1. LeaseOf(l) /\ l.batch \subseteq Objects \X Nat
    BY <1>0 DEF Leases
  <2>2. LeaseOf(l)'
    BY <2>1 DEF LeaseOf, RowsLast
  <2>3. ASSUME NEW b \in l.batch PROVE b[1] \in Committed
    <3>1. b[1] \in Objects
      BY <2>1
    <3> QED
      BY <1>0, <3>1 DEF Underway
  <2> QED
    BY <2>2, <2>3
<1>3. /\ direct' \in [Cas!Direct -> Uploads]
      /\ \A d \in Cas!Direct, u \in Uploads :
            u = direct'[d] => UploadOf(u)' /\ u.batch \subseteq Committed
  <2>1. CASE UNCHANGED direct
    BY <1>0, <1>1, <2>1
  <2>2. ASSUME NEW d \in Cas!Direct, NEW u \in Uploads, direct' = [direct EXCEPT ![d] = u],
               UploadOf(u)', u.batch \subseteq Underway
        PROVE  /\ direct' \in [Cas!Direct -> Uploads]
               /\ \A e \in Cas!Direct, v \in Uploads :
                     v = direct'[e] => UploadOf(v)' /\ v.batch \subseteq Committed
    BY <1>0, <1>1, <2>2
  <2> QED
    BY <2>1, <2>2 DEF UploadsStep
<1>4. /\ lease' \in [Flushers -> Leases]
      /\ \A f \in Flushers, l \in Leases : l = lease'[f] =>
            LeaseOf(l)' /\ \A b \in l.batch : b[1] \in Committed
  <2>1. CASE UNCHANGED lease
    BY <1>0, <1>2, <2>1
  <2>2. ASSUME NEW f \in Flushers, NEW l \in Leases, lease' = [lease EXCEPT ![f] = l],
               LeaseOf(l)', \A b \in l.batch : b[1] \in Committed
        PROVE  /\ lease' \in [Flushers -> Leases]
               /\ \A g \in Flushers, m \in Leases : m = lease'[g] =>
                     LeaseOf(m)' /\ \A b \in m.batch : b[1] \in Committed
    BY <1>0, <1>2, <2>2
  <2> QED
    BY <2>1, <2>2 DEF UploadsStep
<1>5. UploadsInv'
  BY <1>3, <1>4 DEF UploadsInv, UploadsStep
<1>6. Underway' \subseteq Committed'
  <2>1. ASSUME NEW d \in Cas!Direct PROVE direct'[d].batch \subseteq Committed'
    BY <1>3
  <2>2. ASSUME NEW f \in Flushers PROVE \A b \in lease'[f].batch : b[1] \in Committed'
    BY <1>4
  <2>3. unsent' \cup buffer' \subseteq Committed'
    BY <1>0 DEF UploadsStep
  <2> QED
    BY <2>1, <2>2, <2>3 DEF Underway
<1> QED
  BY <1>5, <1>6

\* Every action moves the table as it should, and at most one upload.
LEMMA CasClassified ==
    ASSUME Cas!CasConstants, ~MayReject, CasInv, [Cas!Next]_Cas!vars
    PROVE  RowMoves /\ UploadsStep
<1> USE DEF CasInv
<1>0. /\ unsent \cup buffer \subseteq Underway
      /\ \A d \in Cas!Direct : /\ direct[d] \in Uploads /\ UploadOf(direct[d])
                                /\ direct[d].batch \subseteq Underway
      /\ \A f \in Flushers : lease[f] \in Leases /\ LeaseOf(lease[f])
      /\ \A f \in Flushers : \A b \in lease[f].batch : b \in Objects \X Nat /\ b[1] \in Underway
      /\ Underway \subseteq Committed
  BY DEF UploadsInv, CommitsInv, Underway, Uploads, Leases
\* The steps that leave the table, or the uploads, as they are.
<1> DEFINE SameTable == UNCHANGED <<row, lastId, commits, server>> /\ clock' \in Nat
           SameCopies == UNCHANGED <<unsent, buffer>>
<1>1. ASSUME SameTable PROVE RowMoves
  BY <1>1 DEF RowMoves, RowsStay, RowsInv
<1>2. ASSUME SameCopies, server' \subseteq Objects, UNCHANGED <<direct, lease>> PROVE UploadsStep
  BY <1>0, <1>2 DEF UploadsStep, UploadsInv
<1>3. clock \in Nat /\ server \subseteq Objects /\ unsent \subseteq Objects /\ buffer \subseteq Objects
  BY DEF RowsInv, UploadsInv
<1>4. ASSUME NEW d \in Cas!Direct, NEW u \in Uploads, u.batch \subseteq Underway, UploadOf(u)',
             direct' = [direct EXCEPT ![d] = u], server' \subseteq Objects, UNCHANGED lease,
             unsent' \subseteq unsent, buffer' \subseteq buffer
      PROVE  UploadsStep
  BY <1>0, <1>3, <1>4 DEF UploadsStep
<1>5. ASSUME NEW f \in Flushers, NEW l \in Leases, LeaseOf(l)', \A b \in l.batch : b[1] \in Committed,
             lease' = [lease EXCEPT ![f] = l], server' \subseteq Objects, UNCHANGED direct, SameCopies
      PROVE  UploadsStep
  BY <1>0, <1>3, <1>5 DEF UploadsStep
<1>6. /\ Cas!NoDirect \in Uploads /\ Cas!NoDirect.batch = {} /\ UploadOf(Cas!NoDirect)'
      /\ Cas!NoLease \in Leases /\ Cas!NoLease.batch = {} /\ LeaseOf(Cas!NoLease)'
  BY DEF Cas!NoDirect, Cas!NoLease, Uploads, Leases, UploadOf, LeaseOf
<1>7. Daemon \in Cas!Direct /\ Local \in Cas!Direct
  BY DEF Cas!Direct
<1> HIDE DEF SameTable, SameCopies

<1>10. ASSUME Cas!Tick PROVE RowMoves /\ UploadsStep
  BY <1>1, <1>2, <1>3, <1>10 DEF Cas!Tick, SameTable, SameCopies
<1>11. ASSUME NEW o \in Objects, Cas!Enqueue(o) PROVE RowMoves /\ UploadsStep
  <2>1. Enqueued(o)
    BY <1>11 DEF Cas!Enqueue, Enqueued
  <2>2. o \in Committed'
    BY <1>11 DEF Cas!Enqueue, Committed, CommitsInv
  <2>3. UploadsStep
    BY <1>0, <1>3, <1>11, <2>2 DEF Cas!Enqueue, UploadsStep
  <2> QED
    BY <2>1, <2>3 DEF RowMoves
<1>12. ASSUME NEW o \in Objects, Cas!SubmitToDaemon(o) \/ Cas!SubmitLost(o)
       PROVE  RowMoves /\ UploadsStep
  <2>1. RowMoves
    BY <1>1, <1>3, <1>12 DEF Cas!SubmitToDaemon, Cas!SubmitLost, SameTable
  <2>2. UploadsStep
    BY <1>0, <1>3, <1>12 DEF Cas!SubmitToDaemon, Cas!SubmitLost, UploadsStep
  <2> QED
    BY <2>1, <2>2
<1>13. ASSUME NEW o \in Objects, Cas!SubmitLocally(o) PROVE RowMoves /\ UploadsStep
  <2> DEFINE u == [pc |-> "upload", batch |-> {o}]
  <2>1. u \in Uploads /\ UploadOf(u)' /\ u.batch \subseteq Underway
    BY <1>0, <1>13 DEF Cas!SubmitLocally, Uploads, UploadOf
  <2>2. UploadsStep
    BY <1>3, <1>4, <1>7, <1>13, <2>1 DEF Cas!SubmitLocally
  <2> QED
    BY <1>1, <1>3, <1>13, <2>2 DEF Cas!SubmitLocally, SameTable
<1>14. ASSUME Cas!TakeBuffer PROVE RowMoves /\ UploadsStep
  <2> DEFINE u == [pc |-> "upload", batch |-> buffer]
  <2>0. u \in Uploads /\ u.pc = "upload" /\ u.batch \subseteq Underway
    BY <1>0, <1>3 DEF Uploads
  <2>1. PICK v \in Uploads : v = u /\ v.pc = "upload" /\ v.batch \subseteq Underway
    BY <2>0
  <2>2. UploadsStep
    <3>1. direct' = [direct EXCEPT ![Daemon] = v] /\ UNCHANGED <<lease, unsent, server>>
          /\ buffer' = {}
      BY <1>14, <2>1 DEF Cas!TakeBuffer
    <3>2. UploadOf(v)'
      BY <2>1 DEF UploadOf
    <3> QED
      BY <1>3, <1>4, <1>7, <2>1, <3>1, <3>2
  <2> QED
    BY <1>1, <1>3, <1>14, <2>2 DEF Cas!TakeBuffer, SameTable
<1>15. ASSUME Cas!DaemonStarts PROVE RowMoves /\ UploadsStep
  BY <1>1, <1>2, <1>3, <1>15 DEF Cas!DaemonStarts, SameTable, SameCopies
<1>16. ASSUME Cas!DaemonDies PROVE RowMoves /\ UploadsStep
  <2>1. UploadsStep
    BY <1>3, <1>4, <1>6, <1>7, <1>16 DEF Cas!DaemonDies
  <2> QED
    BY <1>1, <1>3, <1>16, <2>1 DEF Cas!DaemonDies, SameTable
<1>17. ASSUME NEW d \in Cas!Direct, Cas!DirectUploaded(d) PROVE RowMoves /\ UploadsStep
  <2> DEFINE u == [direct[d] EXCEPT !.pc = "answered"]
  <2>1. server' = server \cup direct[d].batch
    BY <1>17 DEF Cas!DirectUploaded, Cas!Rejections
  <2>2. /\ u \in Uploads /\ u.batch = direct[d].batch
        /\ direct' = [direct EXCEPT ![d] = u]
    BY <1>0, <1>17 DEF Cas!DirectUploaded, Uploads
  <2>3. PICK v \in Uploads : v = u
    BY <2>2
  <2>4. direct[d].batch \subseteq Underway /\ direct[d].batch \subseteq Objects
    BY <1>0 DEF Uploads
  <2>5. UploadOf(v)'
    BY <2>1, <2>2, <2>3 DEF UploadOf
  <2>6. UploadsStep
    BY <1>3, <1>4, <1>17, <2>1, <2>2, <2>3, <2>4, <2>5 DEF Cas!DirectUploaded
  <2>7. Reached(direct[d].batch)
    BY <1>17, <2>1, <2>4 DEF Cas!DirectUploaded, Reached
  <2> QED
    BY <1>17, <2>4, <2>6, <2>7 DEF Cas!DirectUploaded, RowMoves
<1>18. ASSUME NEW d \in Cas!Direct, Cas!DirectFails(d) PROVE RowMoves /\ UploadsStep
  <2>1. direct[d].batch \subseteq Underway /\ direct[d].batch \subseteq Objects
    BY <1>0 DEF Uploads
  <2>2. PICK os \in SUBSET Objects : os \subseteq direct[d].batch /\ server' = server \cup os
    <3>1. CASE server' = server
      <4>1. {} \subseteq direct[d].batch /\ server' = server \cup {}
        BY <3>1
      <4> QED
        BY <4>1
    <3>2. CASE server' = server \cup direct[d].batch
      BY <2>1, <3>2
    <3> QED
      BY <1>18, <3>1, <3>2 DEF Cas!DirectFails
  <2>3. Reached(os)
    BY <1>18, <2>1, <2>2 DEF Cas!DirectFails, Reached
  <2>4. UploadsStep
    BY <1>3, <1>4, <1>6, <1>18, <2>2 DEF Cas!DirectFails
  <2> QED
    BY <1>18, <2>3, <2>4 DEF Cas!DirectFails, RowMoves
<1>19. ASSUME NEW d \in Cas!Direct, Cas!DirectDelete(d) PROVE RowMoves /\ UploadsStep
  <2>1. direct[d].batch \subseteq server
    BY <1>0, <1>19 DEF Cas!DirectDelete, UploadOf
  <2>2. RowsStay
    BY <1>19, <2>1 DEF Cas!DirectDelete, Cas!Delete, RowsStay, RowsInv
  <2>3. UploadsStep
    BY <1>3, <1>4, <1>6, <1>19 DEF Cas!DirectDelete
  <2> QED
    BY <1>3, <1>19, <2>2, <2>3 DEF Cas!DirectDelete, RowMoves
<1>20. ASSUME NEW f \in Flushers, Cas!Dequeue(f) PROVE RowMoves /\ UploadsStep
  <2> DEFINE taken == {o \in Objects : Cas!Leasable(o)}
             batch == {<<o, row[o].id>> : o \in taken}
             l == [Cas!NoLease EXCEPT !.pc = "upload", !.since = clock, !.batch = batch]
  <2>1. \A o \in taken : row[o] \in Cas!Rows /\ row[o] # None
    BY DEF Cas!Leasable, RowsInv
  <2>2. \A b \in batch : \E o \in taken : b = <<o, row[o].id>>
    OBVIOUS
  <2>3. batch \subseteq Objects \X Nat
    BY <2>1 DEF Cas!Rows
  <2>4. l \in Leases /\ l.pc = "upload" /\ l.batch = batch /\ l.rejected = {}
    BY <1>3, <2>3 DEF Cas!NoLease, Leases
  <2>5. RowsStay
    <3>1. ASSUME NEW o \in Objects
          PROVE  /\ row'[o] \in Cas!Rows \cup {None}
                 /\ row'[o] # None <=> row[o] # None
                 /\ row'[o] # None => row'[o].id = row[o].id
      <4>1. \/ row'[o] = [row[o] EXCEPT !.status = "processing", !.started = clock] /\ o \in taken
            \/ row'[o] = [row[o] EXCEPT !.status = "pending", !.started = 0] /\ row[o] # None
            \/ row'[o] = row[o]
        BY <1>20 DEF Cas!Dequeue
      <4>2. ASSUME row[o] # None
            PROVE  LET r1 == [row[o] EXCEPT !.status = "processing", !.started = clock]
                       r2 == [row[o] EXCEPT !.status = "pending", !.started = 0]
                   IN  /\ r1 \in Cas!Rows /\ r2 \in Cas!Rows /\ r1.id = row[o].id /\ r2.id = row[o].id
                       /\ r1 # None /\ r2 # None
        <5>1. row[o] \in Cas!Rows
          BY <4>2 DEF RowsInv
        <5>2. PICK r \in Cas!Rows : r = row[o]
          BY <5>1
        <5>3. \A x \in Cas!Rows : x # None
          BY DEF Cas!CasConstants
        <5>4. \A t \in Nat :
                 /\ [r EXCEPT !.status = "processing", !.started = t] \in Cas!Rows
                 /\ [r EXCEPT !.status = "pending", !.started = t] \in Cas!Rows
                 /\ [r EXCEPT !.status = "processing", !.started = t].id = r.id
                 /\ [r EXCEPT !.status = "pending", !.started = t].id = r.id
          BY DEF Cas!Rows
        <5> QED
          BY <1>3, <5>2, <5>3, <5>4
      <4> QED
        BY <2>1, <4>1, <4>2 DEF RowsInv
    <3>2. row' \in [Objects -> Cas!Rows \cup {None}]
      BY <1>20, <3>1 DEF Cas!Dequeue
    <3> QED
      BY <1>20, <3>1, <3>2 DEF Cas!Dequeue, RowsStay
  <2>6. PICK m \in Leases : m = l
    BY <2>4
  <2>7. LeaseOf(m)'
    <3>1. m.pc = "upload" /\ m.batch = batch /\ m.rejected = {}
      BY <2>4, <2>6
    <3>2. ASSUME NEW b \in m.batch PROVE Names(b)'
      <4>1. PICK o \in taken : b = <<o, row[o].id>>
        BY <2>2, <3>1, <3>2
      <4>2. Names(b)
        BY <2>1, <4>1 DEF RowsInv, Names
      <4>3. b \in Objects \X Nat
        BY <2>3, <3>1
      <4> QED
        BY <2>5, <1>3, <1>20, <4>2, <4>3, RowsStayKeeps DEF Cas!Dequeue, RowsLast
    <3> QED
      BY <3>1, <3>2 DEF LeaseOf
  <2>8. \A b \in m.batch : b[1] \in Committed
    <3> SUFFICES ASSUME NEW b \in m.batch PROVE b[1] \in Committed
      OBVIOUS
    <3>1. PICK o \in taken : b = <<o, row[o].id>>
      BY <2>2, <2>4, <2>6
    <3>2. o \in Cas!Queued
      BY <2>1 DEF Cas!Queued
    <3> QED
      BY <3>1, <3>2 DEF CommitsInv
  <2>9. UploadsStep
    BY <1>3, <1>5, <1>20, <2>6, <2>7, <2>8 DEF Cas!Dequeue, SameCopies
  <2> QED
    BY <1>3, <1>20, <2>5, <2>9 DEF Cas!Dequeue, RowMoves
\* Records are changed by their ids: those of a lease are its objects'.
<1>21. ASSUME NEW f \in Flushers, NEW bs \in SUBSET lease[f].batch, NEW o \in Objects, row[o] # None,
              row[o].id \in Cas!Ids(bs)
       PROVE  \E b \in bs : b[1] = o
  BY <1>0, <1>21 DEF Cas!Ids, LeaseOf, Names
<1>22. ASSUME NEW bs, NEW o \in Objects
       PROVE  /\ Cas!Failed(bs)[o] \in Cas!Rows \cup {None}
              /\ Cas!Failed(bs)[o] # None <=> row[o] # None
              /\ row[o] # None => Cas!Failed(bs)[o].id = row[o].id
  <2>1. CASE row[o] = None
    BY <2>1 DEF Cas!Failed
  <2>2. CASE row[o] # None
    <3>1. row[o] \in Cas!Rows
      BY <2>2 DEF RowsInv
    <3>2. PICK r \in Cas!Rows : r = row[o]
      BY <3>1
    <3>3. \A x \in Cas!Rows : x # None
      BY DEF Cas!CasConstants
    <3> DEFINE later == [r EXCEPT !.status = "pending", !.started = 0, !.attempts = @ + 1,
                                  !.retryAt = clock + Cas!Backoff(r.attempts + 1)]
    <3>4. r.attempts + 1 \in Nat /\ clock + Cas!Backoff(r.attempts + 1) \in Nat
      BY <1>3 DEF Cas!Rows, Cas!Backoff
    <3>5. later \in Cas!Rows /\ later.id = r.id
      BY <3>4 DEF Cas!Rows
    <3>6. Cas!Failed(bs)[o] = later \/ Cas!Failed(bs)[o] = r
      BY <3>2 DEF Cas!Failed
    <3> QED
      BY <3>2, <3>3, <3>5, <3>6
  <2> QED
    BY <2>1, <2>2
<1>23. ASSUME NEW f \in Flushers, Cas!FlushUploaded(f) PROVE RowMoves /\ UploadsStep
  <2>1. PICK bad \in SUBSET lease[f].batch :
          /\ server' = server \cup {b[1] : b \in lease[f].batch \ bad}
          /\ lease' = [lease EXCEPT ![f].pc = "answered", ![f].rejected = bad]
    BY <1>23 DEF Cas!FlushUploaded
  <2> DEFINE l == [lease[f] EXCEPT !.pc = "answered", !.rejected = bad]
             os == {b[1] : b \in lease[f].batch \ bad}
  <2>2. l \in Leases /\ l.pc = "answered" /\ l.batch = lease[f].batch /\ l.rejected = bad
    BY <1>0 DEF Leases
  <2>3. PICK m \in Leases : m = l
    BY <2>2
  <2>4. LeaseOf(m)'
    <3>1. \A b \in m.batch : Names(b)'
      BY <1>0, <1>23, <2>2, <2>3 DEF Cas!FlushUploaded, LeaseOf, Names
    <3>2. \A b \in m.batch \ m.rejected : b[1] \in server'
      BY <2>1, <2>2, <2>3
    <3>3. m.rejected \subseteq m.batch
      BY <2>2, <2>3
    <3> QED
      BY <3>1, <3>2, <3>3 DEF LeaseOf
  <2>5. \A b \in m.batch : b[1] \in Committed
    BY <1>0, <2>2, <2>3
  <2>6. os \subseteq Underway /\ os \subseteq Objects
    BY <1>0
  <2>7. UploadsStep
    <3>1. lease' = [lease EXCEPT ![f] = m] /\ server' \subseteq Objects
      BY <1>3, <2>1, <2>3, <2>6
    <3> QED
      BY <1>5, <1>23, <2>4, <2>5, <3>1 DEF Cas!FlushUploaded, SameCopies
  <2>8. Reached(os)
    BY <1>23, <2>1, <2>6 DEF Cas!FlushUploaded, Reached
  <2> QED
    BY <1>23, <2>6, <2>7, <2>8 DEF Cas!FlushUploaded, RowMoves
<1>24. ASSUME NEW f \in Flushers, Cas!FlushFails(f) PROVE RowMoves /\ UploadsStep
  <2> DEFINE l == [lease[f] EXCEPT !.pc = "failed"]
             all == {b[1] : b \in lease[f].batch}
  <2>1. l \in Leases /\ l.pc = "failed" /\ l.batch = lease[f].batch
        /\ l.rejected = lease[f].rejected
    BY <1>0 DEF Leases
  <2>2. PICK m \in Leases : m = l
    BY <2>1
  <2>3. PICK os \in SUBSET Objects : os \subseteq Underway /\ server' = server \cup os
    <3>1. all \subseteq Underway /\ all \subseteq Objects
      BY <1>0
    <3>2. CASE server' = server
      <4>1. {} \subseteq Underway /\ server' = server \cup {}
        BY <3>2
      <4> QED
        BY <4>1
    <3>3. CASE server' = server \cup all
      BY <3>1, <3>3
    <3> QED
      BY <1>24, <3>2, <3>3 DEF Cas!FlushFails
  <2>4. LeaseOf(m)'
    BY <1>0, <1>24, <2>1, <2>2 DEF Cas!FlushFails, LeaseOf, Names
  <2>5. \A b \in m.batch : b[1] \in Committed
    BY <1>0, <2>1, <2>2
  <2>6. UploadsStep
    <3>1. lease' = [lease EXCEPT ![f] = m] /\ server' \subseteq Objects
      BY <1>3, <1>24, <2>2, <2>3 DEF Cas!FlushFails
    <3> QED
      BY <1>5, <1>24, <2>4, <2>5, <3>1 DEF Cas!FlushFails, SameCopies
  <2>7. Reached(os)
    BY <1>24, <2>3 DEF Cas!FlushFails, Reached
  <2> QED
    BY <1>24, <2>6, <2>7 DEF Cas!FlushFails, RowMoves
<1>25. ASSUME NEW f \in Flushers, lease' = [lease EXCEPT ![f] = Cas!NoLease],
              UNCHANGED <<unsent, buffer, direct, server>>
       PROVE  UploadsStep
  BY <1>3, <1>5, <1>6, <1>25 DEF SameCopies
<1>26. ASSUME NEW f \in Flushers, Cas!FlushAnswered(f) PROVE RowMoves /\ UploadsStep
  <2> DEFINE taken == lease[f].batch \ lease[f].rejected
  <2>1. \A o \in Objects :
           row'[o] = IF row[o] # None /\ row[o].id \in Cas!Ids(taken) THEN None
                     ELSE Cas!Failed(lease[f].rejected)[o]
    BY <1>26 DEF Cas!FlushAnswered
  <2>2. \A o \in Objects : row[o] # None /\ row[o].id \in Cas!Ids(taken) => o \in server
    BY <1>0, <1>21, <1>26 DEF Cas!FlushAnswered, LeaseOf
  <2>3. row' \in [Objects -> Cas!Rows \cup {None}]
    BY <1>22, <1>26 DEF Cas!FlushAnswered
  <2>4. RowsStay
    BY <1>22, <1>26, <2>1, <2>2, <2>3 DEF Cas!FlushAnswered, RowsStay
  <2> QED
    BY <1>3, <1>25, <1>26, <2>4 DEF Cas!FlushAnswered, RowMoves
<1>27. ASSUME NEW f \in Flushers, Cas!FlushFailed(f) PROVE RowMoves /\ UploadsStep
  <2>1. row' \in [Objects -> Cas!Rows \cup {None}]
    <3>1. row' = [o \in Objects |-> Cas!Failed(lease[f].batch)[o]]
      BY <1>27 DEF Cas!FlushFailed, Cas!Failed
    <3> QED
      BY <1>22, <3>1
  <2>2. RowsStay
    BY <1>22, <1>27, <2>1 DEF Cas!FlushFailed, RowsStay
  <2> QED
    BY <1>3, <1>25, <1>27, <2>2 DEF Cas!FlushFailed, RowMoves
<1>28. ASSUME NEW f \in Flushers, Cas!FlushKilled(f) PROVE RowMoves /\ UploadsStep
  BY <1>1, <1>3, <1>25, <1>28 DEF Cas!FlushKilled, SameTable
<1>29. CASE UNCHANGED Cas!vars
  BY <1>1, <1>2, <1>3, <1>29 DEF Cas!vars, SameTable, SameCopies
<1> QED
  BY <1>10, <1>11, <1>12, <1>13, <1>14, <1>15, <1>16, <1>17, <1>18, <1>19, <1>20, <1>23, <1>24,
     <1>26, <1>27, <1>28, <1>29
  DEF Cas!Next, Cas!FlushCas

-----------------------------------------------------------------------------
LEMMA CasInvHolds ==
    ASSUME Cas!CasConstants, ~MayReject
    PROVE  Cas!Spec => []CasInv
<1>1. Cas!Init => CasInv
  <2> SUFFICES ASSUME Cas!Init PROVE CasInv
    OBVIOUS
  <2>1. RowsInv
    BY DEF Cas!Init, RowsInv
  <2>2. UploadsInv
    BY DEF Cas!Init, UploadsInv, Cas!NoDirect, Cas!NoLease, Uploads, Leases, UploadOf, LeaseOf
  <2>3. CommitsInv
    BY DEF Cas!Init, CommitsInv, Cas!Queued, Underway, Committed,
       Cas!ObjectsKept, Cas!NoDirect, Cas!NoLease
  <2> QED
    BY <2>1, <2>2, <2>3 DEF CasInv
<1>2. CasInv /\ [Cas!Next]_Cas!vars => CasInv'
  <2> SUFFICES ASSUME CasInv, [Cas!Next]_Cas!vars PROVE CasInv'
    OBVIOUS
  <2>1. RowMoves /\ UploadsStep
    BY Cas!CasConstants, ~MayReject, CasClassified
  <2>2. /\ RowsInv' /\ RowsLast
        /\ commits' \in [Objects -> Nat] /\ Committed \subseteq Committed'
        /\ Cas!Queued' \subseteq Committed' /\ Cas!ObjectsKept'
    BY Cas!CasConstants, <2>1, RowMovesKeep DEF CasInv
  <2>3. UploadsInv' /\ Underway' \subseteq Committed'
    BY <2>1, <2>2, UploadsKeep DEF CasInv
  <2> QED
    BY <2>2, <2>3 DEF CasInv, CommitsInv
<1> QED
  BY <1>1, <1>2, Cas!CasConstants, ~MayReject, PTL DEF Cas!Spec

(* Direct uploads and flush-cas processes work beside each other, leases    *)
(* expire and are taken over, processes die between an upload and its       *)
(* deletion, ids of deleted records are never used again: an object leaves  *)
(* the table only when the server has it, and what the server gets was in   *)
(* the table.                                                               *)
THEOREM ObjectsAtLeastOnce ==
    ASSUME Cas!CasConstants, ~MayReject
    PROVE  Cas!Spec => Cas!AtLeastOnceSpec
<1>1. Cas!Init => Cas!AtLeast!Init
  BY DEF Cas!Init, Cas!AtLeast!Init, Cas!Queued
<1>2. CasInv /\ [Cas!Next]_Cas!vars => [Cas!AtLeast!Next]_<<Cas!Queued, server>>
  BY Cas!CasConstants, ~MayReject, CasClassified, RowMovesAreSteps DEF CasInv
<1>3. Cas!Spec => []CasInv
  BY Cas!CasConstants, ~MayReject, CasInvHolds
<1> QED
  BY <1>1, <1>2, <1>3, PTL DEF Cas!Spec, Cas!AtLeastOnceSpec, Cas!AtLeast!Spec

(* An object whose URL a commit has recorded is never lost: it is in the    *)
(* table or on the server.                                                  *)
THEOREM CommittedObjectsAreKept ==
    ASSUME Cas!CasConstants, ~MayReject
    PROVE  Cas!Spec => []Cas!ObjectsKept
<1>1. CasInv => Cas!ObjectsKept
  BY DEF CasInv, CommitsInv
<1> QED
  BY <1>1, Cas!CasConstants, ~MayReject, CasInvHolds, PTL

=============================================================================
