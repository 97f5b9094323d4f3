---------------------------- MODULE MetricsRollup ----------------------------
(* The daily rollups of the enterprise server (services/metrics.rs): every  *)
(* upload inserts its events and, in the same transaction, either adds them *)
(* to the rollup rows of their scope or marks the scope dirty; workers      *)
(* rebuild dirty scopes from the events.  Transactions run under            *)
(* PostgreSQL's READ COMMITTED: a statement sees what was committed when it *)
(* began, and waits for a row another transaction has written.  One scope   *)
(* (day, organisation, user) is modelled, with its summary and tool rows.   *)
EXTENDS Naturals, Sequences, FiniteSets, FiniteSetsExt, SequencesExt

CONSTANTS Uploads,   \* transactions that insert a chunk, one event each here
          Workers,   \* rollup workers, one per server process
          SyncUploads, \* uploads of a server whose rollup mode is sync
          Keys,      \* rows of the scope, numbered in their sort order; 1 is the summary
          Tools,     \* the tool rows of each upload's event
          BatchSize, \* dirty rows a worker claims at once
          MaxAborts  \* bound: failed transactions of an upload

\* What the constants must be.
RollupConstants ==
    /\ Keys = 1..Cardinality(Keys) /\ 1 \in Keys
    /\ SyncUploads \subseteq Uploads
    /\ Tools \in [Uploads -> SUBSET (Keys \ {1})]
    /\ BatchSize \in Nat \ {0} /\ MaxAborts \in Nat

VARIABLES events,   \* uploads whose event is committed
          roll,     \* rollup rows: [gen, n]; gen tells a row from one deleted and inserted anew
          lastGen,
          dirty,    \* committed rows of metrics_rollup_dirty_scopes
          lastDirty,
          lock,     \* who has an uncommitted write on a rollup row
          up,       \* uploads: pc, the rows still to be upserted
          work,     \* workers: see NoWork
          aborts

vars == <<events, roll, lastGen, dirty, lastDirty, lock, up, work, aborts>>

Absent  == [gen |-> 0, n |-> 0]
NoOne   == "no one"
NoWork  == [pc |-> "idle",    \* idle, delete, summary, tools, mark
            claimed |-> {},   \* dirty rows, locked
            todo |-> <<>>,    \* rows the current statement has yet to write
            counts |-> <<>>,  \* what its query found for them
            seen |-> <<>>,    \* for DELETE: the row versions of its snapshot
            gone |-> {},      \* rows it has deleted
            new |-> <<>>]     \* rows it has inserted
KeysOf(u) == {1} \cup Tools[u]

Init ==
    /\ events = {}
    /\ roll = [k \in Keys |-> Absent]
    /\ lastGen = 0
    /\ dirty = {} /\ lastDirty = 0
    /\ lock = [k \in Keys |-> NoOne]
    /\ up = [u \in Uploads |-> [pc |-> "idle", todo |-> <<>>]]
    /\ work = [w \in Workers |-> NoWork]
    /\ aborts = 0

Unlocked(t) == [k \in Keys |-> IF lock[k] = t THEN NoOne ELSE lock[k]]
Sorted(ks)  == SetToSortSeq(ks, <)

-----------------------------------------------------------------------------
\* insert_metrics_chunk

\* prepare_daily_rollups sorts its rows
RowOrder(u) == {Sorted(KeysOf(u))}

\* The events are inserted, not yet visible; a sync upload goes on with its rows
UploadBegin(u) ==
    /\ up[u].pc = "idle"
    /\ u \notin events
    /\ \E order \in RowOrder(u) :
          up' = [up EXCEPT ![u] = [pc |-> "write", todo |-> IF u \in SyncUploads THEN order ELSE <<>>]]
    /\ UNCHANGED <<events, roll, lastGen, dirty, lastDirty, lock, work, aborts>>

\* INSERT ... ON CONFLICT DO UPDATE of one row waits for its other writers
UploadUpsert(u) ==
    /\ up[u].pc = "write" /\ up[u].todo # <<>>
    /\ lock[Head(up[u].todo)] = NoOne
    /\ lock' = [lock EXCEPT ![Head(up[u].todo)] = u]
    /\ up' = [up EXCEPT ![u].todo = Tail(@)]
    /\ UNCHANGED <<events, roll, lastGen, dirty, lastDirty, work, aborts>>

\* The commit makes event, rows or dirty mark visible together
UploadCommit(u) ==
    /\ up[u].pc = "write" /\ up[u].todo = <<>>
    /\ events' = events \cup {u}
    /\ IF u \in SyncUploads
       THEN /\ roll' = [k \in Keys |->
                          CASE k \notin KeysOf(u) -> roll[k]
                            [] k \in KeysOf(u) /\ roll[k] = Absent -> [gen |-> lastGen + 1, n |-> 1]
                            [] OTHER -> [roll[k] EXCEPT !.n = @ + 1]]
            /\ lastGen' = lastGen + 1
            /\ UNCHANGED <<dirty, lastDirty>>
       ELSE /\ lastDirty' = lastDirty + 1
            /\ dirty' = dirty \cup {lastDirty'}
            /\ UNCHANGED <<roll, lastGen>>
    /\ lock' = Unlocked(u)
    /\ up' = [up EXCEPT ![u] = [pc |-> "idle", todo |-> <<>>]]
    /\ UNCHANGED <<work, aborts>>

\* The chunk fails and is sent again
UploadAbort(u) ==
    /\ up[u].pc = "write"
    /\ aborts < MaxAborts
    /\ aborts' = aborts + 1
    /\ lock' = Unlocked(u)
    /\ up' = [up EXCEPT ![u] = [pc |-> "idle", todo |-> <<>>]]
    /\ UNCHANGED <<events, roll, lastGen, dirty, lastDirty, work>>

-----------------------------------------------------------------------------
\* process_metrics_rollup_dirty_scopes

Claimed == UNION {work[w].claimed : w \in Workers}

\* SELECT ... FOR UPDATE SKIP LOCKED, then DELETE takes its snapshot and visits
\* the rows in any order
WorkClaim(w) ==
    LET free == dirty \ Claimed
        rows == {k \in Keys : roll[k] # Absent}
    IN  /\ work[w].pc = "idle"
        /\ free # {}
        /\ \E order \in SetToSeqs(rows) :
              work' = [work EXCEPT ![w] =
                         [NoWork EXCEPT !.pc = "delete", !.todo = order, !.seen = roll,
                             !.claimed = {d \in free : Cardinality({c \in free : c < d}) < BatchSize}]]
        /\ UNCHANGED <<events, roll, lastGen, dirty, lastDirty, lock, up, aborts>>

\* DELETE waits for a row's writer; a row that was deleted meanwhile is skipped,
\* also when it was inserted anew
WorkDelete(w) ==
    LET k == Head(work[w].todo)
    IN  /\ work[w].pc = "delete" /\ work[w].todo # <<>>
        /\ lock[k] = NoOne
        /\ IF roll[k].gen = work[w].seen[k].gen
           THEN /\ lock' = [lock EXCEPT ![k] = w]
                /\ work' = [work EXCEPT ![w].todo = Tail(@), ![w].gone = @ \cup {k}]
           ELSE /\ work' = [work EXCEPT ![w].todo = Tail(@)]
                /\ UNCHANGED lock
        /\ UNCHANGED <<events, roll, lastGen, dirty, lastDirty, up, aborts>>

Count(k) == Cardinality({u \in events : k \in KeysOf(u)})

\* INSERT ... SELECT begins: first the summary row, then the tool rows
WorkQuery(w, before, after, ks) ==
    /\ work[w].pc = before /\ work[w].todo = <<>>
    /\ work' = [work EXCEPT ![w].pc = after,
                            ![w].todo = Sorted({k \in ks : Count(k) > 0}),
                            ![w].counts = [k \in Keys |-> Count(k)]]
    /\ UNCHANGED <<events, roll, lastGen, dirty, lastDirty, lock, up, aborts>>

\* A row is inserted if its key is free, or was freed by this transaction
WorkInsert(w) ==
    LET k == Head(work[w].todo)
    IN  /\ work[w].pc \in {"summary", "tools"} /\ work[w].todo # <<>>
        /\ lock[k] \in {NoOne, w}
        /\ roll[k] = Absent \/ k \in work[w].gone
        /\ lock' = [lock EXCEPT ![k] = w]
        /\ work' = [work EXCEPT ![w].todo = Tail(@),
                                ![w].new = Append(@, <<k, work[w].counts[k]>>)]
        /\ UNCHANGED <<events, roll, lastGen, dirty, lastDirty, up, aborts>>

\* Otherwise the key is taken and the transaction fails
WorkConflict(w) ==
    LET k == Head(work[w].todo)
    IN  /\ work[w].pc \in {"summary", "tools"} /\ work[w].todo # <<>>
        /\ lock[k] = NoOne
        /\ roll[k] # Absent /\ k \notin work[w].gone
        /\ lock' = Unlocked(w)
        /\ work' = [work EXCEPT ![w] = NoWork]
        /\ UNCHANGED <<events, roll, lastGen, dirty, lastDirty, up, aborts>>

Inserted(w) == [k \in {work[w].new[i][1] : i \in DOMAIN work[w].new} |->
                  (CHOOSE p \in Range(work[w].new) : p[1] = k)[2]]

\* (mutant) the marks of the scope are deleted, not the rows that were claimed
WorkCommitScope(w) ==
    /\ work[w].pc = "tools" /\ work[w].todo = <<>>
    /\ roll' = [k \in Keys |->
                  CASE k \in DOMAIN Inserted(w) -> [gen |-> lastGen + 1, n |-> Inserted(w)[k]]
                    [] k \notin DOMAIN Inserted(w) /\ k \in work[w].gone -> Absent
                    [] OTHER -> roll[k]]
    /\ lastGen' = lastGen + 1
    /\ dirty' = dirty \cap (Claimed \ work[w].claimed)
    /\ lock' = Unlocked(w)
    /\ work' = [work EXCEPT ![w] = NoWork]
    /\ UNCHANGED <<events, lastDirty, up, aborts>>

\* The claimed rows are deleted and the transaction commits
WorkCommit(w) ==
    /\ work[w].pc = "tools" /\ work[w].todo = <<>>
    /\ roll' = [k \in Keys |->
                  CASE k \in DOMAIN Inserted(w) -> [gen |-> lastGen + 1, n |-> Inserted(w)[k]]
                    [] k \notin DOMAIN Inserted(w) /\ k \in work[w].gone -> Absent
                    [] OTHER -> roll[k]]
    /\ lastGen' = lastGen + 1
    /\ dirty' = dirty \ work[w].claimed
    /\ lock' = Unlocked(w)
    /\ work' = [work EXCEPT ![w] = NoWork]
    /\ UNCHANGED <<events, lastDirty, up, aborts>>

\* Transactions that wait for each other: the database fails one of them
WaitsFor(t) ==
    CASE t \in Uploads /\ up[t].todo # <<>> -> {lock[Head(up[t].todo)]} \ {NoOne}
      [] t \in Workers /\ work[t].todo # <<>> -> {lock[Head(work[t].todo)]} \ {NoOne, t}
      [] OTHER -> {}

Deadlocked(t) == \E S \in SUBSET (Uploads \cup Workers) :
                    t \in S /\ \A s \in S : WaitsFor(s) \cap S # {}

DeadlockVictim(t) ==
    /\ Deadlocked(t)
    /\ lock' = Unlocked(t)
    /\ IF t \in Workers
       THEN work' = [work EXCEPT ![t] = NoWork] /\ UNCHANGED <<up, aborts>>
       ELSE /\ aborts < MaxAborts
            /\ aborts' = aborts + 1
            /\ up' = [up EXCEPT ![t] = [pc |-> "idle", todo |-> <<>>]]
            /\ UNCHANGED work
    /\ UNCHANGED <<events, roll, lastGen, dirty, lastDirty>>

Upload(u) == UploadBegin(u) \/ UploadUpsert(u) \/ UploadCommit(u) \/ UploadAbort(u)
Work(w) ==
    \/ WorkClaim(w) \/ WorkDelete(w)
    \/ WorkQuery(w, "delete", "summary", {1})
    \/ WorkQuery(w, "summary", "tools", Keys \ {1})
    \/ WorkInsert(w) \/ WorkConflict(w) \/ WorkCommit(w)

Next ==
    \/ \E u \in Uploads : Upload(u)
    \/ \E w \in Workers : Work(w)
    \/ \E t \in Uploads \cup Workers : DeadlockVictim(t)

Spec == Init /\ [][Next]_vars

-----------------------------------------------------------------------------
TypeOK ==
    /\ events \subseteq Uploads
    /\ roll \in [Keys -> [gen : Nat, n : Nat]]
    /\ dirty \subseteq 1..lastDirty
    /\ lock \in [Keys -> Uploads \cup Workers \cup {NoOne}]
    /\ \A w \in Workers : work[w].claimed \subseteq dirty
    /\ \A v, w \in Workers : v # w => work[v].claimed \cap work[w].claimed = {}

(* When no mark is left and no transaction is open, the rollups are what    *)
(* the events add up to: no upload that committed between the statements of *)
(* a rebuild, on any server and in either mode, is missing or counted twice.*)
RollupsMatch ==
    /\ dirty = {}
    /\ \A u \in Uploads : up[u].pc = "idle"
    /\ \A w \in Workers : work[w].pc = "idle"
    => \A k \in Keys : roll[k].n = Count(k)

(* "Keep concurrent upserts locking rollup primary keys in the same order": *)
(* uploads never wait for one another in a circle.                          *)
UploadsNeverDeadlock ==
    \A S \in SUBSET Uploads : S # {} => \E u \in S : WaitsFor(u) \cap S = {}

=============================================================================
