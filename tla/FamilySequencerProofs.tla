------------------------ MODULE FamilySequencerProofs ------------------------
(***************************************************************************)
(* What FamilySequencer guarantees for any number of families, commands,   *)
(* checkpoint requests and garbage collections.                            *)
(***************************************************************************)
EXTENDS FamilySequencer, TLAPS

Locked == {"queued", "pop", "run", "release"}

\* Where the tasks are, and what they know there.
ControlInv ==
    /\ pc[Worker] \in Locked \cup {"idle", "direct"}
    /\ pc[Worker] # "idle" => cur \in Roots
    /\ pc[Worker] = "queued" => taken \in Order

\* A task refers to a lock exactly while it waits for it or holds it; whoever
\* drains or is about to release holds its lock; a queue has no duplicates.
LockInv ==
    /\ \A t \in Tasks : lock[t] # None <=> pc[t] \in Locked
    /\ \A t \in Tasks : pc[t] \in {"pop", "run", "release"} => HoldsLock(t)
    /\ \A l \in LockIds : \A i \in 1..Len(lockQueue[l]) : lock[lockQueue[l][i]] = l
    /\ \A l \in LockIds : \A i, j \in 1..Len(lockQueue[l]) :
           lockQueue[l][i] = lockQueue[l][j] => i = j

\* Ordinals identify the entries of a family: that is why an insertion never
\* overwrites one.
OrdinalInv ==
    \A f \in Families :
        /\ \A e \in entries[f] : e.order[2] < nextOrdinal[f]
        /\ \A d, e \in entries[f] : d.order[2] = e.order[2] => d = e
        /\ \A e \in entries[f] : e.kind = "pending" => e.who \in Roots /\ FamilyOf[e.who] = f

\* While the worker fills a place, the root has no other one.
TakenInv == pc[Worker] = "queued" => slots[cur] = None

Inv1 == TypeOK /\ ControlInv /\ LockInv

Inv2 == OrdinalInv /\ TakenInv /\ SlotsMatchPending

\* Between garbage collections a family has one lock.
OneLock == \A t \in Tasks : lock[t] # None => lock[t] = lockOf[TaskFamily(t)]
-----------------------------------------------------------------------------
(* Locks.                                                                   *)

LEMMA FreshLockExists ==
    ASSUME TypeOK
    PROVE  /\ FreshLock \in LockIds
           /\ \A f \in Families : lockOf[f] # FreshLock
           /\ \A t \in Tasks : lock[t] # FreshLock
<1>1. lockOf \in [Families -> LockIds \cup {None}] /\ lock \in [Tasks -> LockIds \cup {None}]
  BY DEF TypeOK
<1>2. \E l \in LockIds : (\A f \in Families : lockOf[f] # l) /\ (\A t \in Tasks : lock[t] # l)
  BY <1>1, LockIdsAssumption
<1> QED
  BY <1>2 DEF FreshLock

\* Joining a queue: what it does to the three lock variables.
LEMMA JoinLockStep ==
    ASSUME TypeOK, NEW t \in Tasks, NEW f \in Families, JoinLock(t, f)
    PROVE  \E l \in LockIds :
              /\ lockOf' = [lockOf EXCEPT ![f] = l]
              /\ lockQueue' = [lockQueue EXCEPT ![l] = Append(@, t)]
              /\ lock' = [lock EXCEPT ![t] = l]
              /\ lockOf[f] \in {l, None}
              /\ lockOf[f] = None => /\ \A g \in Families : lockOf[g] # l
                                    /\ \A s \in Tasks : lock[s] # l
<1> DEFINE l == IF lockOf[f] # None THEN lockOf[f] ELSE FreshLock
<1>1. l \in LockIds
  BY FreshLockExists DEF TypeOK
<1>2. lockOf[f] \in {l, None}
  OBVIOUS
<1>3. lockOf[f] = None => /\ \A g \in Families : lockOf[g] # l
                         /\ \A s \in Tasks : lock[s] # l
  BY FreshLockExists
<1> QED
  BY <1>1, <1>2, <1>3 DEF JoinLock

-----------------------------------------------------------------------------
(* Types.                                                                   *)

LEMMA InitInv1 == Init => Inv1
BY SequencerAssumption
   DEF Init, Inv1, TypeOK, ControlInv, LockInv, Locked, HoldsLock, Tasks, PcLabels, Attr

\* The types of the entries a step takes from the map or puts into it.
LEMMA EntryTypes ==
    ASSUME TypeOK, NEW f \in Families
    PROVE  /\ \A o \in Order, w \in Roots : Pending(o, w) \in Entry
           /\ \A e \in Entry : Insert(entries[f], e) \in SUBSET Entry
           /\ ReadyPrefix(entries[f]) \in SUBSET Entry
           /\ AfterPop(entries[f]) \in SUBSET Entry
<1>1. entries[f] \in SUBSET Entry
  BY DEF TypeOK
<1>2. \A o \in Order, w \in Roots : Pending(o, w) \in Entry
  BY DEF Pending, Entry, Kinds
<1>3. ReadyPrefix(entries[f]) \in SUBSET Entry
  BY <1>1 DEF ReadyPrefix
<1> QED
  BY <1>1, <1>2, <1>3 DEF Insert, AfterPop

LEMMA NextPayloadType ==
    ASSUME TypeOK, NEW events, WorkerTakes(events)
    PROVE  /\ NextPayload \in Payload
           /\ NextPayload.root \in Roots
           /\ FamilyOf[NextPayload.root] \in Families
<1>1. processed + 1 \in 1..Len(stream)
  BY DEF TypeOK, WorkerTakes
<1>2. NextPayload \in Payload
  BY <1>1 DEF TypeOK, NextPayload
<1> QED
  BY <1>2, SequencerAssumption DEF Payload

LEMMA TaskFamilyType ==
    ASSUME ControlInv, NEW t \in Tasks, t = Worker => pc[Worker] # "idle"
    PROVE  TaskFamily(t) \in Families
BY SequencerAssumption DEF ControlInv, TaskFamily, Tasks

\* Every step preserves the types; the control and lock invariants say that the
\* tasks have what they use.
LEMMA TypeStep ==
    ASSUME Inv1, [Next]_vars
    PROVE  TypeOK'
<1> USE DEF Inv1
<1>1. ASSUME NEW r \in Roots, GitBegins(r) PROVE TypeOK'
  BY <1>1 DEF TypeOK, GitBegins, ReadClock, seqVars, lockVars, workerVars, clientVars, gcVars
<1>2. ASSUME NEW r \in Roots, NEW ev \in {"start", "exit", "atexit", "fallback"},
             NEW cut \in BOOLEAN, NEW from, NEW to \in {"running", "exited", "done"},
             Emit(r, ev, cut, from, to)
      PROVE  TypeOK'
  <2>1. [root |-> r, ev |-> ev, cut |-> cut] \in Payload
    BY DEF Payload
  <2> QED
    BY <1>2, <2>1 DEF TypeOK, Emit, seqVars, lockVars, workerVars, clientVars, gcVars
<1>3. CASE GitStep
  <2>1. PICK r \in Roots : \/ GitBegins(r)
                          \/ EmitStart(r)
                          \/ EmitExit(r)
                          \/ EmitAtexit(r)
                          \/ ConnectionLost(r)
    BY <1>3 DEF GitStep
  <2>2. attr[r].mutates \in BOOLEAN
    BY DEF TypeOK, Attr
  <2> QED
    BY <1>1, <1>2, <2>1, <2>2 DEF EmitStart, EmitExit, EmitAtexit, ConnectionLost
<1>4. CASE IngestStart
  <2> DEFINE r == NextPayload.root
             f == FamilyOf[r]
             o == <<startedAt[r], nextOrdinal[f]>>
  <2>1. r \in Roots /\ f \in Families
    BY <1>4, NextPayloadType DEF IngestStart
  <2>2. o \in Order /\ Pending(o, r) \in Entry
    BY <2>1, EntryTypes DEF TypeOK, Order
  <2>3. Insert(entries[f], Pending(o, r)) \in SUBSET Entry
    BY <2>1, <2>2, EntryTypes
  <2>4. \/ /\ entries' = [entries EXCEPT ![f] = Insert(entries[f], Pending(o, r))]
           /\ nextOrdinal' = [nextOrdinal EXCEPT ![f] = nextOrdinal[f] + 1]
           /\ slots' = [slots EXCEPT ![r] = o]
        \/ UNCHANGED seqVars
    BY <1>4 DEF IngestStart, AppendPendingRoot
  <2>5. entries' \in [Families -> SUBSET Entry]
    BY <2>1, <2>3, <2>4 DEF TypeOK, seqVars
  <2>6. nextOrdinal' \in [Families -> Nat]
    <3>1. nextOrdinal \in [Families -> Nat] /\ nextOrdinal[f] + 1 \in Nat
      BY <2>1 DEF TypeOK
    <3> QED
      BY <2>1, <2>4, <3>1 DEF seqVars
  <2>7. slots' \in [Roots -> Order \cup {None}]
    BY <2>1, <2>2, <2>4 DEF TypeOK, seqVars
  <2>8. norm' \in [Roots -> {"absent", "pending", "deferred", "completed"}]
    BY <1>4, <2>1 DEF TypeOK, IngestStart
  <2> QED
    BY <1>4, <2>5, <2>6, <2>7, <2>8
    DEF TypeOK, IngestStart, PayloadDone, envVars, lockVars, workerVars, clientVars, gcVars
<1>5. CASE IngestTerminalError
  BY <1>5, NextPayloadType
  DEF TypeOK, IngestTerminalError, PayloadDone, Fail, envVars, seqVars, lockVars, workerVars,
      clientVars, gcVars
<1>6. ASSUME NEW t \in Tasks, NEW f \in Families, JoinLock(t, f)
      PROVE  /\ lockOf' \in [Families -> LockIds \cup {None}]
             /\ lockQueue' \in [LockIds -> Seq(Tasks)]
             /\ lock' \in [Tasks -> LockIds \cup {None}]
  <2>1. PICK l \in LockIds : /\ lockOf' = [lockOf EXCEPT ![f] = l]
                             /\ lockQueue' = [lockQueue EXCEPT ![l] = Append(@, t)]
                             /\ lock' = [lock EXCEPT ![t] = l]
    BY <1>6, JoinLockStep
  <2> QED
    BY <2>1 DEF TypeOK
<1>7. ASSUME NEW r \in Roots, NEW kind \in {"ready", "canceled"}, TakeSlot(r, kind)
      PROVE  /\ slots' \in [Roots -> Order \cup {None}]
             /\ entries' \in [Families -> SUBSET Entry]
             /\ nextOrdinal' \in [Families -> Nat]
             /\ lockOf' \in [Families -> LockIds \cup {None}]
             /\ lockQueue' \in [LockIds -> Seq(Tasks)]
             /\ lock' \in [Tasks -> LockIds \cup {None}]
             /\ pc' \in [Tasks -> PcLabels]
             /\ cur' \in Roots \cup {None}
             /\ taken' \in Order \cup {None}
             /\ repl' \in {"ready", "canceled"}
             /\ processed' \in Nat
             /\ ready' \in [Tasks -> SUBSET Entry]
  BY <1>6, <1>7, SequencerAssumption DEF TypeOK, TakeSlot, Tasks, Goto, PcLabels
<1>8. CASE IngestTerminalNone
  <2> DEFINE r == NextPayload.root
  <2>1. r \in Roots
    BY <1>8, NextPayloadType DEF IngestTerminalNone
  <2>2. norm' \in [Roots -> {"absent", "pending", "deferred", "completed"}]
    BY <1>8, <2>1 DEF TypeOK, IngestTerminalNone
  <2>3. CASE TakeSlot(r, "canceled")
    BY <1>7, <1>8, <2>1, <2>2, <2>3
    DEF TypeOK, IngestTerminalNone, envVars, clientVars, gcVars
  <2>4. CASE PayloadDone /\ UNCHANGED <<seqVars, lockVars, pc, workerVars, ready>>
    BY <1>8, <2>2, <2>4
    DEF TypeOK, IngestTerminalNone, PayloadDone, envVars, seqVars, lockVars, workerVars,
        clientVars, gcVars
  <2> QED
    BY <1>8, <2>3, <2>4 DEF IngestTerminalNone
<1>9. CASE IngestTerminalEmit
  <2> DEFINE r == NextPayload.root
  <2>1. r \in Roots
    BY <1>9, NextPayloadType DEF IngestTerminalEmit
  <2>2. norm' \in [Roots -> {"absent", "pending", "deferred", "completed"}]
    BY <1>9, <2>1 DEF TypeOK, IngestTerminalEmit
  <2>3. CASE TakeSlot(r, "ready") /\ UNCHANGED failures
    BY <1>7, <1>9, <2>1, <2>2, <2>3
    DEF TypeOK, IngestTerminalEmit, envVars, clientVars, gcVars
  <2>4. CASE /\ cur' = r
             /\ Goto(Worker, "direct")
             /\ UNCHANGED <<seqVars, lockVars, processed, taken, repl, ready, failures>>
    BY <1>9, <2>1, <2>2, <2>4
    DEF TypeOK, IngestTerminalEmit, Goto, Tasks, PcLabels, envVars, seqVars, lockVars,
        clientVars, gcVars
  <2>5. CASE /\ Fail
             /\ PayloadDone
             /\ UNCHANGED <<seqVars, lockVars, pc, workerVars, ready>>
    BY <1>9, <2>2, <2>5
    DEF TypeOK, IngestTerminalEmit, Fail, PayloadDone, envVars, seqVars, lockVars, workerVars,
        clientVars, gcVars
  <2> QED
    BY <1>9, <2>3, <2>4, <2>5 DEF IngestTerminalEmit
<1>10. CASE DirectEffect
  BY <1>10
  DEF TypeOK, ControlInv, DirectEffect, PayloadDone, Goto, Tasks, PcLabels, envVars, seqVars,
      lockVars, clientVars, gcVars
<1>11. CASE ReplacePendingRoot
  <2> DEFINE f == FamilyOf[cur]
             e == [order |-> taken, kind |-> repl, who |-> cur]
  <2>1. cur \in Roots /\ f \in Families /\ taken \in Order
    BY <1>11, SequencerAssumption DEF ReplacePendingRoot, ControlInv
  <2>2. e \in Entry
    BY <2>1 DEF TypeOK, Entry, Kinds
  <2>3. Insert(entries[f], e) \in SUBSET Entry
    BY <2>1, <2>2, EntryTypes
  <2>4. entries' \in [Families -> SUBSET Entry] /\ pc' \in [Tasks -> PcLabels]
    BY <1>11, <2>1, <2>3 DEF TypeOK, ReplacePendingRoot, Goto, AfterReplace, Tasks, PcLabels
  <2> QED
    BY <1>11, <2>4
    DEF TypeOK, ReplacePendingRoot, envVars, lockVars, workerVars, clientVars, gcVars
<1>12. ASSUME NEW c \in Clients, RequestCheckpoint(c) PROVE TypeOK'
  BY <1>12
  DEF TypeOK, RequestCheckpoint, Goto, Tasks, PcLabels, envVars, seqVars, lockVars,
      workerVars, gcVars
<1>13. ASSUME NEW c \in Clients, IngestCaughtUp(c) PROVE TypeOK'
  BY <1>6, <1>13, SequencerAssumption
  DEF TypeOK, IngestCaughtUp, Goto, Tasks, PcLabels, envVars, seqVars, workerVars,
      clientVars, gcVars
<1>14. ASSUME NEW c \in Clients, IngestWaitTimesOut(c) PROVE TypeOK'
  BY <1>14
  DEF TypeOK, IngestWaitTimesOut, Goto, Tasks, PcLabels, envVars, seqVars, lockVars,
      workerVars, gcVars
<1>15. ASSUME NEW c \in Clients, AppendCheckpoint(c) PROVE TypeOK'
  <2> DEFINE f == RepoOf[c]
             e == [order |-> <<clock', nextOrdinal[f]>>, kind |-> "checkpoint", who |-> c]
  <2>1. f \in Families
    BY SequencerAssumption
  <2>2. clock' \in Nat
    BY <1>15 DEF TypeOK, AppendCheckpoint, ReadClock
  <2>3. e \in Entry
    BY <2>1, <2>2 DEF TypeOK, Entry, Kinds, Order
  <2>4. Insert(entries[f], e) \in SUBSET Entry
    BY <2>1, <2>3, EntryTypes
  <2>5. /\ entries' \in [Families -> SUBSET Entry]
        /\ nextOrdinal' \in [Families -> Nat]
        /\ pc' \in [Tasks -> PcLabels]
    <3>1. entries' = [entries EXCEPT ![f] = Insert(entries[f], e)]
      BY <1>15 DEF AppendCheckpoint
    <3>2. entries' \in [Families -> SUBSET Entry]
      BY <2>1, <2>4, <3>1 DEF TypeOK
    <3>3. nextOrdinal \in [Families -> Nat] /\ nextOrdinal[f] + 1 \in Nat
      BY <2>1 DEF TypeOK
    <3>4. nextOrdinal' \in [Families -> Nat]
      BY <1>15, <2>1, <3>3 DEF AppendCheckpoint
    <3> QED
      BY <1>15, <3>2, <3>4 DEF TypeOK, AppendCheckpoint, Goto, Tasks, PcLabels
  <2> QED
    BY <1>15, <2>2, <2>5
    DEF TypeOK, AppendCheckpoint, lockVars, workerVars, clientVars, gcVars
<1>16. ASSUME NEW c \in Clients, ReceiveReply(c) PROVE TypeOK'
  BY <1>16
  DEF TypeOK, ReceiveReply, Goto, Tasks, PcLabels, envVars, seqVars, lockVars, workerVars,
      clientVars, gcVars
<1>17. ASSUME NEW t \in Tasks, PopReady(t) PROVE TypeOK'
  <2> DEFINE f == TaskFamily(t)
  <2>1. f \in Families
    BY <1>17, TaskFamilyType DEF PopReady
  <2>2. ReadyPrefix(entries[f]) \in SUBSET Entry /\ AfterPop(entries[f]) \in SUBSET Entry
    BY <2>1, EntryTypes
  <2>3. /\ entries' \in [Families -> SUBSET Entry]
        /\ ready' \in [Tasks -> SUBSET Entry]
        /\ pc' \in [Tasks -> PcLabels]
    BY <1>17, <2>1, <2>2 DEF TypeOK, PopReady, Goto, AfterEntry, PcLabels
  <2> QED
    BY <1>17, <2>3
    DEF TypeOK, PopReady, envVars, lockVars, workerVars, clientVars, gcVars
<1>18. ASSUME NEW t \in Tasks, RunEntry(t) PROVE TypeOK'
  <2>1. PICK e \in ready[t], answer \in {"ok", "error"} :
            /\ FinishEntry(t, e, answer)
            /\ effects' = effects \/ effects' = Append(effects, e.who)
            /\ failures' = failures \/ failures' = failures + 1
    BY <1>18 DEF RunEntry, Fail
  <2>3. e.who \in Roots \cup Clients
    BY <2>1 DEF TypeOK, Entry
  <2>4. effects' \in Seq(Roots \cup Clients) /\ failures' \in Nat
    <3>1. effects \in Seq(Roots \cup Clients) /\ failures \in Nat
      BY DEF TypeOK
    <3>2. Append(effects, e.who) \in Seq(Roots \cup Clients)
      BY <2>3, <3>1
    <3> QED
      BY <2>1, <3>1, <3>2
  <2>5. /\ reply' \in [Clients -> {"ok", "error", "timeout", None}]
        /\ ready' \in [Tasks -> SUBSET Entry]
        /\ pc' \in [Tasks -> PcLabels]
    BY <2>1 DEF TypeOK, FinishEntry, Goto, AfterEntry, PcLabels
  <2> QED
    BY <1>18, <2>4, <2>5
    DEF TypeOK, RunEntry, envVars, seqVars, lockVars, workerVars, gcVars
<1>19. ASSUME NEW t \in Tasks, ReleaseLock(t) PROVE TypeOK'
  <2>1. lock[t] \in LockIds /\ lockQueue[lock[t]] # <<>>
    BY <1>19 DEF TypeOK, LockInv, HoldsLock, ReleaseLock
  <2>2. lockQueue' \in [LockIds -> Seq(Tasks)] /\ lock' \in [Tasks -> LockIds \cup {None}]
    BY <1>19, <2>1 DEF TypeOK, ReleaseLock
  <2>3. /\ pc' \in [Tasks -> PcLabels]
        /\ processed' \in Nat
        /\ cur' \in Roots \cup {None}
        /\ taken' \in Order \cup {None}
    <3>1. CASE t = Worker
      BY <1>19, <3>1 DEF TypeOK, ReleaseLock, PayloadDone, Goto, PcLabels
    <3>2. CASE t # Worker
      BY <1>19, <3>2 DEF TypeOK, ReleaseLock, Goto, PcLabels
    <3> QED
      BY <3>1, <3>2
  <2> QED
    BY <1>19, <2>2, <2>3
    DEF TypeOK, ReleaseLock, envVars, seqVars, clientVars, gcVars
<1>20. CASE GcSequencers
  BY <1>20
  DEF TypeOK, GcSequencers, envVars, lockVars, workerVars, clientVars
<1>21. CASE GcLocks
  BY <1>21
  DEF TypeOK, GcLocks, envVars, seqVars, workerVars, clientVars
<1>22. CASE UNCHANGED vars
  BY <1>22
  DEF TypeOK, vars, envVars, seqVars, lockVars, workerVars, clientVars, gcVars
<1> QED
  BY <1>3, <1>4, <1>5, <1>8, <1>9, <1>10, <1>11, <1>12, <1>13, <1>14, <1>15, <1>16, <1>17,
     <1>18, <1>19, <1>20, <1>21, <1>22
  DEF Next, DaemonStep, WorkerStep, ClientStep, DrainStep, GcStep

-----------------------------------------------------------------------------
(* Control and locks.                                                       *)

\* A task joins a queue at the label "queued".
LEMMA JoinKeepsLockInv ==
    ASSUME TypeOK, LockInv, NEW t \in Tasks, NEW f \in Families, pc[t] \notin Locked,
           JoinLock(t, f), Goto(t, "queued")
    PROVE  LockInv'
<1>1. PICK l \in LockIds : /\ lockQueue' = [lockQueue EXCEPT ![l] = Append(lockQueue[l], t)]
                           /\ lock' = [lock EXCEPT ![t] = l]
  BY JoinLockStep
<1>2. lock[t] = None
  BY DEF LockInv
<1>3. \A k \in LockIds : \A i \in 1..Len(lockQueue[k]) : lockQueue[k][i] \in Tasks /\ lockQueue[k][i] # t
  BY <1>2, SequencerAssumption DEF TypeOK, LockInv
<1>4. \A k \in LockIds : lockQueue[k] \in Seq(Tasks)
  BY DEF TypeOK
<1>5. /\ lockQueue'[l] = Append(lockQueue[l], t)
      /\ \A k \in LockIds : k # l => lockQueue'[k] = lockQueue[k]
  BY <1>1 DEF TypeOK
<1>6. lock'[t] = l /\ \A s \in Tasks : s # t => lock'[s] = lock[s]
  BY <1>1 DEF TypeOK
<1>7. pc'[t] = "queued" /\ \A s \in Tasks : s # t => pc'[s] = pc[s]
  BY DEF TypeOK, Goto
<1>8. \A s \in Tasks : lock'[s] # None <=> pc'[s] \in Locked
  BY <1>6, <1>7, SequencerAssumption DEF LockInv, Locked
<1>9. ASSUME NEW s \in Tasks, pc'[s] \in {"pop", "run", "release"}
      PROVE  HoldsLock(s)'
  <2>1. s # t /\ HoldsLock(s)
    BY <1>7, <1>9 DEF LockInv
  <2>2. lock[s] \in LockIds /\ lockQueue[lock[s]] # <<>> /\ Head(lockQueue[lock[s]]) = s
    BY <2>1 DEF TypeOK, HoldsLock
  <2>3. lock[s] = l => Append(lockQueue[l], t) # <<>> /\ Head(Append(lockQueue[l], t)) = s
    BY <1>4, <2>2
  <2> QED
    BY <1>5, <1>6, <2>1, <2>2, <2>3, SequencerAssumption DEF HoldsLock
<1>10. \A k \in LockIds : \A i \in 1..Len(lockQueue'[k]) : lock'[lockQueue'[k][i]] = k
  <2>1. SUFFICES ASSUME NEW k \in LockIds, NEW i \in 1..Len(lockQueue'[k])
                 PROVE  lock'[lockQueue'[k][i]] = k
    OBVIOUS
  <2>2. CASE k # l
    BY <1>3, <1>5, <1>6, <2>2 DEF LockInv
  <2>3. CASE k = l /\ i \in 1..Len(lockQueue[l])
    BY <1>3, <1>4, <1>5, <1>6, <2>3 DEF LockInv
  <2>4. CASE k = l /\ i = Len(lockQueue[l]) + 1
    BY <1>4, <1>5, <1>6, <2>4
  <2> QED
    BY <1>4, <1>5, <2>2, <2>3, <2>4
<1>11. \A k \in LockIds : \A i, j \in 1..Len(lockQueue'[k]) :
           lockQueue'[k][i] = lockQueue'[k][j] => i = j
  <2>1. SUFFICES ASSUME NEW k \in LockIds,
                        NEW i \in 1..Len(lockQueue'[k]), NEW j \in 1..Len(lockQueue'[k]),
                        lockQueue'[k][i] = lockQueue'[k][j]
                 PROVE  i = j
    OBVIOUS
  <2>2. CASE k # l
    BY <1>5, <2>1, <2>2 DEF LockInv
  <2>3. CASE k = l
    <3>1. lockQueue[l] \in Seq(Tasks) /\ Len(lockQueue'[l]) = Len(lockQueue[l]) + 1
      BY <1>4, <1>5
    <3>2. \A m \in 1..Len(lockQueue[l]) : lockQueue'[l][m] = lockQueue[l][m]
      BY <1>4, <1>5
    <3>3. lockQueue'[l][Len(lockQueue[l]) + 1] = t
      BY <1>4, <1>5
    <3>4. CASE i \in 1..Len(lockQueue[l]) /\ j \in 1..Len(lockQueue[l])
      BY <2>1, <2>3, <3>2, <3>4 DEF LockInv
    <3>5. CASE i \in 1..Len(lockQueue[l]) /\ j = Len(lockQueue[l]) + 1
      BY <1>3, <2>1, <2>3, <3>2, <3>3, <3>5
    <3>6. CASE j \in 1..Len(lockQueue[l]) /\ i = Len(lockQueue[l]) + 1
      BY <1>3, <2>1, <2>3, <3>2, <3>3, <3>6
    <3> QED
      BY <2>1, <2>3, <3>1, <3>4, <3>5, <3>6
  <2> QED
    BY <2>2, <2>3
<1> QED
  BY <1>8, <1>9, <1>10, <1>11 DEF LockInv

\* A task that holds no lock and joins none leaves the locks alone.
LEMMA MoveKeepsLockInv ==
    ASSUME TypeOK, LockInv, UNCHANGED <<lockQueue, lock>>, NEW t \in Tasks, NEW label,
           Goto(t, label),
           \/ pc[t] \notin Locked /\ label \notin Locked
           \/ HoldsLock(t) /\ pc[t] \in Locked /\ label \in Locked
    PROVE  LockInv'
<1>1. pc'[t] = label /\ \A s \in Tasks : s # t => pc'[s] = pc[s]
  BY DEF TypeOK, Goto
<1> QED
  BY <1>1 DEF LockInv, HoldsLock, Locked

LEMMA ReleaseKeepsLockInv ==
    ASSUME TypeOK, LockInv, NEW t \in Tasks, ReleaseLock(t)
    PROVE  LockInv'
<1> DEFINE l == lock[t]
           q == lockQueue[l]
<1>1. l \in LockIds /\ q \in Seq(Tasks) /\ q # <<>> /\ Head(q) = t
  BY DEF TypeOK, LockInv, HoldsLock, ReleaseLock
<1>2. /\ lockQueue'[l] = Tail(q)
      /\ \A k \in LockIds : k # l => lockQueue'[k] = lockQueue[k]
  BY <1>1 DEF TypeOK, ReleaseLock
<1>3. lock'[t] = None /\ \A s \in Tasks : s # t => lock'[s] = lock[s]
  BY DEF TypeOK, ReleaseLock
<1>4. pc'[t] \in {"idle", "await", "done"} /\ \A s \in Tasks : s # t => pc'[s] = pc[s]
  BY DEF TypeOK, ReleaseLock, Goto
<1>5. \A i \in 1..Len(Tail(q)) : Tail(q)[i] = q[i + 1] /\ i + 1 \in 1..Len(q)
  BY <1>1
<1>6. q[1] = t /\ Len(q) \in Nat /\ Len(q) >= 1
  BY <1>1
<1>7. \A k \in LockIds : \A i \in 1..Len(lockQueue[k]) : lockQueue[k][i] \in Tasks
  BY DEF TypeOK
<1>8. \A s \in Tasks : lock'[s] # None <=> pc'[s] \in Locked
  BY <1>3, <1>4 DEF LockInv, Locked
<1>9. ASSUME NEW s \in Tasks, pc'[s] \in {"pop", "run", "release"}
      PROVE  HoldsLock(s)'
  <2>1. s # t /\ HoldsLock(s)
    BY <1>4, <1>9 DEF LockInv
  <2>2. lock[s] \in LockIds /\ lock[s] # l
    BY <1>1, <2>1 DEF TypeOK, HoldsLock
  <2> QED
    BY <1>2, <1>3, <2>1, <2>2 DEF HoldsLock
<1>10. \A k \in LockIds : \A i \in 1..Len(lockQueue'[k]) : lock'[lockQueue'[k][i]] = k
  <2>1. SUFFICES ASSUME NEW k \in LockIds, NEW i \in 1..Len(lockQueue'[k])
                 PROVE  lock'[lockQueue'[k][i]] = k
    OBVIOUS
  <2>2. CASE k # l
    BY <1>2, <1>3, <1>7, <2>2 DEF LockInv
  <2>3. CASE k = l
    <3> HIDE DEF q
    <3>1. lockQueue'[k][i] = q[i + 1] /\ i + 1 \in 1..Len(q)
      BY <1>2, <1>5, <2>3
    <3> USE DEF q
    <3>2. q[i + 1] # t
      BY <1>1, <1>6, <3>1 DEF LockInv
    <3> QED
      BY <1>1, <1>3, <1>7, <2>3, <3>1, <3>2 DEF LockInv
  <2> QED
    BY <2>2, <2>3
<1>11. \A k \in LockIds : \A i, j \in 1..Len(lockQueue'[k]) :
           lockQueue'[k][i] = lockQueue'[k][j] => i = j
  <2>1. SUFFICES ASSUME NEW k \in LockIds,
                        NEW i \in 1..Len(lockQueue'[k]), NEW j \in 1..Len(lockQueue'[k]),
                        lockQueue'[k][i] = lockQueue'[k][j]
                 PROVE  i = j
    OBVIOUS
  <2>2. CASE k # l
    BY <1>2, <2>1, <2>2 DEF LockInv
  <2>3. CASE k = l
    <3> HIDE DEF q
    <3>1. /\ i + 1 \in 1..Len(q) /\ lockQueue'[k][i] = q[i + 1]
          /\ j + 1 \in 1..Len(q) /\ lockQueue'[k][j] = q[j + 1]
      BY <1>2, <1>5, <2>3
    <3> USE DEF q
    <3>2. i + 1 = j + 1
      BY <1>1, <2>1, <3>1, ZenonT(60) DEF LockInv
    <3> QED
      BY <3>2
  <2> QED
    BY <2>2, <2>3
<1> QED
  BY <1>8, <1>9, <1>10, <1>11 DEF LockInv

\* The worker takes a slot and waits for the lock.
LEMMA TakeSlotControl ==
    ASSUME Inv1, NEW r \in Roots, NEW kind, TakeSlot(r, kind), pc[Worker] = "idle"
    PROVE  ControlInv' /\ LockInv'
<1>1. Worker \in Tasks /\ FamilyOf[r] \in Families
  BY SequencerAssumption DEF Tasks
<1>2. LockInv'
  BY <1>1, JoinKeepsLockInv DEF TakeSlot, Inv1, Locked
<1>3. taken' \in Order
  BY DEF TakeSlot, Inv1, TypeOK
<1>4. pc'[Worker] = "queued" /\ \A c \in Clients : pc'[c] = pc[c]
  BY <1>1, SequencerAssumption DEF TakeSlot, Goto, Inv1, TypeOK, Tasks
<1>5. ControlInv'
  BY <1>3, <1>4 DEF TakeSlot, Inv1, ControlInv, Locked
<1> QED
  BY <1>2, <1>5

LEMMA ControlStep ==
    ASSUME Inv1, [Next]_vars
    PROVE  ControlInv' /\ LockInv'
<1> USE DEF Inv1
<1>0. Worker \in Tasks /\ \A c \in Clients : c \in Tasks /\ c # Worker
  BY SequencerAssumption DEF Tasks
<1>1. ASSUME UNCHANGED <<lockQueue, lock, pc, cur, taken>>
      PROVE  ControlInv' /\ LockInv'
  BY <1>1 DEF ControlInv, LockInv, HoldsLock
<1>2. CASE \/ GitStep \/ IngestStart \/ IngestTerminalError \/ GcStep \/ UNCHANGED vars
  BY <1>1, <1>2
  DEF GitStep, GitBegins, EmitStart, EmitExit, EmitAtexit, ConnectionLost, Emit, IngestStart,
      IngestTerminalError, GcStep, GcSequencers, GcLocks, vars, lockVars, workerVars, clientVars
<1>3. CASE IngestTerminalNone
  <2>1. NextPayload.root \in Roots
    BY <1>3, NextPayloadType DEF IngestTerminalNone
  <2>2. CASE TakeSlot(NextPayload.root, "canceled")
    BY <1>3, <2>1, <2>2, TakeSlotControl DEF IngestTerminalNone, WorkerTakes, clientVars
  <2>3. CASE UNCHANGED <<seqVars, lockVars, pc, workerVars, ready>>
    BY <1>1, <1>3, <2>3 DEF IngestTerminalNone, lockVars, workerVars, clientVars
  <2> QED
    BY <1>3, <2>2, <2>3 DEF IngestTerminalNone
<1>4. CASE IngestTerminalEmit
  <2>1. NextPayload.root \in Roots /\ pc[Worker] = "idle"
    BY <1>4, NextPayloadType DEF IngestTerminalEmit, WorkerTakes
  <2>2. CASE TakeSlot(NextPayload.root, "ready")
    BY <1>4, <2>1, <2>2, TakeSlotControl DEF IngestTerminalEmit, clientVars
  <2>3. CASE /\ cur' = NextPayload.root
             /\ Goto(Worker, "direct")
             /\ UNCHANGED <<seqVars, lockVars, processed, taken, repl, ready, failures>>
    <3>1. LockInv'
      BY <1>0, <2>1, <2>3, MoveKeepsLockInv DEF lockVars, Locked
    <3>2. ControlInv'
      BY <1>0, <1>4, <2>1, <2>3
      DEF IngestTerminalEmit, ControlInv, TypeOK, Goto, Locked, clientVars
    <3> QED
      BY <3>1, <3>2
  <2>4. CASE UNCHANGED <<seqVars, lockVars, pc, workerVars, ready>>
    BY <1>1, <1>4, <2>4 DEF IngestTerminalEmit, lockVars, workerVars, clientVars
  <2> QED
    BY <1>4, <2>2, <2>3, <2>4 DEF IngestTerminalEmit
<1>5. CASE DirectEffect
  <2>1. LockInv'
    BY <1>0, <1>5, MoveKeepsLockInv DEF DirectEffect, lockVars, Locked
  <2>2. ControlInv'
    BY <1>0, <1>5 DEF DirectEffect, ControlInv, TypeOK, Goto, Locked, clientVars
  <2> QED
    BY <2>1, <2>2
<1>6. CASE ReplacePendingRoot
  <2>1. PICK label \in {"pop", "release"} : Goto(Worker, label)
    BY <1>6 DEF ReplacePendingRoot, AfterReplace
  <2>2. LockInv'
    BY <1>0, <1>6, <2>1, MoveKeepsLockInv DEF ReplacePendingRoot, lockVars, Locked
  <2>3. ControlInv'
    BY <1>0, <1>6, <2>1
    DEF ReplacePendingRoot, ControlInv, TypeOK, Goto, Locked, workerVars, clientVars
  <2> QED
    BY <2>2, <2>3
<1>7. ASSUME NEW c \in Clients, RequestCheckpoint(c) PROVE ControlInv' /\ LockInv'
  <2>1. LockInv'
    BY <1>0, <1>7, MoveKeepsLockInv DEF RequestCheckpoint, lockVars, Locked
  <2>2. ControlInv'
    BY <1>0, <1>7 DEF RequestCheckpoint, ControlInv, TypeOK, Goto, workerVars
  <2> QED
    BY <2>1, <2>2
<1>8. ASSUME NEW c \in Clients, IngestCaughtUp(c) PROVE ControlInv' /\ LockInv'
  <2>1. RepoOf[c] \in Families
    BY SequencerAssumption
  <2>2. LockInv'
    BY <1>0, <1>8, <2>1, JoinKeepsLockInv DEF IngestCaughtUp, Locked
  <2>3. ControlInv'
    BY <1>0, <1>8 DEF IngestCaughtUp, ControlInv, TypeOK, Goto, workerVars, clientVars
  <2> QED
    BY <2>2, <2>3
<1>9. ASSUME NEW c \in Clients, IngestWaitTimesOut(c) \/ ReceiveReply(c)
      PROVE  ControlInv' /\ LockInv'
  <2>1. LockInv'
    BY <1>0, <1>9, MoveKeepsLockInv DEF IngestWaitTimesOut, ReceiveReply, lockVars, Locked
  <2>2. ControlInv'
    BY <1>0, <1>9
    DEF IngestWaitTimesOut, ReceiveReply, ControlInv, TypeOK, Goto, workerVars, clientVars
  <2> QED
    BY <2>1, <2>2
<1>10. ASSUME NEW c \in Clients, AppendCheckpoint(c) PROVE ControlInv' /\ LockInv'
  <2>1. LockInv'
    BY <1>0, <1>10, MoveKeepsLockInv DEF AppendCheckpoint, lockVars, Locked
  <2>2. ControlInv'
    BY <1>0, <1>10 DEF AppendCheckpoint, ControlInv, TypeOK, Goto, workerVars, clientVars
  <2> QED
    BY <2>1, <2>2
<1>11. ASSUME NEW t \in Tasks, PopReady(t) \/ RunEntry(t) PROVE ControlInv' /\ LockInv'
  <2>1. PICK label \in {"run", "release"} : Goto(t, label)
    BY <1>11 DEF PopReady, RunEntry, FinishEntry, AfterEntry
  <2>2. HoldsLock(t) /\ pc[t] \in Locked /\ pc[t] # "idle"
    BY <1>11 DEF PopReady, RunEntry, LockInv, Locked
  <2>3. UNCHANGED <<lockVars, workerVars, request>>
    BY <1>11 DEF PopReady, RunEntry, clientVars
  <2>4. LockInv'
    BY <2>1, <2>2, <2>3, MoveKeepsLockInv DEF lockVars, Locked
  <2>5. ControlInv'
    BY <1>0, <2>1, <2>2, <2>3 DEF ControlInv, TypeOK, Goto, Locked, Tasks, workerVars
  <2> QED
    BY <2>4, <2>5
<1>12. ASSUME NEW t \in Tasks, ReleaseLock(t) PROVE ControlInv' /\ LockInv'
  <2>1. LockInv'
    BY <1>12, ReleaseKeepsLockInv
  <2>2. CASE t = Worker
    BY <1>0, <1>12, <2>1, <2>2 DEF ReleaseLock, ControlInv, TypeOK, Goto, clientVars
  <2>3. CASE t # Worker
    BY <1>0, <1>12, <2>1, <2>3 DEF ReleaseLock, ControlInv, TypeOK, Goto, Tasks, clientVars
  <2> QED
    BY <2>2, <2>3
<1> QED
  BY <1>2, <1>3, <1>4, <1>5, <1>6, <1>7, <1>8, <1>9, <1>10, <1>11, <1>12
  DEF Next, DaemonStep, WorkerStep, ClientStep, DrainStep

LEMMA Inv1Holds == Spec => []Inv1
<1>1. Inv1 /\ [Next]_vars => Inv1'
  BY TypeStep, ControlStep DEF Inv1
<1> QED
  BY <1>1, InitInv1, PTL DEF Spec

(* The state of the sequencer is well typed in every reachable state,       *)
(* garbage collections included; no step of the code uses a slot, a lock or *)
(* a root it does not have.                                                 *)
THEOREM TypeCorrect == Spec => []TypeOK
<1>1. Inv1 => TypeOK
  BY DEF Inv1
<1> QED
  BY <1>1, Inv1Holds, PTL

-----------------------------------------------------------------------------
(* Slots and places.                                                        *)

\* A new ordinal: the insertion overwrites nothing.
LEMMA InsertFresh ==
    ASSUME TypeOK, OrdinalInv, NEW f \in Families, NEW e \in Entry,
           e.order[2] = nextOrdinal[f]
    PROVE  Insert(entries[f], e) = entries[f] \cup {e}
<1>1. \A x \in entries[f] : x.order # e.order
  <2>1. SUFFICES ASSUME NEW x \in entries[f], x.order = e.order PROVE FALSE
    OBVIOUS
  <2>2. x.order[2] < nextOrdinal[f] /\ nextOrdinal[f] \in Nat
    BY DEF OrdinalInv, TypeOK
  <2> QED
    BY <2>1, <2>2
<1> QED
  BY <1>1 DEF Insert

\* What Inv2 needs of a step that adds an entry with a new ordinal.
LEMMA AppendKeepsOrdinals ==
    ASSUME TypeOK, OrdinalInv, NEW f \in Families, NEW e \in Entry,
           e.order[2] = nextOrdinal[f],
           e.kind = "pending" => e.who \in Roots /\ FamilyOf[e.who] = f,
           entries' = [entries EXCEPT ![f] = Insert(entries[f], e)],
           nextOrdinal' = [nextOrdinal EXCEPT ![f] = nextOrdinal[f] + 1]
    PROVE  /\ entries'[f] = entries[f] \cup {e}
           /\ \A g \in Families : g # f => entries'[g] = entries[g]
           /\ OrdinalInv'
<1>1. entries'[f] = entries[f] \cup {e}
  BY InsertFresh DEF TypeOK
<1>2. \A g \in Families : g # f => entries'[g] = entries[g] /\ nextOrdinal'[g] = nextOrdinal[g]
  BY DEF TypeOK
<1>3. nextOrdinal'[f] = nextOrdinal[f] + 1 /\ nextOrdinal[f] \in Nat
  BY DEF TypeOK
<1>4. \A x \in entries[f] : x.order[2] \in Nat /\ x.order[2] < nextOrdinal[f]
  BY DEF TypeOK, OrdinalInv, Entry, Order
<1>5. \A x \in entries'[f] : x.order[2] < nextOrdinal'[f]
  BY <1>1, <1>3, <1>4
<1>6. \A x, y \in entries'[f] : x.order[2] = y.order[2] => x = y
  BY <1>1, <1>3, <1>4 DEF OrdinalInv
<1>7. \A x \in entries'[f] : x.kind = "pending" => x.who \in Roots /\ FamilyOf[x.who] = f
  BY <1>1 DEF OrdinalInv
<1>8. OrdinalInv'
  BY <1>2, <1>5, <1>6, <1>7 DEF OrdinalInv
<1> QED
  BY <1>1, <1>2, <1>8

LEMMA InitInv2 == Init => Inv2
BY SequencerAssumption
   DEF Init, Inv2, OrdinalInv, TakenInv, SlotsMatchPending, Tasks

\* A step that leaves the sequencer alone and does not take a slot.
LEMMA IdleKeepsInv2 ==
    ASSUME Inv2, UNCHANGED seqVars,
           \/ pc[Worker] # "queued" /\ pc'[Worker] # "queued"
           \/ UNCHANGED <<cur, taken>> /\ pc'[Worker] = pc[Worker]
    PROVE  Inv2'
BY DEF Inv2, OrdinalInv, TakenInv, SlotsMatchPending, Replacing, seqVars

LEMMA TakeSlotKeepsInv2 ==
    ASSUME Inv1, Inv2, NEW r \in Roots, NEW kind, TakeSlot(r, kind), pc[Worker] = "idle"
    PROVE  Inv2'
<1>1. OrdinalInv'
  BY DEF Inv2, OrdinalInv, TakeSlot
<1>2. slots'[r] = None /\ \A q \in Roots : q # r => slots'[q] = slots[q]
  BY DEF TakeSlot, Inv1, TypeOK
<1>3. cur' = r /\ taken' = slots[r] /\ slots[r] # None /\ entries' = entries
  BY DEF TakeSlot
<1>4. pc'[Worker] = "queued"
  BY DEF TakeSlot, Goto, Inv1, TypeOK, Tasks
<1>5. SlotsMatchPending'
  BY <1>2, <1>3, <1>4 DEF Inv2, SlotsMatchPending, Replacing
<1> QED
  BY <1>1, <1>2, <1>3, <1>5 DEF Inv2, TakenInv

LEMMA Inv2Step ==
    ASSUME Inv1, Inv2, [Next]_vars
    PROVE  Inv2'
<1> USE DEF Inv1
<1>0. Worker \in Tasks /\ \A c \in Clients : c \in Tasks /\ c # Worker
  BY SequencerAssumption DEF Tasks
<1>1. CASE GitStep \/ IngestTerminalError \/ GcLocks \/ UNCHANGED vars
  <2>1. UNCHANGED <<seqVars, pc, cur, taken>>
    BY <1>1
    DEF GitStep, GitBegins, EmitStart, EmitExit, EmitAtexit, ConnectionLost, Emit,
        IngestTerminalError, GcLocks, vars, workerVars
  <2> QED
    BY <2>1, IdleKeepsInv2
<1>2. CASE IngestStart
  <2> DEFINE r == NextPayload.root
             f == FamilyOf[r]
             o == <<startedAt[r], nextOrdinal[f]>>
  <2>1. r \in Roots /\ f \in Families
    BY <1>2, NextPayloadType DEF IngestStart
  <2>2. pc[Worker] = "idle" /\ UNCHANGED <<pc, cur, taken>>
    BY <1>2 DEF IngestStart, WorkerTakes, workerVars
  <2>3. CASE UNCHANGED seqVars
    BY <2>2, <2>3, IdleKeepsInv2
  <2>4. CASE /\ slots[r] = None
             /\ entries' = [entries EXCEPT ![f] = Insert(entries[f], Pending(o, r))]
             /\ nextOrdinal' = [nextOrdinal EXCEPT ![f] = nextOrdinal[f] + 1]
             /\ slots' = [slots EXCEPT ![r] = o]
    <3>1. o \in Order /\ Pending(o, r) \in Entry
      BY <2>1, EntryTypes DEF TypeOK, Order
    <3>2. Pending(o, r).order[2] = nextOrdinal[f] /\ Pending(o, r).who = r
      BY DEF Pending
    <3>3. /\ entries'[f] = entries[f] \cup {Pending(o, r)}
          /\ \A g \in Families : g # f => entries'[g] = entries[g]
          /\ OrdinalInv'
      BY <2>1, <2>4, <3>1, <3>2, AppendKeepsOrdinals DEF Inv2
    <3>4. slots'[r] = o /\ \A q \in Roots : q # r => slots'[q] = slots[q]
      BY <2>1, <2>4 DEF TypeOK
    <3>5. \A q \in Roots : slots'[q] # None => Pending(slots'[q], q) \in entries'[FamilyOf[q]]
      BY <3>3, <3>4, SequencerAssumption DEF Inv2, SlotsMatchPending
    <3>6. \A g \in Families : \A e \in entries'[g] : e.kind = "pending" =>
              e.who \in Roots /\ slots'[e.who] = e.order
      <4>1. SUFFICES ASSUME NEW g \in Families, NEW e \in entries'[g], e.kind = "pending"
                     PROVE  e.who \in Roots /\ slots'[e.who] = e.order
        OBVIOUS
      <4>2. CASE e \in entries[g]
        <5>1. e.who \in Roots /\ slots[e.who] = e.order /\ e.order \in Order
          BY <2>2, <4>1, <4>2 DEF Inv2, SlotsMatchPending, Replacing, TypeOK, Entry
        <5>2. e.who # r
          BY <2>4, <5>1, SequencerAssumption DEF Order
        <5> QED
          BY <3>4, <5>1, <5>2
      <4>3. CASE e = Pending(o, r)
        BY <2>1, <3>4, <4>3 DEF Pending
      <4> QED
        BY <3>3, <4>2, <4>3
    <3> QED
      BY <2>2, <3>3, <3>5, <3>6 DEF Inv2, TakenInv, SlotsMatchPending
  <2> QED
    BY <1>2, <2>3, <2>4 DEF IngestStart, AppendPendingRoot
<1>3. CASE IngestTerminalNone \/ IngestTerminalEmit
  <2>1. NextPayload.root \in Roots /\ pc[Worker] = "idle"
    BY <1>3, NextPayloadType DEF IngestTerminalNone, IngestTerminalEmit, WorkerTakes
  <2>2. CASE \E kind \in {"ready", "canceled"} : TakeSlot(NextPayload.root, kind)
    BY <2>1, <2>2, TakeSlotKeepsInv2
  <2>3. CASE UNCHANGED seqVars /\ (UNCHANGED pc \/ Goto(Worker, "direct"))
    BY <1>0, <2>1, <2>3, IdleKeepsInv2 DEF Goto, TypeOK
  <2> QED
    BY <1>3, <2>2, <2>3 DEF IngestTerminalNone, IngestTerminalEmit
<1>4. CASE DirectEffect
  BY <1>0, <1>4, IdleKeepsInv2 DEF DirectEffect, Goto, TypeOK
<1>5. CASE ReplacePendingRoot
  <2> DEFINE f == FamilyOf[cur]
             old == Pending(taken, cur)
             new == [order |-> taken, kind |-> repl, who |-> cur]
  <2>1. cur \in Roots /\ f \in Families /\ taken \in Order /\ slots[cur] = None
    BY <1>5, SequencerAssumption DEF ReplacePendingRoot, ControlInv, Inv2, TakenInv
  <2>2. old \in entries[f] /\ old.order = taken /\ old.kind = "pending" /\ old.who = cur
    BY <1>5 DEF ReplacePendingRoot, Inv2, SlotsMatchPending, Pending
  <2>3. entries' = [entries EXCEPT ![f] = Insert(entries[f], new)]
    BY <1>5, <2>2 DEF ReplacePendingRoot
  <2>4. \A e \in entries[f] : e.order[2] = taken[2] => e = old
    BY <2>1, <2>2 DEF Inv2, OrdinalInv
  <2>5. Insert(entries[f], new) = (entries[f] \ {old}) \cup {new}
    BY <2>2, <2>4 DEF Insert
  <2>6. /\ entries'[f] = (entries[f] \ {old}) \cup {new}
        /\ \A g \in Families : g # f => entries'[g] = entries[g]
    BY <2>1, <2>3, <2>5 DEF TypeOK
  <2>7. pc'[Worker] \in {"pop", "release"} /\ UNCHANGED <<nextOrdinal, slots, cur, taken>>
    BY <1>0, <1>5 DEF ReplacePendingRoot, AfterReplace, Goto, TypeOK, workerVars
  <2>8. new.order = taken /\ new.kind # "pending"
    BY DEF TypeOK
  <2>9. OrdinalInv'
    <3>1. \A e \in entries'[f] : e.order[2] < nextOrdinal[f]
      BY <2>1, <2>2, <2>6, <2>8 DEF Inv2, OrdinalInv
    <3>2. \A d, e \in entries'[f] : d.order[2] = e.order[2] => d = e
      BY <2>1, <2>4, <2>6, <2>8 DEF Inv2, OrdinalInv
    <3>3. \A e \in entries'[f] : e.kind = "pending" => e.who \in Roots /\ FamilyOf[e.who] = f
      BY <2>1, <2>6, <2>8 DEF Inv2, OrdinalInv
    <3> QED
      BY <2>6, <2>7, <3>1, <3>2, <3>3 DEF Inv2, OrdinalInv
  <2>10. ASSUME NEW r \in Roots, slots[r] # None
         PROVE  Pending(slots[r], r) \in entries'[FamilyOf[r]]
    <3>1. Pending(slots[r], r) \in entries[FamilyOf[r]] /\ r # cur
      BY <2>1, <2>10 DEF Inv2, SlotsMatchPending
    <3>2. Pending(slots[r], r) # old
      BY <3>1 DEF Pending
    <3> QED
      BY <2>6, <3>1, <3>2, SequencerAssumption
  <2>11. ASSUME NEW g \in Families, NEW e \in entries'[g], e.kind = "pending"
         PROVE  e.who \in Roots /\ slots[e.who] = e.order
    <3>1. e \in entries[g] /\ (g = f => e # old)
      BY <2>6, <2>8, <2>11
    <3>2. ~(e.who = cur /\ taken = e.order)
      <4>1. SUFFICES ASSUME e.who = cur, taken = e.order PROVE FALSE
        OBVIOUS
      <4>2. FamilyOf[e.who] = g
        BY <2>11, <3>1 DEF Inv2, OrdinalInv
      <4> QED
        BY <2>4, <3>1, <4>1, <4>2
    <3> QED
      BY <2>11, <3>1, <3>2 DEF Inv2, SlotsMatchPending, Replacing
  <2> QED
    BY <2>7, <2>9, <2>10, <2>11 DEF Inv2, TakenInv, SlotsMatchPending
<1>6. ASSUME NEW c \in Clients,
             \/ RequestCheckpoint(c) \/ IngestCaughtUp(c) \/ IngestWaitTimesOut(c)
             \/ ReceiveReply(c)
      PROVE  Inv2'
  BY <1>0, <1>6, IdleKeepsInv2
  DEF RequestCheckpoint, IngestCaughtUp, IngestWaitTimesOut, ReceiveReply, Goto, TypeOK,
      workerVars
<1>7. ASSUME NEW c \in Clients, AppendCheckpoint(c) PROVE Inv2'
  <2> DEFINE f == RepoOf[c]
             e == [order |-> <<clock', nextOrdinal[f]>>, kind |-> "checkpoint", who |-> c]
  <2>1. f \in Families /\ clock' \in Nat
    BY <1>7, SequencerAssumption DEF TypeOK, AppendCheckpoint, ReadClock
  <2>2. e \in Entry /\ e.order[2] = nextOrdinal[f] /\ e.kind # "pending"
    BY <2>1 DEF TypeOK, Entry, Kinds, Order
  <2>3. /\ entries' = [entries EXCEPT ![f] = Insert(entries[f], e)]
        /\ nextOrdinal' = [nextOrdinal EXCEPT ![f] = nextOrdinal[f] + 1]
    BY <1>7 DEF AppendCheckpoint
  <2>4. /\ entries'[f] = entries[f] \cup {e}
        /\ \A g \in Families : g # f => entries'[g] = entries[g]
        /\ OrdinalInv'
    BY <2>1, <2>2, <2>3, AppendKeepsOrdinals DEF Inv2
  <2>5. pc'[Worker] = pc[Worker] /\ UNCHANGED <<slots, cur, taken>>
    BY <1>0, <1>7 DEF AppendCheckpoint, Goto, TypeOK, workerVars
  <2>6. \A g \in Families : entries[g] \subseteq entries'[g]
    BY <2>4
  <2>7. \A g \in Families : \A x \in entries'[g] : x.kind = "pending" => x \in entries[g]
    BY <2>2, <2>4
  <2>8. SlotsMatchPending'
    <3>1. pc[Worker] = "queued" => FamilyOf[cur] \in Families
      BY SequencerAssumption DEF ControlInv
    <3> QED
      BY <2>5, <2>6, <2>7, <3>1, SequencerAssumption DEF Inv2, SlotsMatchPending, Replacing
  <2> QED
    BY <2>4, <2>5, <2>8 DEF Inv2, TakenInv
<1>8. ASSUME NEW t \in Tasks, PopReady(t) PROVE Inv2'
  <2> DEFINE f == TaskFamily(t)
  <2>1. f \in Families
    BY <1>8, TaskFamilyType DEF PopReady
  <2>2. /\ entries'[f] = AfterPop(entries[f])
        /\ \A g \in Families : g # f => entries'[g] = entries[g]
    BY <1>8, <2>1 DEF PopReady, TypeOK
  <2>3. AfterPop(entries[f]) \subseteq entries[f]
    BY DEF AfterPop
  <2>4. \A e \in entries[f] : e.kind = "pending" => e \in AfterPop(entries[f])
    BY DEF AfterPop, ReadyPrefix
  <2>5. \A g \in Families : /\ entries'[g] \subseteq entries[g]
                            /\ \A e \in entries[g] : e.kind = "pending" => e \in entries'[g]
    BY <2>2, <2>3, <2>4
  <2>6. UNCHANGED <<nextOrdinal, slots, cur, taken>>
    BY <1>8 DEF PopReady, workerVars
  <2>7. pc'[Worker] = "queued" <=> pc[Worker] = "queued"
    BY <1>0, <1>8 DEF PopReady, Goto, AfterEntry, TypeOK
  <2>8. OrdinalInv'
    BY <2>5, <2>6 DEF Inv2, OrdinalInv
  <2>9. SlotsMatchPending'
    <3>1. pc[Worker] = "queued" => FamilyOf[cur] \in Families
      BY SequencerAssumption DEF ControlInv
    <3>2. \A o, r : Pending(o, r).kind = "pending"
      BY DEF Pending
    <3> QED
      BY <2>5, <2>6, <2>7, <3>1, <3>2, SequencerAssumption
      DEF Inv2, SlotsMatchPending, Replacing
  <2> QED
    BY <2>6, <2>7, <2>8, <2>9 DEF Inv2, TakenInv
<1>9. ASSUME NEW t \in Tasks, RunEntry(t) PROVE Inv2'
  <2>1. PICK label \in {"run", "release"} : Goto(t, label)
    BY <1>9 DEF RunEntry, FinishEntry, AfterEntry
  <2> QED
    BY <1>0, <1>9, <2>1, IdleKeepsInv2 DEF RunEntry, Goto, TypeOK, workerVars
<1>10. ASSUME NEW t \in Tasks, ReleaseLock(t) PROVE Inv2'
  <2>1. CASE t = Worker
    BY <1>0, <1>10, <2>1, IdleKeepsInv2 DEF ReleaseLock, Goto, TypeOK
  <2>2. CASE t # Worker
    BY <1>0, <1>10, <2>2, IdleKeepsInv2 DEF ReleaseLock, Goto, TypeOK
  <2> QED
    BY <2>1, <2>2
<1>11. CASE GcSequencers
  <2>1. entries' = entries
    BY <1>11 DEF GcSequencers, NoEntries, TypeOK
  <2>2. \A f \in Families : nextOrdinal'[f] = nextOrdinal[f] \/ entries[f] = {}
    BY <1>11 DEF GcSequencers, NoEntries
  <2>3. OrdinalInv'
    BY <2>1, <2>2 DEF Inv2, OrdinalInv
  <2>4. UNCHANGED <<slots, pc, cur, taken>>
    BY <1>11 DEF GcSequencers, workerVars
  <2> QED
    BY <2>1, <2>3, <2>4 DEF Inv2, TakenInv, SlotsMatchPending, Replacing
<1> QED
  BY <1>1, <1>2, <1>3, <1>4, <1>5, <1>6, <1>7, <1>8, <1>9, <1>10, <1>11
  DEF Next, DaemonStep, WorkerStep, ClientStep, DrainStep, GcStep

(* Every slot, and the slot the worker has taken, leads to a PendingRoot    *)
(* entry of its family, and every PendingRoot entry is reached by exactly   *)
(* one of them, whatever drains and garbage collections interleave: the two *)
(* error returns of replace_pending_root_entry are dead code, and a place   *)
(* is lost only with its command.                                           *)
THEOREM PlacesNeverLost == Spec => []SlotsMatchPending
<1>1. Inv1 /\ Inv2 /\ [Next]_vars => Inv2'
  BY Inv2Step
<1>2. Inv2 => SlotsMatchPending
  BY DEF Inv2
<1> QED
  BY <1>1, <1>2, InitInv2, Inv1Holds, PTL DEF Spec

-----------------------------------------------------------------------------
(* Exclusion of drains between garbage collections.                         *)

LEMMA NoGcInv1 == NoGcSpec => []Inv1
<1>1. Inv1 /\ [NoGcNext]_vars => Inv1'
  BY TypeStep, ControlStep DEF Inv1, Next, NoGcNext
<1> QED
  BY <1>1, InitInv1, PTL DEF NoGcSpec

\* The joining task gets the lock of its family, and nobody else's changes.
LEMMA JoinKeepsOneLock ==
    ASSUME TypeOK, OneLock, NEW t \in Tasks, NEW f \in Families, JoinLock(t, f),
           TaskFamily(t)' = f,
           \A s \in Tasks : s # t => TaskFamily(s)' = TaskFamily(s),
           \A s \in Tasks : lock[s] # None => TaskFamily(s) \in Families
    PROVE  OneLock'
<1>1. PICK l \in LockIds : /\ lockOf' = [lockOf EXCEPT ![f] = l]
                           /\ lock' = [lock EXCEPT ![t] = l]
                           /\ lockOf[f] \in {l, None}
  BY JoinLockStep
<1>2. lockOf'[f] = l /\ \A g \in Families : g # f => lockOf'[g] = lockOf[g]
  BY <1>1 DEF TypeOK
<1>3. lock'[t] = l /\ \A s \in Tasks : s # t => lock'[s] = lock[s]
  BY <1>1 DEF TypeOK
<1>4. ASSUME NEW s \in Tasks, s # t, lock[s] # None
      PROVE  lock[s] = lockOf'[TaskFamily(s)]
  BY <1>1, <1>2, <1>4 DEF OneLock
<1> QED
  BY <1>2, <1>3, <1>4 DEF OneLock

LEMMA OneLockStep ==
    ASSUME Inv1, OneLock, [NoGcNext]_vars
    PROVE  OneLock'
<1> USE DEF Inv1
<1>0. Worker \in Tasks /\ \A c \in Clients : c \in Tasks /\ c # Worker
  BY SequencerAssumption DEF Tasks
<1>1. \A s \in Tasks : lock[s] # None => TaskFamily(s) \in Families
  BY TaskFamilyType DEF LockInv, Locked
<1>2. ASSUME UNCHANGED <<lockOf, lock, cur>> PROVE OneLock'
  BY <1>2 DEF OneLock, TaskFamily
<1>3. ASSUME NEW r \in Roots, NEW kind, TakeSlot(r, kind) PROVE OneLock'
  <2>1. TaskFamily(Worker)' = FamilyOf[r] /\ FamilyOf[r] \in Families
    BY <1>3, SequencerAssumption DEF TakeSlot, TaskFamily
  <2>2. \A s \in Tasks : s # Worker => TaskFamily(s)' = TaskFamily(s)
    BY DEF TaskFamily
  <2> QED
    BY <1>0, <1>1, <1>3, <2>1, <2>2, JoinKeepsOneLock DEF TakeSlot
<1>4. ASSUME UNCHANGED <<lockOf, lock>>, lock[Worker] = None PROVE OneLock'
  BY <1>4 DEF OneLock, TaskFamily
<1>5. CASE GitStep \/ IngestStart \/ IngestTerminalError \/ ReplacePendingRoot \/ UNCHANGED vars
  BY <1>2, <1>5
  DEF GitStep, GitBegins, EmitStart, EmitExit, EmitAtexit, ConnectionLost, Emit, IngestStart,
      IngestTerminalError, ReplacePendingRoot, vars, lockVars, workerVars
<1>6. CASE IngestTerminalNone \/ IngestTerminalEmit
  <2>1. NextPayload.root \in Roots /\ pc[Worker] = "idle"
    BY <1>6, NextPayloadType DEF IngestTerminalNone, IngestTerminalEmit, WorkerTakes
  <2>2. lock[Worker] = None
    BY <1>0, <2>1 DEF LockInv, Locked
  <2> QED
    BY <1>3, <1>4, <1>6, <2>1, <2>2 DEF IngestTerminalNone, IngestTerminalEmit, lockVars
<1>7. CASE DirectEffect
  BY <1>0, <1>4, <1>7 DEF DirectEffect, LockInv, Locked, lockVars
<1>8. ASSUME NEW c \in Clients, IngestCaughtUp(c) PROVE OneLock'
  <2>1. TaskFamily(c)' = RepoOf[c] /\ RepoOf[c] \in Families
    BY <1>0, SequencerAssumption DEF TaskFamily
  <2>2. \A s \in Tasks : s # c => TaskFamily(s)' = TaskFamily(s)
    BY <1>8 DEF IngestCaughtUp, TaskFamily, workerVars
  <2> QED
    BY <1>0, <1>1, <1>8, <2>1, <2>2, JoinKeepsOneLock DEF IngestCaughtUp
<1>9. ASSUME NEW c \in Clients,
             \/ RequestCheckpoint(c) \/ IngestWaitTimesOut(c) \/ AppendCheckpoint(c)
             \/ ReceiveReply(c)
      PROVE  OneLock'
  BY <1>2, <1>9
  DEF RequestCheckpoint, IngestWaitTimesOut, AppendCheckpoint, ReceiveReply, lockVars, workerVars
<1>10. ASSUME NEW t \in Tasks, PopReady(t) \/ RunEntry(t) PROVE OneLock'
  BY <1>2, <1>10 DEF PopReady, RunEntry, lockVars, workerVars
<1>11. ASSUME NEW t \in Tasks, ReleaseLock(t) PROVE OneLock'
  <2>1. /\ lock'[t] = None
        /\ \A s \in Tasks : s # t => lock'[s] = lock[s]
        /\ lockOf' = lockOf
    BY <1>11 DEF ReleaseLock, TypeOK
  <2>2. \A s \in Tasks : s # t => TaskFamily(s)' = TaskFamily(s)
    BY <1>11 DEF ReleaseLock, TaskFamily
  <2> QED
    BY <2>1, <2>2 DEF OneLock
<1> QED
  BY <1>5, <1>6, <1>7, <1>8, <1>9, <1>10, <1>11
  DEF NoGcNext, DaemonStep, WorkerStep, ClientStep, DrainStep

\* Whoever drains holds the lock of its family.
LEMMA OneLockExcludes ==
    ASSUME Inv1, OneLock
    PROVE  DrainsExclude
<1>1. SUFFICES ASSUME NEW s \in Tasks, NEW t \in Tasks, s # t,
                      Draining(s), Draining(t), TaskFamily(s) = TaskFamily(t)
               PROVE  FALSE
  BY DEF DrainsExclude
<1>2. HoldsLock(s) /\ HoldsLock(t)
  BY <1>1 DEF Inv1, LockInv, Draining
<1>3. lock[s] = lock[t]
  BY <1>1, <1>2 DEF OneLock, HoldsLock
<1> QED
  BY <1>1, <1>2, <1>3 DEF HoldsLock

(* As long as gc_stale_family_state does not run, two drains of a family    *)
(* never overlap: all tasks of a family refer to the same lock object, and  *)
(* a drain runs at the head of its queue.  A garbage collection may drop a  *)
(* lock that is in use, and then this fails.                                *)
THEOREM MutualExclusion == NoGcSpec => []DrainsExclude
<1>1. Init => OneLock
  BY DEF Init, OneLock
<1>2. Inv1 /\ OneLock /\ [NoGcNext]_vars => OneLock'
  BY OneLockStep
<1>3. Inv1 /\ OneLock => DrainsExclude
  BY OneLockExcludes
<1> QED
  BY <1>1, <1>2, <1>3, NoGcInv1, PTL DEF NoGcSpec


-----------------------------------------------------------------------------
(* What the sequencer promises about the side effects it applies: none      *)
(* twice, and, between garbage collections, each after everything that goes *)
(* before it, whatever fails and whichever git processes are killed.        *)

StartsAt(r, i) == stream[i].root = r /\ stream[i].ev = "start"

\* The worker is past the start payload of r.
StartProcessed(r) == \E i \in 1..Len(stream) : i <= processed /\ StartsAt(r, i)

\* Git reports the start of a root once, before anything else of that root.
StreamInv ==
    \A r \in Roots :
        /\ git[r] \in {"idle", "begun"} => \A i \in 1..Len(stream) : stream[i].root # r
        /\ git[r] \notin {"idle", "begun"} => \E i \in 1..Len(stream) : StartsAt(r, i)
        /\ \A i, j \in 1..Len(stream) : StartsAt(r, i) /\ stream[j].root = r => i <= j
        /\ startedAt[r] <= clock

\* The life of a root in the normalizer and in the slot map: a command that took
\* part in the sequencer when it started keeps its slot until it is finalized.
RootInv ==
    \A r \in Roots :
        /\ norm[r] # "absent" => StartProcessed(r)
        /\ slots[r] # None => StartProcessed(r) /\ attr[r].hint
        /\ norm[r] = "pending" /\ attr[r].hint => slots[r] # None
        /\ norm[r] = "completed" => slots[r] = None

\* What the worker holds between two awaits.
HandInv ==
    /\ pc[Worker] = "direct" => norm[cur] = "completed" /\ ~attr[cur].hint
    /\ pc[Worker] = "queued" => /\ StartProcessed(cur)
                                /\ attr[cur].hint
                                /\ taken[1] = startedAt[cur]
                                /\ repl = "ready" => norm[cur] = "completed"

\* Past the append to the sequencer.
Served == {"pop", "run", "release", "await", "done"}

\* An entry belongs to its family, and says when its command started.
WellPlaced(e, f) ==
    /\ e.kind = "checkpoint" => /\ e.who \in Clients
                                /\ RepoOf[e.who] = f
                                /\ pc[e.who] \in Served
                                /\ request[e.who].through <= processed
    /\ e.kind # "checkpoint" => /\ e.who \in Roots
                                /\ FamilyOf[e.who] = f
                                /\ StartProcessed(e.who)
                                /\ attr[e.who].hint
                                /\ e.order[1] = startedAt[e.who]
    /\ e.kind = "ready" => norm[e.who] = "completed"

EntriesInv ==
    /\ \A f \in Families : \A e \in entries[f] : WellPlaced(e, f)
    /\ \A t \in Tasks : ready[t] # {} => pc[t] = "run"
    /\ \A t \in Tasks : \A e \in ready[t] : e.kind # "pending" /\ WellPlaced(e, TaskFamily(t))
    /\ \A r \in Roots : slots[r] # None => slots[r][1] = startedAt[r]

\* A request waits for no more than the stream had, and joins the lock's queue
\* once that has been processed.
RequestInv ==
    \A c \in Clients :
        /\ pc[c] # "idle" => request[c].through \in Nat /\ request[c].through <= Len(stream)
        /\ pc[c] = "queued" => request[c].through <= processed

\* Whose side effect ran: a completed command or a served request.
RanInv ==
    /\ \A r \in Roots : Ran(r) => norm[r] = "completed"
    /\ \A c \in Clients : Ran(c) => pc[c] \in Served /\ request[c].through <= processed

LifeInv == StreamInv /\ RootInv /\ HandInv /\ EntriesInv /\ RequestInv /\ RanInv

\* An entry whose side effect is going to run.
Effective(e) == e.kind \in {"ready", "checkpoint"}

\* The worker is about to run the command of r, or to put it into its place.
InHand(r) ==
    /\ cur = r
    /\ \/ pc[Worker] = "direct"
       \/ pc[Worker] = "queued" /\ repl = "ready"

\* A command or a checkpoint is in one place at a time: in the worker's hands, in
\* the map, among the popped entries of one task, or in the past.
UseInv ==
    /\ EffectsAtMostOnce
    /\ \A r \in Roots : InHand(r) =>
          /\ ~Ran(r)
          /\ \A f \in Families : \A e \in entries[f] : Effective(e) => e.who # r
          /\ \A t \in Tasks : \A e \in ready[t] : Effective(e) => e.who # r
    /\ \A f \in Families : \A e \in entries[f] : Effective(e) =>
          /\ ~Ran(e.who)
          /\ \A d \in entries[f] : Effective(d) /\ d.who = e.who => d = e
          /\ \A t \in Tasks : \A d \in ready[t] : Effective(d) => d.who # e.who
    /\ \A t \in Tasks : \A e \in ready[t] : Effective(e) =>
          /\ ~Ran(e.who)
          /\ \A s \in Tasks : \A d \in ready[s] :
                Effective(d) /\ d.who = e.who => s = t /\ d = e

\* The commands that go before y, a command or a checkpoint.
Precedes(q, y) ==
    \/ /\ y \in Roots
       /\ attr[q].hint /\ attr[y].hint
       /\ FamilyOf[q] = FamilyOf[y]
       /\ startedAt[q] <= startedAt[y]
       /\ \E i, j \in 1..Len(stream) : StartsAt(q, i) /\ StartsAt(y, j) /\ i < j
    \/ /\ y \in Clients
       /\ FamilyOf[q] = RepoOf[y]
       /\ pc[y] # "idle"
       /\ \E i \in 1..Len(stream) : StartsAt(q, i) /\ i <= request[y].through

\* In the map a predecessor stands in front.
QueueOrderInv ==
    \A f \in Families : \A d, e \in entries[f] :
        d.who \in Roots /\ Precedes(d.who, e.who) => Before(d.order, e.order)

\* What was popped has no predecessor left in the map, and its popped
\* predecessors stand in front of it; what ran has none left at all.
SettledInv ==
    \A q \in Roots, y \in Roots \cup Clients : Precedes(q, y) =>
        /\ Ran(y) => ~Unsettled(q)
        /\ \A t \in Tasks : \A e \in ready[t] : e.who = y /\ e.kind # "canceled" =>
              /\ slots[q] = None
              /\ \A d \in entries[FamilyOf[q]] : d.who # q
              /\ \A s \in Tasks : \A d \in ready[s] :
                    d.who = q /\ d.kind # "canceled" => s = t /\ Before(d.order, e.order)

\* A command whose place is filled stands behind a place that is not, unless the
\* worker is about to drain; so no checkpoint request ever runs a command.
BlockedInv ==
    /\ \A f \in Families : \A e \in entries[f] : e.who \in Roots /\ e.kind # "pending" =>
          \/ \E q \in entries[f] : q.kind = "pending" /\ Before(q.order, e.order)
          \/ pc[Worker] = "pop" /\ FamilyOf[cur] = f
    /\ \A c \in Clients : \A e \in ready[c] : e.kind = "checkpoint"
    
OrderInv == OneLock /\ QueueOrderInv /\ SettledInv /\ BlockedInv

-----------------------------------------------------------------------------
(* What never goes back.                                                    *)

\* Payloads are only added, and the watermark only rises.
LEMMA StreamGrows ==
    ASSUME Inv1, [Next]_vars
    PROVE  /\ Len(stream) <= Len(stream')
           /\ \A i \in 1..Len(stream) : i \in 1..Len(stream') /\ stream'[i] = stream[i]
           /\ processed <= processed'
           /\ attr' = attr
<1> USE DEF Inv1
<1>1. stream \in Seq(Payload) /\ processed \in Nat
  BY DEF TypeOK
<1>2. ASSUME NEW r \in Roots, GitBegins(r) PROVE UNCHANGED <<stream, processed, attr>>
  BY <1>2 DEF GitBegins
<1>3. ASSUME NEW r \in Roots, NEW ev, NEW cut, NEW from, NEW to, Emit(r, ev, cut, from, to)
      PROVE  /\ stream' = Append(stream, [root |-> r, ev |-> ev, cut |-> cut])
             /\ UNCHANGED <<processed, attr>>
  BY <1>3 DEF Emit
<1>4. CASE GitStep
  <2>1. PICK r \in Roots : \/ GitBegins(r)
                          \/ EmitStart(r)
                          \/ EmitExit(r)
                          \/ EmitAtexit(r)
                          \/ ConnectionLost(r)
    BY <1>4 DEF GitStep
  <2>2. \/ stream' = stream
        \/ \E p : stream' = Append(stream, p)
    BY <1>2, <1>3, <2>1 DEF EmitStart, EmitExit, EmitAtexit, ConnectionLost
  <2>3. UNCHANGED <<processed, attr>>
    BY <1>2, <1>3, <2>1 DEF EmitStart, EmitExit, EmitAtexit, ConnectionLost
  <2> QED
    BY <1>1, <2>2, <2>3
<1>5. CASE WorkerStep
  <2>1. UNCHANGED <<stream, attr>>
    BY <1>5
    DEF WorkerStep, IngestStart, IngestTerminalError, IngestTerminalNone, IngestTerminalEmit,
        DirectEffect, ReplacePendingRoot, envVars
  <2>2. processed' = processed \/ processed' = processed + 1
    BY <1>5
    DEF WorkerStep, IngestStart, IngestTerminalError, IngestTerminalNone, IngestTerminalEmit,
        DirectEffect, ReplacePendingRoot, TakeSlot, PayloadDone
  <2> QED
    BY <1>1, <2>1, <2>2
<1>6. ASSUME NEW c \in Clients,
             ClientStep(c) \/ RequestCheckpoint(c) \/ IngestWaitTimesOut(c)
      PROVE  UNCHANGED <<stream, attr, processed>>
  BY <1>6
  DEF ClientStep, IngestCaughtUp, AppendCheckpoint, ReceiveReply, RequestCheckpoint,
      IngestWaitTimesOut, envVars
<1>7. ASSUME NEW t \in Tasks, DrainStep(t)
      PROVE  /\ UNCHANGED <<stream, attr>>
             /\ processed' = processed \/ processed' = processed + 1
  BY <1>7 DEF DrainStep, PopReady, RunEntry, ReleaseLock, PayloadDone, envVars
<1>8. CASE GcStep \/ UNCHANGED vars
  BY <1>1, <1>8 DEF GcStep, GcSequencers, GcLocks, vars, envVars
<1> QED
  BY <1>1, <1>4, <1>5, <1>6, <1>7, <1>8 DEF Next, DaemonStep

\* Only git moves its own processes.
LEMMA StreamStep ==
    ASSUME Inv1, StreamInv, [Next]_vars
    PROVE  StreamInv'
<1> USE DEF Inv1
<1>1. CASE UNCHANGED <<git, stream, startedAt, clock>>
  BY <1>1 DEF StreamInv, StartsAt
<1>2. ASSUME NEW r \in Roots, GitBegins(r) PROVE StreamInv'
  <2>1. /\ git[r] = "idle" /\ git'[r] = "begun"
        /\ \A q \in Roots : q # r => git'[q] = git[q] /\ startedAt'[q] = startedAt[q]
        /\ startedAt'[r] = clock'
        /\ stream' = stream
    BY <1>2 DEF TypeOK, GitBegins
  <2>2. clock \in Nat /\ clock' \in Nat /\ clock <= clock'
    BY <1>2 DEF TypeOK, GitBegins, ReadClock
  <2>3. \A q \in Roots : startedAt'[q] <= clock'
    <3>1. \A q \in Roots : startedAt[q] \in Nat /\ startedAt[q] <= clock
      BY DEF TypeOK, StreamInv
    <3>2. \A q \in Roots : startedAt[q] <= clock'
      BY <2>2, <3>1
    <3> QED
      BY <2>1, <2>2, <3>2
  <2> QED
    BY <2>1, <2>3 DEF StreamInv, StartsAt
<1>3. ASSUME NEW r \in Roots, NEW ev \in {"start", "exit", "atexit", "fallback"}, NEW cut \in BOOLEAN,
             NEW from \in {"begun", "running", "exited"}, NEW to \in {"running", "exited", "done"},
             Emit(r, ev, cut, from, to), ev = "start" <=> from = "begun"
      PROVE  StreamInv'
  <2> DEFINE p == [root |-> r, ev |-> ev, cut |-> cut]
  <2>0. PICK n \in Nat : n = Len(stream)
    <3>1. stream \in Seq(Payload)
      BY DEF TypeOK
    <3>2. Len(stream) \in Nat
      BY <3>1
    <3> QED
      BY <3>2
  <2>1. stream \in Seq(Payload) /\ stream' = Append(stream, p)
    BY <1>3 DEF TypeOK, Emit
  <2>2. /\ Len(stream') = n + 1
        /\ \A i \in 1..n : stream'[i] = stream[i]
        /\ stream'[n + 1] = p
    BY <2>0, <2>1
  <2>3. /\ git[r] = from /\ git'[r] = to
        /\ \A q \in Roots : q # r => git'[q] = git[q]
        /\ UNCHANGED <<startedAt, clock>>
    BY <1>3 DEF TypeOK, Emit
  <2>4. SUFFICES ASSUME NEW q \in Roots
                 PROVE  /\ git'[q] \in {"idle", "begun"} =>
                               \A i \in 1..(n + 1) : stream'[i].root # q
                        /\ git'[q] \notin {"idle", "begun"} =>
                               \E i \in 1..(n + 1) : StartsAt(q, i)'
                        /\ \A i, j \in 1..(n + 1) : StartsAt(q, i)' /\ stream'[j].root = q => i <= j
    BY <2>2, <2>3 DEF StreamInv
  <2> USE <2>0
  <2>5. CASE q # r
    <3>1. \A i \in 1..n : StartsAt(q, i)' <=> StartsAt(q, i)
      BY <2>2 DEF StartsAt
    <3>2. ~StartsAt(q, n + 1)' /\ stream'[n + 1].root # q
      BY <2>2, <2>5 DEF StartsAt
    <3>3. \A i \in 1..(n + 1) : i \in 1..n \/ i = n + 1
      BY <2>1
    <3>4. \A i \in 1..n : i \in 1..(n + 1)
      BY <2>1
    <3> QED
      BY <2>2, <2>3, <2>5, <3>1, <3>2, <3>3, <3>4 DEF StreamInv
  <2>6. CASE q = r /\ ev = "start"
    <3>1. \A i \in 1..n : stream[i].root # r
      BY <1>3, <2>3, <2>6 DEF StreamInv
    <3>2. \A i \in 1..n : stream'[i].root # r
      BY <2>2, <3>1
    <3>3. StartsAt(r, n + 1)'
      BY <2>2, <2>6 DEF StartsAt
    <3>4. \A i \in 1..(n + 1) : i \in 1..n \/ i = n + 1
      BY <2>1
    <3>5. n + 1 \in 1..(n + 1) /\ \A i \in 1..(n + 1) : i <= n + 1
      BY <2>1
    <3> QED
      BY <1>3, <2>3, <2>6, <3>2, <3>3, <3>4, <3>5 DEF StartsAt
  <2>7. CASE q = r /\ ev # "start"
    <3>1. git[r] \notin {"idle", "begun"}
      BY <1>3, <2>3, <2>7
    <3>2. \A i \in 1..n : StartsAt(r, i)' <=> StartsAt(r, i)
      BY <2>2 DEF StartsAt
    <3>3. ~StartsAt(r, n + 1)'
      BY <2>2, <2>7 DEF StartsAt
    <3>4. \A i \in 1..(n + 1) : i \in 1..n \/ i = n + 1
      BY <2>1
    <3>5. \A i \in 1..n : i \in 1..(n + 1) /\ i <= n + 1
      BY <2>1
    <3> QED
      BY <1>3, <2>2, <2>3, <2>7, <3>1, <3>2, <3>3, <3>4, <3>5 DEF StreamInv
  <2> QED
    BY <2>5, <2>6, <2>7
<1>4. CASE GitStep
  <2>1. PICK r \in Roots : \/ GitBegins(r)
                          \/ EmitStart(r)
                          \/ EmitExit(r)
                          \/ EmitAtexit(r)
                          \/ ConnectionLost(r)
    BY <1>4 DEF GitStep
  <2>2. CASE EmitStart(r)
    BY <1>3, <2>2 DEF EmitStart
  <2>3. CASE EmitExit(r)
    <3>1. attr[r].mutates \in BOOLEAN
      BY DEF TypeOK, Attr
    <3> QED
      BY <1>3, <2>3, <3>1 DEF EmitExit
  <2>4. CASE EmitAtexit(r)
    BY <1>3, <2>4 DEF EmitAtexit
  <2>5. CASE ConnectionLost(r)
    BY <1>3, <2>5 DEF ConnectionLost
  <2> QED
    BY <1>2, <2>1, <2>2, <2>3, <2>4, <2>5
<1>5. CASE DaemonStep \/ GcStep \/ UNCHANGED vars
  <2>1. \/ UNCHANGED <<git, stream, startedAt, clock>>
        \/ \E c \in Clients : AppendCheckpoint(c)
    BY <1>5
    DEF DaemonStep, WorkerStep, IngestStart, IngestTerminalError, IngestTerminalNone,
        IngestTerminalEmit, DirectEffect, ReplacePendingRoot, ClientStep, IngestCaughtUp,
        ReceiveReply, RequestCheckpoint, IngestWaitTimesOut, DrainStep, PopReady, RunEntry,
        ReleaseLock, GcStep, GcSequencers, GcLocks, vars, envVars
  <2>2. ASSUME NEW c \in Clients, AppendCheckpoint(c) PROVE StreamInv'
    <3>1. clock \in Nat /\ clock' \in Nat /\ clock <= clock'
      BY <2>2 DEF TypeOK, AppendCheckpoint, ReadClock
    <3>2. UNCHANGED <<git, stream, startedAt>>
      BY <2>2 DEF AppendCheckpoint
    <3>3. \A q \in Roots : startedAt[q] <= clock'
      BY <3>1 DEF TypeOK, StreamInv
    <3> QED
      BY <3>2, <3>3 DEF StreamInv, StartsAt
  <2> QED
    BY <1>1, <2>1, <2>2
<1> QED
  BY <1>4, <1>5 DEF Next

\* The payload of IngestStart.
LEMMA StartTaken ==
    ASSUME Inv1, IngestStart
    PROVE  /\ NextPayload.root \in Roots
           /\ NextPayload.ev = "start"
           /\ processed + 1 \in 1..Len(stream)
<1>1. WorkerTakes({"start"})
  BY DEF IngestStart
<1>2. NextPayload.root \in Roots /\ NextPayload.ev = "start"
  BY <1>1, NextPayloadType DEF Inv1, WorkerTakes
<1>3. stream \in Seq(Payload) /\ processed \in Nat /\ processed < Len(stream)
  BY <1>1 DEF Inv1, TypeOK, WorkerTakes
<1> QED
  BY <1>2, <1>3

\* What a start that was processed, a finalized command and a served request keep.
LEMMA NothingGoesBack ==
    ASSUME Inv1, StreamInv, RootInv, [Next]_vars
    PROVE  /\ \A r \in Roots : StartProcessed(r) => StartProcessed(r)' /\ startedAt'[r] = startedAt[r]
           /\ \A r \in Roots : norm[r] = "completed" => norm'[r] = "completed"
           /\ \A c \in Clients : pc[c] \in Served => pc'[c] \in Served
           /\ \A c \in Clients : pc[c] # "idle" => pc'[c] # "idle" /\ request'[c] = request[c]
<1> USE DEF Inv1
<1>0. Worker \in Tasks /\ \A c \in Clients : c \in Tasks /\ c # Worker
  BY SequencerAssumption DEF Tasks
<1>1. ASSUME NEW r \in Roots, StartProcessed(r) PROVE StartProcessed(r)'
  <2>1. PICK i \in 1..Len(stream) : i <= processed /\ StartsAt(r, i)
    BY <1>1 DEF StartProcessed
  <2>2. i \in 1..Len(stream') /\ stream'[i] = stream[i] /\ processed <= processed'
    BY StreamGrows
  <2>3. processed \in Nat /\ processed' \in Nat
    BY TypeStep DEF TypeOK
  <2>4. i <= processed'
    BY <2>1, <2>2, <2>3
  <2> QED
    BY <2>1, <2>2, <2>4 DEF StartProcessed, StartsAt
<1>2. ASSUME NEW r \in Roots, StartProcessed(r) PROVE startedAt'[r] = startedAt[r]
  <2>1. git[r] # "idle"
    BY <1>2 DEF StreamInv, StartProcessed, StartsAt
  <2>2. \/ startedAt' = startedAt
        \/ \E q \in Roots : GitBegins(q)
    BY DEF Next, GitStep, EmitStart, EmitExit, EmitAtexit, ConnectionLost, Emit, DaemonStep,
           WorkerStep, IngestStart, IngestTerminalError, IngestTerminalNone,
           IngestTerminalEmit, DirectEffect, ReplacePendingRoot, ClientStep, IngestCaughtUp,
           AppendCheckpoint, ReceiveReply, RequestCheckpoint, IngestWaitTimesOut, DrainStep,
           PopReady, RunEntry, ReleaseLock, GcStep, GcSequencers, GcLocks, vars, envVars
  <2> QED
    BY <2>1, <2>2 DEF TypeOK, GitBegins
<1>3. ASSUME NEW r \in Roots, norm[r] = "completed" PROVE norm'[r] = "completed"
  <2>1. CASE IngestStart
    <3>1. NextPayload.root \in Roots /\ NextPayload.ev = "start" /\ processed + 1 \in 1..Len(stream)
      BY <2>1, StartTaken
    <3>2. NextPayload.root # r
      <4>1. PICK i \in 1..Len(stream) : i <= processed /\ StartsAt(r, i)
        BY <1>3 DEF RootInv, StartProcessed
      <4>2. i < processed + 1 /\ processed \in Nat
        BY <4>1 DEF TypeOK
      <4>3. NextPayload.root = r => processed + 1 <= i
        BY <3>1, <4>1 DEF StreamInv, StartsAt, NextPayload
      <4> QED
        BY <4>2, <4>3
    <3> QED
      BY <1>3, <2>1, <3>1, <3>2 DEF IngestStart, TypeOK
  <2>2. CASE IngestTerminalError
    BY <1>3, <2>2, NextPayloadType DEF IngestTerminalError, TypeOK
  <2>3. CASE IngestTerminalNone
    BY <1>3, <2>3, NextPayloadType DEF IngestTerminalNone, TypeOK
  <2>4. CASE IngestTerminalEmit
    BY <1>3, <2>4, NextPayloadType DEF IngestTerminalEmit, TypeOK
  <2>5. \/ norm' = norm \/ IngestStart \/ IngestTerminalError \/ IngestTerminalNone
        \/ IngestTerminalEmit
    BY DEF Next, GitStep, GitBegins, EmitStart, EmitExit, EmitAtexit, ConnectionLost, Emit,
           DaemonStep, WorkerStep, DirectEffect, ReplacePendingRoot, ClientStep,
           IngestCaughtUp, AppendCheckpoint, ReceiveReply, RequestCheckpoint,
           IngestWaitTimesOut, DrainStep, PopReady, RunEntry, ReleaseLock, GcStep,
           GcSequencers, GcLocks, vars
  <2> QED
    BY <1>3, <2>1, <2>2, <2>3, <2>4, <2>5
<1>4. ASSUME NEW c \in Clients
      PROVE  /\ pc[c] \in Served => pc'[c] \in Served
             /\ pc[c] # "idle" => pc'[c] # "idle" /\ request'[c] = request[c]
  <2> DEFINE Fine == /\ pc[c] \in Served => pc'[c] \in Served
                     /\ pc[c] # "idle" => pc'[c] # "idle" /\ request'[c] = request[c]
  <2>1. ASSUME NEW label, Goto(Worker, label) PROVE pc'[c] = pc[c]
    BY <1>0, <2>1 DEF Goto, TypeOK
  <2>2. CASE GitStep \/ GcStep \/ UNCHANGED vars
    <3>1. UNCHANGED <<pc, request>>
      BY <2>2 DEF GitStep, GitBegins, EmitStart, EmitExit, EmitAtexit, ConnectionLost, Emit,
                  GcStep, GcSequencers, GcLocks, vars, clientVars
    <3> QED
      BY <3>1
  <2>3. CASE WorkerStep
    <3>1. request' = request
      BY <2>3 DEF WorkerStep, IngestStart, IngestTerminalError, IngestTerminalNone,
                  IngestTerminalEmit, DirectEffect, ReplacePendingRoot, clientVars
    <3>2. pc' = pc \/ \E label : Goto(Worker, label)
      BY <2>3 DEF WorkerStep, IngestStart, IngestTerminalError, IngestTerminalNone,
                  IngestTerminalEmit, DirectEffect, ReplacePendingRoot, TakeSlot
    <3> QED
      BY <2>1, <3>1, <3>2
  <2>4. ASSUME NEW d \in Clients, ClientStep(d) \/ RequestCheckpoint(d) \/ IngestWaitTimesOut(d)
        PROVE  Fine
    <3>1. CASE d # c
      BY <1>0, <2>4, <3>1
      DEF TypeOK, ClientStep, IngestCaughtUp, AppendCheckpoint, ReceiveReply,
          RequestCheckpoint, IngestWaitTimesOut, Goto, clientVars
    <3>2. CASE d = c
      BY <1>0, <2>4, <3>2
      DEF TypeOK, ClientStep, IngestCaughtUp, AppendCheckpoint, ReceiveReply,
          RequestCheckpoint, IngestWaitTimesOut, Goto, Served, clientVars
    <3> QED
      BY <3>1, <3>2
  <2>5. ASSUME NEW t \in Tasks, DrainStep(t) PROVE Fine
    <3>1. request' = request
      BY <2>5 DEF DrainStep, PopReady, RunEntry, ReleaseLock, clientVars
    <3>2. \E label \in Served \cup {"idle"} : Goto(t, label) /\ (t # Worker => label # "idle")
      BY <2>5 DEF DrainStep, PopReady, RunEntry, ReleaseLock, FinishEntry, AfterEntry, Served
    <3> QED
      BY <1>0, <3>1, <3>2 DEF Goto, TypeOK, Served
  <2> QED
    BY <2>2, <2>3, <2>4, <2>5 DEF Next, DaemonStep
<1> QED
  BY <1>1, <1>2, <1>3, <1>4

\* So an entry that is well placed stays so.
LEMMA WellPlacedStays ==
    ASSUME Inv1, LifeInv, [Next]_vars, NEW e \in Entry, NEW f, WellPlaced(e, f)
    PROVE  WellPlaced(e, f)'
<1>1. CASE e.kind = "checkpoint"
  <2>1. e.who \in Clients /\ pc[e.who] \in Served /\ request[e.who].through <= processed
    BY <1>1 DEF WellPlaced
  <2>2. pc[e.who] # "idle" /\ request'[e.who] = request[e.who] /\ pc'[e.who] \in Served
    BY <2>1, NothingGoesBack DEF LifeInv, Served
  <2>3. request[e.who].through \in Nat
    BY <2>1, <2>2 DEF LifeInv, RequestInv
  <2>4. processed \in Nat /\ processed' \in Nat /\ processed <= processed'
    BY StreamGrows, TypeStep DEF Inv1, TypeOK
  <2>5. request'[e.who].through <= processed'
    BY <2>1, <2>2, <2>3, <2>4
  <2> QED
    BY <1>1, <2>2, <2>5 DEF WellPlaced
<1>2. CASE e.kind # "checkpoint"
  BY <1>2, NothingGoesBack, StreamGrows DEF LifeInv, WellPlaced
<1> QED
  BY <1>1, <1>2

-----------------------------------------------------------------------------
(* The life of roots, entries and requests.                                 *)

LEMMA InitLife == Init => LifeInv
<1>1. SUFFICES ASSUME Init PROVE LifeInv
  OBVIOUS
<1>2. Len(stream) = 0 /\ Len(effects) = 0
  <2>1. stream = <<>> /\ effects = <<>>
    BY <1>1 DEF Init
  <2> QED
    BY <2>1
<1>3. \A i \in 1..0 : FALSE
  OBVIOUS
<1>4. \A x : ~Ran(x)
  BY <1>2, <1>3 DEF Ran
<1>5. StreamInv /\ RootInv
  <2>1. \A r \in Roots : /\ git[r] = "idle"
                         /\ norm[r] = "absent"
                         /\ slots[r] = None
                         /\ startedAt[r] = 0
                         /\ clock = 0
    BY <1>1 DEF Init
  <2> QED
    BY <1>2, <1>3, <2>1 DEF StreamInv, RootInv
<1>6. HandInv /\ EntriesInv /\ RequestInv
  <2>1. /\ \A t \in Tasks : pc[t] = "idle" /\ ready[t] = {}
        /\ \A f \in Families : entries[f] = {}
        /\ \A r \in Roots : slots[r] = None
    BY <1>1 DEF Init
  <2> QED
    BY <2>1, SequencerAssumption DEF HandInv, EntriesInv, RequestInv, Tasks
<1> QED
  BY <1>4, <1>5, <1>6 DEF LifeInv, RanInv

\* How a request moves.
LEMMA ClientMoves ==
    ASSUME Inv1, [Next]_vars, NEW c \in Clients
    PROVE  \/ pc'[c] = pc[c] /\ request'[c] = request[c]
           \/ RequestCheckpoint(c)
           \/ IngestCaughtUp(c)
           \/ pc[c] # "idle" /\ pc'[c] \in Served /\ request'[c] = request[c]
<1> USE DEF Inv1
<1>0. Worker \in Tasks /\ \A d \in Clients : d \in Tasks /\ d # Worker
  BY SequencerAssumption DEF Tasks
<1>1. CASE GitStep \/ GcStep \/ UNCHANGED vars
  BY <1>1 DEF GitStep, GitBegins, EmitStart, EmitExit, EmitAtexit, ConnectionLost, Emit,
              GcStep, GcSequencers, GcLocks, vars, clientVars
<1>2. CASE WorkerStep
  <2>1. request' = request
    BY <1>2 DEF WorkerStep, IngestStart, IngestTerminalError, IngestTerminalNone,
                IngestTerminalEmit, DirectEffect, ReplacePendingRoot, clientVars
  <2>2. pc' = pc \/ \E label : Goto(Worker, label)
    BY <1>2 DEF WorkerStep, IngestStart, IngestTerminalError, IngestTerminalNone,
                IngestTerminalEmit, DirectEffect, ReplacePendingRoot, TakeSlot
  <2> QED
    BY <1>0, <2>1, <2>2 DEF Goto, TypeOK
<1>3. ASSUME NEW d \in Clients, ClientStep(d) \/ RequestCheckpoint(d) \/ IngestWaitTimesOut(d),
             d # c
      PROVE  pc'[c] = pc[c] /\ request'[c] = request[c]
  BY <1>0, <1>3
  DEF TypeOK, ClientStep, IngestCaughtUp, AppendCheckpoint, ReceiveReply,
      RequestCheckpoint, IngestWaitTimesOut, Goto, clientVars
<1>4. CASE AppendCheckpoint(c) \/ ReceiveReply(c) \/ IngestWaitTimesOut(c)
  BY <1>0, <1>4 DEF TypeOK, AppendCheckpoint, ReceiveReply, IngestWaitTimesOut, Goto, Served,
              clientVars
<1>5. ASSUME NEW t \in Tasks, DrainStep(t)
      PROVE  /\ request'[c] = request[c]
             /\ pc'[c] = pc[c] \/ (pc[c] # "idle" /\ pc'[c] \in Served)
  <2>1. request' = request
    BY <1>5 DEF DrainStep, PopReady, RunEntry, ReleaseLock, clientVars
  <2>2. pc[t] # "idle"
    BY <1>5 DEF DrainStep, PopReady, RunEntry, ReleaseLock
  <2>3. \E label \in Served \cup {"idle"} : Goto(t, label) /\ (t # Worker => label # "idle")
    BY <1>5 DEF DrainStep, PopReady, RunEntry, ReleaseLock, FinishEntry, AfterEntry, Served
  <2> QED
    BY <1>0, <2>1, <2>2, <2>3 DEF Goto, TypeOK
<1> QED
  BY <1>1, <1>2, <1>3, <1>4, <1>5 DEF Next, DaemonStep, ClientStep

LEMMA RequestStep ==
    ASSUME Inv1, LifeInv, [Next]_vars
    PROVE  RequestInv'
<1>1. SUFFICES ASSUME NEW c \in Clients
               PROVE  /\ pc'[c] # "idle" => request'[c].through \in Nat /\ request'[c].through <= Len(stream')
                      /\ pc'[c] = "queued" => request'[c].through <= processed'
  BY DEF RequestInv
<1>2. /\ Len(stream) \in Nat /\ Len(stream') \in Nat /\ Len(stream) <= Len(stream')
      /\ processed \in Nat /\ processed' \in Nat /\ processed <= processed'
  <2>1. TypeOK /\ TypeOK'
    BY TypeStep DEF Inv1
  <2>2. stream \in Seq(Payload) /\ stream' \in Seq(Payload) /\ processed \in Nat /\ processed' \in Nat
    BY <2>1 DEF TypeOK
  <2> QED
    BY <2>2, StreamGrows
<1>3. /\ pc[c] # "idle" => request[c].through \in Nat /\ request[c].through <= Len(stream)
      /\ pc[c] = "queued" => request[c].through <= processed
  BY DEF LifeInv, RequestInv
<1>4. CASE RequestCheckpoint(c)
  <2>1. /\ pc'[c] = "ingest"
        /\ request'[c].through \in {Len(stream), 0}
    BY <1>4, SequencerAssumption DEF RequestCheckpoint, Goto, Inv1, TypeOK, Tasks
  <2> QED
    BY <1>2, <2>1
<1>5. CASE IngestCaughtUp(c)
  BY <1>2, <1>3, <1>5 DEF IngestCaughtUp, ProcessedThrough, clientVars
<1>6. CASE /\ pc[c] # "idle" \/ pc'[c] = pc[c]
           /\ request'[c] = request[c]
           /\ pc'[c] = pc[c] \/ pc'[c] \in Served
  BY <1>2, <1>3, <1>6 DEF Served
<1> QED
  BY <1>4, <1>5, <1>6, ClientMoves

\* Only the worker touches the normalizer and the slots.
LEMMA RootStep ==
    ASSUME Inv1, LifeInv, [Next]_vars
    PROVE  RootInv'
<1> USE DEF Inv1
<1>1. RootInv /\ attr' = attr /\ \A r \in Roots : StartProcessed(r) => StartProcessed(r)'
  BY NothingGoesBack, StreamGrows DEF LifeInv
<1>2. CASE UNCHANGED <<norm, slots>>
  BY <1>1, <1>2 DEF RootInv
<1>3. ASSUME NEW r \in Roots, WorkerTakes({"start"}) \/ WorkerTakes(TerminalEvents),
             r = NextPayload.root, processed' = processed + 1 \/ NextPayload.ev # "start"
      PROVE  StartProcessed(r)'
  <2>1. stream \in Seq(Payload) /\ processed \in Nat /\ processed < Len(stream)
    BY <1>3 DEF TypeOK, WorkerTakes
  <2>2. PICK i \in 1..Len(stream) : StartsAt(r, i)
    <3>1. processed + 1 \in 1..Len(stream)
      BY <2>1
    <3>2. git[r] \notin {"idle", "begun"}
      BY <1>3, <3>1 DEF LifeInv, StreamInv, NextPayload
    <3> QED
      BY <3>2 DEF LifeInv, StreamInv
  <2>3. i <= processed + 1
    BY <1>3, <2>1, <2>2 DEF LifeInv, StreamInv, NextPayload
  <2>4. i = processed + 1 => NextPayload.ev = "start"
    BY <2>2 DEF StartsAt, NextPayload
  <2>5. i <= processed'
    <3>1. processed' \in Nat /\ processed <= processed'
      BY StreamGrows, TypeStep DEF TypeOK
    <3>2. CASE i = processed + 1
      BY <1>3, <2>1, <2>4, <3>1, <3>2
    <3>3. CASE i <= processed
      BY <2>1, <3>1, <3>3
    <3> QED
      BY <2>1, <2>3, <3>2, <3>3
  <2>6. i \in 1..Len(stream') /\ stream'[i] = stream[i]
    BY StreamGrows
  <2> QED
    BY <2>2, <2>5, <2>6 DEF StartProcessed, StartsAt
<1>4. CASE IngestStart
  <2>1. PICK r \in Roots : r = NextPayload.root
    BY <1>4, StartTaken
  <2> DEFINE f == FamilyOf[r]
             o == <<startedAt[r], nextOrdinal[f]>>
  <2>0. f \in Families
    BY SequencerAssumption
  <2>2. StartProcessed(r)'
    BY <1>3, <1>4, <2>1 DEF IngestStart, PayloadDone
  <2>3. norm'[r] = "pending" /\ \A q \in Roots : q # r => norm'[q] = norm[q]
    BY <1>4, <2>1 DEF IngestStart, TypeOK
  <2>4. /\ \A q \in Roots : q # r => slots'[q] = slots[q]
        /\ attr[r].hint => slots'[r] # None
        /\ slots'[r] # None => attr[r].hint
    <3>1. o # None
      <4>1. o \in Nat \X Nat
        BY <2>0 DEF TypeOK
      <4> QED
        BY <4>1, SequencerAssumption
    <3> QED
      BY <1>1, <1>4, <2>1, <3>1 DEF IngestStart, AppendPendingRoot, TypeOK, seqVars, RootInv
  <2> QED
    BY <1>1, <2>1, <2>2, <2>3, <2>4 DEF RootInv
<1>5. CASE IngestTerminalError
  <2> DEFINE r == NextPayload.root
  <2>1. r \in Roots
    BY <1>5, NextPayloadType DEF IngestTerminalError
  <2>2. norm'[r] = "absent" /\ \A q \in Roots : q # r => norm'[q] = norm[q]
    BY <1>5, <2>1 DEF IngestTerminalError, TypeOK
  <2>3. slots' = slots
    BY <1>5 DEF IngestTerminalError, seqVars
  <2> QED
    BY <1>1, <2>1, <2>2, <2>3 DEF RootInv
<1>6. CASE IngestTerminalNone \/ IngestTerminalEmit
  <2>0. WorkerTakes(TerminalEvents)
    BY <1>6 DEF IngestTerminalNone, IngestTerminalEmit
  <2>1. PICK r \in Roots : r = NextPayload.root
    BY <2>0, NextPayloadType
  <2>2. StartProcessed(r)'
    BY <1>3, <2>0, <2>1 DEF WorkerTakes, TerminalEvents
  <2>3. norm'[r] \in {"deferred", "completed"} /\ \A q \in Roots : q # r => norm'[q] = norm[q]
    BY <1>6, <2>1 DEF IngestTerminalNone, IngestTerminalEmit, TypeOK
  <2>4. slots'[r] = None /\ \A q \in Roots : q # r => slots'[q] = slots[q]
    BY <1>6, <2>1 DEF IngestTerminalNone, IngestTerminalEmit, TakeSlot, TypeOK, seqVars
  <2> QED
    BY <1>1, <2>1, <2>2, <2>3, <2>4 DEF RootInv
<1>7. \/ UNCHANGED <<norm, slots>>
      \/ IngestStart \/ IngestTerminalError \/ IngestTerminalNone \/ IngestTerminalEmit
  BY DEF Next, GitStep, GitBegins, EmitStart, EmitExit, EmitAtexit, ConnectionLost, Emit,
         DaemonStep, WorkerStep, DirectEffect, ReplacePendingRoot, ClientStep,
         IngestCaughtUp, AppendCheckpoint, ReceiveReply, RequestCheckpoint,
         IngestWaitTimesOut, DrainStep, PopReady, RunEntry, ReleaseLock, GcStep,
         GcSequencers, GcLocks, vars, seqVars
<1> QED
  BY <1>2, <1>4, <1>5, <1>6, <1>7

\* The root of a terminal payload: it was started, and finalized if a command is
\* emitted for it.
LEMMA TerminalTaken ==
    ASSUME Inv1, LifeInv, IngestTerminalNone \/ IngestTerminalEmit
    PROVE  /\ NextPayload.root \in Roots
           /\ pc[Worker] = "idle"
           /\ \A r \in Roots : r # NextPayload.root => norm'[r] = norm[r]
           /\ norm'[NextPayload.root] \in {"deferred", "completed"}
           /\ IngestTerminalEmit => norm'[NextPayload.root] = "completed"
<1>1. WorkerTakes(TerminalEvents)
  BY DEF IngestTerminalNone, IngestTerminalEmit
<1>2. NextPayload.root \in Roots /\ pc[Worker] = "idle"
  BY <1>1, NextPayloadType DEF WorkerTakes, Inv1
<1> QED
  BY <1>2 DEF IngestTerminalNone, IngestTerminalEmit, Inv1, TypeOK

LEMMA HandStep ==
    ASSUME Inv1, LifeInv, [Next]_vars
    PROVE  HandInv'
<1> USE DEF Inv1
<1>0. Worker \in Tasks /\ \A d \in Clients : d \in Tasks /\ d # Worker
  BY SequencerAssumption DEF Tasks
<1>1. CASE pc'[Worker] \notin {"direct", "queued"}
  BY <1>1 DEF HandInv
<1>2. CASE pc'[Worker] = pc[Worker] /\ UNCHANGED <<cur, taken, repl>>
  <2>1. pc[Worker] \in {"direct", "queued"} => cur \in Roots
    BY DEF ControlInv
  <2>2. attr' = attr
    BY StreamGrows
  <2>3. /\ \A r \in Roots : StartProcessed(r) => StartProcessed(r)' /\ startedAt'[r] = startedAt[r]
        /\ \A r \in Roots : norm[r] = "completed" => norm'[r] = "completed"
    BY NothingGoesBack DEF LifeInv
  <2> QED
    BY <1>2, <2>1, <2>2, <2>3 DEF LifeInv, HandInv
<1>3. ASSUME NEW r \in Roots, NEW kind \in {"ready", "canceled"}, TakeSlot(r, kind),
             kind = "ready" => norm'[r] = "completed"
      PROVE  HandInv'
  <2>1. slots[r] # None /\ StartProcessed(r) /\ attr[r].hint /\ slots[r][1] = startedAt[r]
    BY <1>3 DEF TakeSlot, LifeInv, RootInv, EntriesInv
  <2>2. StartProcessed(r)' /\ startedAt'[r] = startedAt[r] /\ attr' = attr
    BY <2>1, NothingGoesBack, StreamGrows DEF LifeInv
  <2>3. cur' = r /\ taken' = slots[r] /\ repl' = kind /\ pc'[Worker] = "queued"
    BY <1>0, <1>3 DEF TakeSlot, Goto, TypeOK
  <2> QED
    BY <1>3, <2>1, <2>2, <2>3 DEF HandInv
<1>4. CASE IngestTerminalNone
  <2>1. PICK r \in Roots : r = NextPayload.root
    BY <1>4, TerminalTaken
  <2>2. CASE TakeSlot(r, "canceled")
    BY <1>3, <2>2
  <2>3. CASE UNCHANGED pc
    BY <1>1, <1>4, <2>3, TerminalTaken
  <2> QED
    BY <1>4, <2>1, <2>2, <2>3 DEF IngestTerminalNone
<1>5. CASE IngestTerminalEmit
  <2>1. PICK r \in Roots : r = NextPayload.root
    BY <1>5, TerminalTaken
  <2>2. norm'[r] = "completed" /\ norm[r] = "pending"
    BY <1>5, <2>1, TerminalTaken DEF IngestTerminalEmit
  <2>3. CASE TakeSlot(r, "ready")
    BY <1>3, <2>2, <2>3
  <2>4. CASE slots[r] = None /\ cur' = r /\ Goto(Worker, "direct")
    <3>1. ~attr[r].hint /\ attr' = attr
      BY <2>2, <2>4, StreamGrows DEF LifeInv, RootInv
    <3>2. pc'[Worker] = "direct"
      BY <1>0, <2>4 DEF Goto, TypeOK
    <3> QED
      BY <2>2, <2>4, <3>1, <3>2 DEF HandInv
  <2>5. CASE UNCHANGED pc
    BY <1>1, <1>5, <2>5, TerminalTaken
  <2> QED
    BY <1>5, <2>1, <2>3, <2>4, <2>5 DEF IngestTerminalEmit
<1>6. CASE DirectEffect \/ ReplacePendingRoot
  <2>1. pc'[Worker] \in {"idle", "pop", "release"}
    BY <1>0, <1>6 DEF DirectEffect, ReplacePendingRoot, Goto, AfterReplace, TypeOK
  <2> QED
    BY <1>1, <2>1
<1>7. ASSUME NEW t \in Tasks, DrainStep(t) PROVE HandInv'
  <2>1. CASE t = Worker
    <3>1. pc'[Worker] \in {"idle", "run", "release"}
      BY <1>0, <1>7, <2>1
      DEF DrainStep, PopReady, RunEntry, ReleaseLock, FinishEntry, AfterEntry, Goto, TypeOK
    <3> QED
      BY <1>1, <3>1
  <2>2. CASE t # Worker
    <3>1. \E label : Goto(t, label)
      BY <1>7 DEF DrainStep, PopReady, RunEntry, ReleaseLock, FinishEntry
    <3>2. pc'[Worker] = pc[Worker]
      BY <1>0, <2>2, <3>1 DEF Goto, TypeOK
    <3>3. UNCHANGED <<cur, taken, repl>>
      BY <1>7, <2>2 DEF DrainStep, PopReady, RunEntry, ReleaseLock, workerVars
    <3> QED
      BY <1>2, <3>2, <3>3
  <2> QED
    BY <2>1, <2>2
<1>8. ASSUME NEW c \in Clients, ClientStep(c) \/ RequestCheckpoint(c) \/ IngestWaitTimesOut(c)
      PROVE  HandInv'
  <2>1. UNCHANGED <<cur, taken, repl>> /\ \E label : Goto(c, label)
    BY <1>8 DEF ClientStep, IngestCaughtUp, AppendCheckpoint, ReceiveReply, RequestCheckpoint,
                IngestWaitTimesOut, workerVars
  <2> QED
    BY <1>0, <1>2, <2>1 DEF Goto, TypeOK
<1>9. CASE GitStep \/ IngestStart \/ IngestTerminalError \/ GcStep \/ UNCHANGED vars
  <2>1. UNCHANGED <<pc, cur, taken, repl>>
    BY <1>9 DEF GitStep, GitBegins, EmitStart, EmitExit, EmitAtexit, ConnectionLost, Emit,
                IngestStart, IngestTerminalError, GcStep, GcSequencers, GcLocks, vars, workerVars
  <2> QED
    BY <1>2, <2>1
<1> QED
  BY <1>4, <1>5, <1>6, <1>7, <1>8, <1>9 DEF Next, DaemonStep, WorkerStep

\* A side effect that a task runs is that of a completed command or of a served
\* request.
LEMMA RanGrows ==
    ASSUME Inv1, NEW w \in Roots \cup Clients, effects' = Append(effects, w)
    PROVE  /\ Len(effects') = Len(effects) + 1
           /\ \A i \in 1..Len(effects) : effects'[i] = effects[i]
           /\ effects'[Len(effects) + 1] = w
           /\ \A x : Ran(x)' <=> Ran(x) \/ x = w
<1>1. effects \in Seq(Roots \cup Clients)
  BY DEF Inv1, TypeOK
<1>2. PICK n \in Nat : n = Len(effects)
  BY <1>1
<1>3. /\ Len(effects') = n + 1
      /\ \A i \in 1..n : effects'[i] = effects[i]
      /\ effects'[n + 1] = w
  BY <1>1, <1>2
<1>4. \A i \in 1..(n + 1) : i \in 1..n \/ i = n + 1
  BY <1>2
<1>5. \A i \in 1..n : i \in 1..(n + 1)
  BY <1>2
<1>6. n + 1 \in 1..(n + 1)
  BY <1>2
<1>7. \A x : Ran(x)' <=> Ran(x) \/ x = w
  BY <1>2, <1>3, <1>4, <1>5, <1>6 DEF Ran
<1> QED
  BY <1>2, <1>3, <1>7

\* What one turn of the loop over the popped entries does to the history.
RunsEntry(t, e) ==
    /\ pc[t] = "run"
    /\ IsFirst(e, ready[t])
    /\ ready' = [ready EXCEPT ![t] = @ \ {e}]
    /\ Goto(t, AfterEntry(ready[t] \ {e}))
    /\ \/ e.kind = "canceled" /\ effects' = effects
       \/ e.kind # "canceled" /\ effects' = Append(effects, e.who)

LEMMA RunEntryRuns ==
    ASSUME NEW t \in Tasks, RunEntry(t)
    PROVE  \E e \in ready[t] : RunsEntry(t, e)
<1>1. PICK e \in ready[t] :
         /\ IsFirst(e, ready[t])
         /\ \/ /\ e.kind = "canceled"
               /\ FinishEntry(t, e, "ok")
               /\ UNCHANGED <<effects, failures>>
            \/ /\ e.kind # "canceled"
               /\ effects' = Append(effects, e.who)
               /\ FinishEntry(t, e, "ok") \/ FinishEntry(t, e, "error")
  BY DEF RunEntry
<1>2. pc[t] = "run"
  BY DEF RunEntry
<1>3. /\ ready' = [ready EXCEPT ![t] = @ \ {e}]
      /\ Goto(t, AfterEntry(ready[t] \ {e}))
  BY <1>1 DEF FinishEntry
<1> QED
  BY <1>1, <1>2, <1>3 DEF RunsEntry

LEMMA RanStep ==
    ASSUME Inv1, LifeInv, [Next]_vars
    PROVE  RanInv'
<1> USE DEF Inv1
<1>0. Roots \cap Clients = {}
  BY SequencerAssumption
<1>1. /\ \A r \in Roots : norm[r] = "completed" => norm'[r] = "completed"
      /\ \A c \in Clients : pc[c] \in Served /\ request[c].through <= processed =>
            pc'[c] \in Served /\ request'[c].through <= processed'
  <2>1. /\ \A r \in Roots : norm[r] = "completed" => norm'[r] = "completed"
        /\ \A c \in Clients : pc[c] \in Served =>
              pc'[c] \in Served /\ pc[c] # "idle" /\ request'[c] = request[c]
    BY NothingGoesBack DEF LifeInv, Served
  <2>2. processed \in Nat /\ processed' \in Nat /\ processed <= processed'
    BY StreamGrows, TypeStep DEF TypeOK
  <2>3. \A c \in Clients : pc[c] # "idle" => request[c].through \in Nat
    BY DEF LifeInv, RequestInv
  <2>4. \A c \in Clients : pc[c] # "idle" /\ request[c].through <= processed =>
            request[c].through <= processed'
    BY <2>2, <2>3
  <2> QED
    BY <2>1, <2>4
<1>2. CASE effects' = effects
  BY <1>1, <1>2 DEF LifeInv, RanInv, Ran
<1>3. ASSUME NEW w \in Roots \cup Clients, effects' = Append(effects, w),
             w \in Roots => norm[w] = "completed",
             w \in Clients => pc[w] \in Served /\ request[w].through <= processed
      PROVE  RanInv'
  BY <1>1, <1>3, RanGrows DEF LifeInv, RanInv
<1>4. CASE DirectEffect
  <2>1. cur \in Roots /\ norm[cur] = "completed" /\ effects' = Append(effects, cur)
    BY <1>4 DEF DirectEffect, ControlInv, LifeInv, HandInv
  <2> QED
    BY <1>0, <1>3, <2>1
<1>5. ASSUME NEW t \in Tasks, RunEntry(t) PROVE RanInv'
  <2>1. PICK e \in ready[t] : RunsEntry(t, e)
    BY <1>5, RunEntryRuns
  <2>2. e \in Entry /\ e.kind # "pending" /\ WellPlaced(e, TaskFamily(t))
    BY DEF TypeOK, LifeInv, EntriesInv
  <2>3. e.kind # "canceled" => e.kind = "ready" \/ e.kind = "checkpoint"
    BY <2>2 DEF Entry, Kinds
  <2>4. e.who \in Roots \cup Clients
    BY <2>2 DEF Entry
  <2>5. e.kind # "canceled" =>
          /\ e.who \in Roots => norm[e.who] = "completed"
          /\ e.who \in Clients => pc[e.who] \in Served /\ request[e.who].through <= processed
    BY <1>0, <2>2, <2>3 DEF WellPlaced
  <2> QED
    BY <1>2, <1>3, <2>1, <2>4, <2>5 DEF RunsEntry
<1>6. \/ effects' = effects
      \/ DirectEffect
      \/ \E t \in Tasks : RunEntry(t)
  BY DEF Next, GitStep, GitBegins, EmitStart, EmitExit, EmitAtexit, ConnectionLost, Emit,
         DaemonStep, WorkerStep, IngestStart, IngestTerminalError, IngestTerminalNone,
         IngestTerminalEmit, ReplacePendingRoot, ClientStep, IngestCaughtUp,
         AppendCheckpoint, ReceiveReply, RequestCheckpoint, IngestWaitTimesOut, DrainStep,
         PopReady, ReleaseLock, GcStep, GcSequencers, GcLocks, vars
<1> QED
  BY <1>2, <1>4, <1>5, <1>6

\* A step that adds only well placed entries to the map, and leaves what was
\* popped, and by whom, alone.
LEMMA EntriesFrame ==
    ASSUME Inv1, LifeInv, [Next]_vars,
           \A f \in Families : \A e \in entries'[f] : e \in entries[f] \/ WellPlaced(e, f)',
           ready' = ready,
           \A t \in Tasks : ready[t] # {} => pc'[t] = pc[t] /\ TaskFamily(t)' = TaskFamily(t),
           \A r \in Roots : slots'[r] \in {slots[r], None} \/ slots'[r][1] = startedAt'[r]
    PROVE  EntriesInv'
<1> USE DEF Inv1
<1>1. \A f \in Families : \A e \in entries'[f] : WellPlaced(e, f)'
  <2>1. SUFFICES ASSUME NEW f \in Families, NEW e \in entries[f] PROVE WellPlaced(e, f)'
    OBVIOUS
  <2>2. e \in Entry /\ WellPlaced(e, f)
    BY DEF TypeOK, LifeInv, EntriesInv
  <2> QED
    BY <2>2, WellPlacedStays
<1>2. ASSUME NEW t \in Tasks, NEW e \in ready[t]
      PROVE  e.kind # "pending" /\ WellPlaced(e, TaskFamily(t))'
  <2>1. PICK f : f = TaskFamily(t)
    OBVIOUS
  <2>2. e \in Entry /\ e.kind # "pending" /\ WellPlaced(e, f)
    BY <2>1 DEF TypeOK, LifeInv, EntriesInv
  <2>3. WellPlaced(e, f)' /\ TaskFamily(t)' = f
    BY <2>1, <2>2, WellPlacedStays
  <2> QED
    BY <2>2, <2>3 DEF WellPlaced
<1>3. \A t \in Tasks : ready'[t] # {} => pc'[t] = "run"
  BY DEF LifeInv, EntriesInv
<1>4. ASSUME NEW r \in Roots, slots'[r] # None PROVE slots'[r][1] = startedAt'[r]
  <2>1. slots[r] # None => slots[r][1] = startedAt[r] /\ startedAt'[r] = startedAt[r]
    BY NothingGoesBack DEF LifeInv, EntriesInv, RootInv
  <2> QED
    BY <1>4, <2>1
<1> QED
  BY <1>1, <1>2, <1>3, <1>4 DEF EntriesInv

\* What the worker puts into the place it has taken.
LEMMA ReplacementPlaced ==
    ASSUME Inv1, LifeInv, pc[Worker] = "queued"
    PROVE  /\ [order |-> taken, kind |-> repl, who |-> cur] \in Entry
           /\ WellPlaced([order |-> taken, kind |-> repl, who |-> cur], FamilyOf[cur])
BY DEF Inv1, TypeOK, ControlInv, Entry, Kinds, LifeInv, HandInv, WellPlaced

LEMMA EntriesStep ==
    ASSUME Inv1, LifeInv, [Next]_vars
    PROVE  EntriesInv'
<1> USE DEF Inv1
<1>0. /\ Worker \in Tasks /\ \A d \in Clients : d \in Tasks /\ d # Worker
      /\ \A t \in Tasks : t = Worker \/ t \in Clients
  BY SequencerAssumption DEF Tasks
<1>1. \A t \in Tasks : ready[t] # {} => pc[t] = "run"
  BY DEF LifeInv, EntriesInv
<1>2. ASSUME UNCHANGED <<entries, ready, slots, pc, cur>> PROVE EntriesInv'
  BY <1>2, EntriesFrame DEF TaskFamily
<1>3. CASE GitStep \/ IngestTerminalError \/ GcLocks \/ UNCHANGED vars
  BY <1>2, <1>3
  DEF GitStep, GitBegins, EmitStart, EmitExit, EmitAtexit, ConnectionLost, Emit,
      IngestTerminalError, GcLocks, vars, seqVars, workerVars
<1>4. CASE GcSequencers
  <2>1. entries' = entries
    BY <1>4 DEF GcSequencers, NoEntries, TypeOK
  <2> QED
    BY <1>2, <1>4, <2>1 DEF GcSequencers, workerVars
<1>5. CASE IngestStart
  <2>1. PICK r \in Roots : r = NextPayload.root
    BY <1>5, StartTaken
  <2> DEFINE f == FamilyOf[r]
             o == <<startedAt[r], nextOrdinal[f]>>
  <2>2. CASE UNCHANGED seqVars
    BY <1>2, <1>5, <2>2 DEF IngestStart, seqVars, workerVars
  <2>3. CASE /\ attr[r].hint /\ slots[r] = None
             /\ entries' = [entries EXCEPT ![f] = Insert(entries[f], Pending(o, r))]
             /\ slots' = [slots EXCEPT ![r] = o]
    <3>1. norm'[r] = "pending" /\ attr' = attr /\ startedAt' = startedAt
      BY <1>5, <2>1 DEF IngestStart, TypeOK, envVars
    <3>2. StartProcessed(r)'
      BY <3>1, RootStep DEF RootInv
    <3>3. PICK e : e = Pending(o, r)
      OBVIOUS
    <3>4. e.kind = "pending" /\ e.who = r /\ e.order[1] = startedAt[r]
      BY <3>3 DEF Pending
    <3>5. WellPlaced(e, FamilyOf[r])'
      BY <2>3, <3>1, <3>2, <3>4 DEF WellPlaced
    <3>6. \A g \in Families : \A x \in entries'[g] : x \in entries[g] \/ WellPlaced(x, g)'
      <4>1. SUFFICES ASSUME NEW g \in Families, NEW x \in entries'[g], x \notin entries[g]
                     PROVE  WellPlaced(x, g)'
        OBVIOUS
      <4>2. g = FamilyOf[r] /\ x = e
        BY <2>3, <3>3, <4>1 DEF TypeOK, Insert
      <4> QED
        BY <3>5, <4>2
    <3>7. \A q \in Roots : slots'[q] = slots[q] \/ slots'[q][1] = startedAt'[q]
      BY <2>3, <3>1 DEF TypeOK
    <3>8. UNCHANGED <<ready, pc, cur>>
      BY <1>5 DEF IngestStart, workerVars
    <3> QED
      BY <3>6, <3>7, <3>8, EntriesFrame DEF TaskFamily
  <2> QED
    BY <1>5, <2>1, <2>2, <2>3 DEF IngestStart, AppendPendingRoot
<1>6. CASE IngestTerminalNone \/ IngestTerminalEmit
  <2>1. pc[Worker] = "idle" /\ NextPayload.root \in Roots
    BY <1>6, TerminalTaken
  <2>2. /\ UNCHANGED <<entries, ready>>
        /\ \A r \in Roots : slots'[r] \in {slots[r], None}
        /\ pc' = pc \/ \E label : Goto(Worker, label)
    BY <1>6, <2>1 DEF IngestTerminalNone, IngestTerminalEmit, TakeSlot, TypeOK, seqVars
  <2>3. \A t \in Tasks : t # Worker => pc'[t] = pc[t] /\ TaskFamily(t)' = TaskFamily(t)
    BY <1>0, <2>2 DEF Goto, TypeOK, TaskFamily
  <2> QED
    BY <1>1, <2>1, <2>2, <2>3, EntriesFrame
<1>7. CASE DirectEffect
  <2>1. /\ UNCHANGED <<entries, ready, slots>> /\ pc[Worker] = "direct"
        /\ \E label : Goto(Worker, label)
    BY <1>7 DEF DirectEffect, seqVars
  <2>2. \A t \in Tasks : t # Worker => pc'[t] = pc[t] /\ TaskFamily(t)' = TaskFamily(t)
    BY <1>0, <2>1 DEF Goto, TypeOK, TaskFamily
  <2> QED
    BY <1>1, <2>1, <2>2, EntriesFrame
<1>8. CASE ReplacePendingRoot
  <2>1. PICK e : e = [order |-> taken, kind |-> repl, who |-> cur]
    OBVIOUS
  <2>2. e \in Entry /\ WellPlaced(e, FamilyOf[cur]) /\ pc[Worker] = "queued"
    BY <1>8, <2>1, ReplacementPlaced DEF ReplacePendingRoot
  <2>3. PICK f : f = FamilyOf[cur]
    OBVIOUS
  <2>4. WellPlaced(e, f)'
    BY <2>2, <2>3, WellPlacedStays
  <2>5. \A g \in Families : \A x \in entries'[g] : x \in entries[g] \/ (g = f /\ x = e)
    BY <1>8, <2>1, <2>3 DEF ReplacePendingRoot, Insert, TypeOK
  <2>6. /\ UNCHANGED <<ready, slots, cur>>
        /\ \E label : Goto(Worker, label)
    BY <1>8 DEF ReplacePendingRoot, workerVars
  <2>7. \A t \in Tasks : /\ t # Worker => pc'[t] = pc[t]
                         /\ TaskFamily(t)' = TaskFamily(t)
    BY <1>0, <2>6 DEF Goto, TypeOK, TaskFamily
  <2> QED
    BY <1>1, <2>2, <2>4, <2>5, <2>6, <2>7, EntriesFrame
<1>9. ASSUME NEW c \in Clients,
             \/ RequestCheckpoint(c) \/ IngestCaughtUp(c) \/ IngestWaitTimesOut(c)
             \/ ReceiveReply(c)
      PROVE  EntriesInv'
  <2>1. /\ UNCHANGED <<entries, ready, slots, cur>>
        /\ pc[c] # "run"
        /\ \E label : Goto(c, label)
    BY <1>9 DEF RequestCheckpoint, IngestCaughtUp, IngestWaitTimesOut, ReceiveReply, seqVars,
                workerVars
  <2>2. \A t \in Tasks : /\ t # c => pc'[t] = pc[t]
                         /\ TaskFamily(t)' = TaskFamily(t)
    BY <1>0, <2>1 DEF Goto, TypeOK, TaskFamily
  <2> QED
    BY <1>1, <2>1, <2>2, EntriesFrame
<1>10. ASSUME NEW c \in Clients, AppendCheckpoint(c) PROVE EntriesInv'
  <2>1. PICK e : e = [order |-> <<clock', nextOrdinal[RepoOf[c]]>>,
                      kind |-> "checkpoint", who |-> c]
    OBVIOUS
  <2>2. /\ pc'[c] = "pop" /\ pc[c] = "queued"
        /\ \A t \in Tasks : t # c => pc'[t] = pc[t]
        /\ UNCHANGED <<ready, slots, cur, request, processed>>
    BY <1>0, <1>10 DEF AppendCheckpoint, Goto, TypeOK, workerVars, clientVars
  <2>3. WellPlaced(e, RepoOf[c])'
    BY <2>1, <2>2 DEF WellPlaced, Served, LifeInv, RequestInv
  <2>4. \A g \in Families : \A x \in entries'[g] : x \in entries[g] \/ (g = RepoOf[c] /\ x = e)
    BY <1>10, <2>1 DEF AppendCheckpoint, Insert, TypeOK
  <2>5. \A t \in Tasks : TaskFamily(t)' = TaskFamily(t)
    BY <2>2 DEF TaskFamily
  <2> QED
    BY <1>1, <2>2, <2>3, <2>4, <2>5, EntriesFrame
<1>11. ASSUME NEW t \in Tasks, PopReady(t) PROVE EntriesInv'
  <2>1. PICK f \in Families : f = TaskFamily(t)
    BY <1>11, TaskFamilyType DEF PopReady
  <2>2. /\ entries'[f] \subseteq entries[f]
        /\ \A g \in Families : g # f => entries'[g] = entries[g]
        /\ ready'[t] = ReadyPrefix(entries[f])
        /\ \A s \in Tasks : s # t => ready'[s] = ready[s] /\ pc'[s] = pc[s]
        /\ ready'[t] # {} => pc'[t] = "run"
        /\ UNCHANGED <<slots, cur, startedAt>>
    BY <1>11, <2>1 DEF PopReady, AfterPop, Goto, AfterEntry, TypeOK, workerVars, envVars
  <2>3. \A s \in Tasks : TaskFamily(s)' = TaskFamily(s)
    BY <2>2 DEF TaskFamily
  <2>4. ASSUME NEW g \in Families, NEW e \in entries[g] PROVE WellPlaced(e, g)'
    <3>1. e \in Entry /\ WellPlaced(e, g)
      BY DEF TypeOK, LifeInv, EntriesInv
    <3> QED
      BY <3>1, WellPlacedStays
  <2>5. ASSUME NEW s \in Tasks, NEW e \in ready[s]
        PROVE  e.kind # "pending" /\ WellPlaced(e, TaskFamily(s))'
    <3>1. PICK g : g = TaskFamily(s)
      OBVIOUS
    <3>2. e \in Entry /\ e.kind # "pending" /\ WellPlaced(e, g)
      BY <3>1 DEF TypeOK, LifeInv, EntriesInv
    <3>3. WellPlaced(e, g)' /\ TaskFamily(s)' = g
      BY <2>3, <3>1, <3>2, WellPlacedStays
    <3> QED
      BY <3>2, <3>3 DEF WellPlaced
  <2>6. ASSUME NEW e \in ready'[t] PROVE e.kind # "pending" /\ WellPlaced(e, TaskFamily(t))'
    <3>1. e \in entries[f] /\ e.kind # "pending"
      BY <2>2, <2>6 DEF ReadyPrefix
    <3>2. WellPlaced(e, f)' /\ TaskFamily(t)' = f
      BY <2>1, <2>3, <2>4, <3>1
    <3> QED
      BY <3>1, <3>2 DEF WellPlaced
  <2> QED
    BY <1>1, <2>2, <2>4, <2>5, <2>6 DEF EntriesInv, LifeInv
<1>12. ASSUME NEW t \in Tasks, RunEntry(t) PROVE EntriesInv'
  <2>1. PICK e \in ready[t] : RunsEntry(t, e)
    BY <1>12, RunEntryRuns
  <2>2. /\ ready'[t] = ready[t] \ {e}
        /\ \A s \in Tasks : s # t => ready'[s] = ready[s] /\ pc'[s] = pc[s]
        /\ ready'[t] # {} => pc'[t] = "run"
    BY <2>1 DEF RunsEntry, Goto, AfterEntry, TypeOK
  <2>3. UNCHANGED <<slots, cur, startedAt, entries>>
    BY <1>12 DEF RunEntry, seqVars, workerVars, envVars
  <2>4. ASSUME NEW g \in Families, NEW x \in entries[g] PROVE WellPlaced(x, g)'
    <3>1. x \in Entry /\ WellPlaced(x, g)
      BY DEF TypeOK, LifeInv, EntriesInv
    <3> QED
      BY <3>1, WellPlacedStays
  <2>5. ASSUME NEW s \in Tasks, NEW x \in ready[s]
        PROVE  x.kind # "pending" /\ WellPlaced(x, TaskFamily(s))'
    <3>1. PICK g : g = TaskFamily(s)
      OBVIOUS
    <3>2. x \in Entry /\ x.kind # "pending" /\ WellPlaced(x, g)
      BY <3>1 DEF TypeOK, LifeInv, EntriesInv
    <3>3. WellPlaced(x, g)' /\ TaskFamily(s)' = g
      BY <2>3, <3>1, <3>2, WellPlacedStays DEF TaskFamily
    <3> QED
      BY <3>2, <3>3 DEF WellPlaced
  <2> QED
    BY <1>1, <2>2, <2>3, <2>4, <2>5 DEF EntriesInv, LifeInv
<1>13. ASSUME NEW t \in Tasks, ReleaseLock(t) PROVE EntriesInv'
  <2>1. /\ UNCHANGED <<entries, ready, slots>>
        /\ pc[t] # "run"
        /\ \E label : Goto(t, label)
        /\ t # Worker => cur' = cur
    BY <1>13 DEF ReleaseLock, seqVars
  <2>2. \A s \in Tasks : s # t => pc'[s] = pc[s] /\ TaskFamily(s)' = TaskFamily(s)
    BY <1>0, <2>1 DEF Goto, TypeOK, TaskFamily
  <2> QED
    BY <1>1, <2>1, <2>2, EntriesFrame
<1> QED
  BY <1>3, <1>4, <1>5, <1>6, <1>7, <1>8, <1>9, <1>10, <1>11, <1>12, <1>13
  DEF Next, DaemonStep, WorkerStep, ClientStep, DrainStep, GcStep

LEMMA LifeStep ==
    ASSUME Inv1, LifeInv, [Next]_vars
    PROVE  LifeInv'
BY StreamStep, RootStep, HandStep, EntriesStep, RequestStep, RanStep DEF LifeInv

-----------------------------------------------------------------------------
(* One place at a time.                                                     *)

\* A step that runs nothing, adds no effective entry and puts nothing into the
\* worker's hands.
LEMMA UseFrame ==
    ASSUME UseInv, effects' = effects,
           \A f \in Families : \A e \in entries'[f] : Effective(e) => e \in entries[f],
           \A t \in Tasks : ready'[t] \subseteq ready[t],
           \A r \in Roots : InHand(r)' => InHand(r)
    PROVE  UseInv'
<1>1. EffectsAtMostOnce' /\ \A x : Ran(x)' <=> Ran(x)
  BY DEF UseInv, EffectsAtMostOnce, Ran
<1>2. \A r \in Roots : InHand(r)' =>
          /\ ~Ran(r)'
          /\ \A f \in Families : \A e \in entries'[f] : Effective(e) => e.who # r
          /\ \A t \in Tasks : \A e \in ready'[t] : Effective(e) => e.who # r
  BY <1>1 DEF UseInv
<1>3. \A f \in Families : \A e \in entries'[f] : Effective(e) =>
          /\ ~Ran(e.who)'
          /\ \A d \in entries'[f] : Effective(d) /\ d.who = e.who => d = e
          /\ \A t \in Tasks : \A d \in ready'[t] : Effective(d) => d.who # e.who
  BY <1>1 DEF UseInv
<1>4. \A t \in Tasks : \A e \in ready'[t] : Effective(e) =>
          /\ ~Ran(e.who)'
          /\ \A s \in Tasks : \A d \in ready'[s] :
                Effective(d) /\ d.who = e.who => s = t /\ d = e
  BY <1>1 DEF UseInv
<1> QED
  BY <1>1, <1>2, <1>3, <1>4 DEF UseInv, Effective

\* Whoever has no place has none: a root that is not completed, and a request
\* that is not served.
LEMMA NotInUse ==
    ASSUME Inv1, LifeInv, NEW x \in Roots \cup Clients,
           x \in Roots => norm[x] # "completed",
           x \in Clients => pc[x] \notin Served
    PROVE  /\ ~Ran(x)
           /\ \A f \in Families : \A e \in entries[f] : Effective(e) => e.who # x
           /\ \A t \in Tasks : \A e \in ready[t] : Effective(e) => e.who # x
<1>1. ~Ran(x)
  BY DEF LifeInv, RanInv
<1>2. ASSUME NEW e, NEW f, WellPlaced(e, f), Effective(e) PROVE e.who # x
  BY <1>2, SequencerAssumption DEF WellPlaced, Effective
<1> QED
  BY <1>1, <1>2 DEF LifeInv, EntriesInv

\* Every entry in the map or popped belongs to one family.
LEMMA OneFamily ==
    ASSUME Inv1, LifeInv, NEW f \in Families, NEW d \in entries[f],
           NEW g \in Families, NEW e \in entries[g],
           Effective(d), Effective(e), d.who = e.who
    PROVE  f = g
BY SequencerAssumption DEF LifeInv, EntriesInv, WellPlaced, Effective

\* A new effective entry of somebody who has no place, or whose command the
\* worker has in its hands and then no longer.
LEMMA UseAppend ==
    ASSUME Inv1, LifeInv, UseInv, effects' = effects, ready' = ready,
           NEW f \in Families, NEW e,
           \A g \in Families : \A x \in entries'[g] : x \in entries[g] \/ (g = f /\ x = e),
           Effective(e),
           ~Ran(e.who),
           \A g \in Families : \A d \in entries[g] : Effective(d) => d.who # e.who,
           \A t \in Tasks : \A d \in ready[t] : Effective(d) => d.who # e.who,
           \A r \in Roots : InHand(r)' => InHand(r) /\ r # e.who
    PROVE  UseInv'
<1>1. EffectsAtMostOnce' /\ \A x : Ran(x)' <=> Ran(x)
  BY DEF UseInv, EffectsAtMostOnce, Ran
<1>2. \A r \in Roots : InHand(r)' =>
          /\ ~Ran(r)'
          /\ \A g \in Families : \A x \in entries'[g] : Effective(x) => x.who # r
          /\ \A t \in Tasks : \A x \in ready'[t] : Effective(x) => x.who # r
  BY <1>1 DEF UseInv
<1>3. \A g \in Families : \A x \in entries'[g] : Effective(x) =>
          /\ ~Ran(x.who)'
          /\ \A d \in entries'[g] : Effective(d) /\ d.who = x.who => d = x
          /\ \A t \in Tasks : \A d \in ready'[t] : Effective(d) => d.who # x.who
  BY <1>1 DEF UseInv
<1>4. \A t \in Tasks : \A x \in ready'[t] : Effective(x) =>
          /\ ~Ran(x.who)'
          /\ \A s \in Tasks : \A d \in ready'[s] :
                Effective(d) /\ d.who = x.who => s = t /\ d = x
  BY <1>1 DEF UseInv
<1> QED
  BY <1>1, <1>2, <1>3, <1>4 DEF UseInv, Effective

\* The side effect of w runs, and w has no other place afterwards.
LEMMA UseRun ==
    ASSUME Inv1, UseInv, NEW w \in Roots \cup Clients, effects' = Append(effects, w),
           entries' = entries,
           ~Ran(w),
           \A t \in Tasks : ready'[t] \subseteq ready[t],
           \A r \in Roots : InHand(r)' => InHand(r) /\ r # w,
           \A f \in Families : \A e \in entries[f] : Effective(e) => e.who # w,
           \A t \in Tasks : \A e \in ready'[t] : Effective(e) => e.who # w
    PROVE  UseInv'
<1>1. /\ Len(effects') = Len(effects) + 1
      /\ \A i \in 1..Len(effects) : effects'[i] = effects[i]
      /\ effects'[Len(effects) + 1] = w
      /\ \A x : Ran(x)' <=> Ran(x) \/ x = w
  BY RanGrows
<1>2. EffectsAtMostOnce'
  <2>1. PICK n \in Nat : n = Len(effects)
    <3>1. effects \in Seq(Roots \cup Clients)
      BY DEF Inv1, TypeOK
    <3> QED
      BY <3>1
  <2>2. \A i \in 1..n : effects[i] # w
    BY <2>1 DEF Ran
  <2>3. \A i \in 1..(n + 1) : i \in 1..n \/ i = n + 1
    BY <2>1
  <2> QED
    BY <1>1, <2>1, <2>2, <2>3 DEF UseInv, EffectsAtMostOnce
<1>3. \A r \in Roots : InHand(r)' =>
          /\ ~Ran(r)'
          /\ \A f \in Families : \A e \in entries'[f] : Effective(e) => e.who # r
          /\ \A t \in Tasks : \A e \in ready'[t] : Effective(e) => e.who # r
  BY <1>1 DEF UseInv
<1>4. \A f \in Families : \A e \in entries'[f] : Effective(e) =>
          /\ ~Ran(e.who)'
          /\ \A d \in entries'[f] : Effective(d) /\ d.who = e.who => d = e
          /\ \A t \in Tasks : \A d \in ready'[t] : Effective(d) => d.who # e.who
  BY <1>1 DEF UseInv
<1>5. \A t \in Tasks : \A e \in ready'[t] : Effective(e) =>
          /\ ~Ran(e.who)'
          /\ \A s \in Tasks : \A d \in ready'[s] :
                Effective(d) /\ d.who = e.who => s = t /\ d = e
  BY <1>1 DEF UseInv
<1> QED
  BY <1>2, <1>3, <1>4, <1>5 DEF UseInv, Effective

LEMMA UseStep ==
    ASSUME Inv1, LifeInv, UseInv, [Next]_vars
    PROVE  UseInv'
<1> USE DEF Inv1
<1>0. /\ Worker \in Tasks /\ \A d \in Clients : d \in Tasks /\ d # Worker
      /\ \A t \in Tasks : t = Worker \/ t \in Clients
      /\ Roots \cap Clients = {}
  BY SequencerAssumption DEF Tasks
<1>1. CASE GitStep \/ IngestTerminalError \/ GcStep \/ UNCHANGED vars
  <2>1. UNCHANGED <<effects, ready, pc, cur, repl>>
    BY <1>1 DEF GitStep, GitBegins, EmitStart, EmitExit, EmitAtexit, ConnectionLost, Emit,
                IngestTerminalError, GcStep, GcSequencers, GcLocks, vars, workerVars
  <2>2. \A f \in Families : entries'[f] \subseteq entries[f]
    BY <1>1 DEF GitStep, GitBegins, EmitStart, EmitExit, EmitAtexit, ConnectionLost, Emit,
                IngestTerminalError, GcStep, GcSequencers, GcLocks, vars, seqVars
  <2> QED
    BY <2>1, <2>2, UseFrame DEF InHand
<1>2. CASE IngestStart
  <2>1. NextPayload.root \in Roots /\ FamilyOf[NextPayload.root] \in Families
    BY <1>2, StartTaken, SequencerAssumption
  <2>2. UNCHANGED <<effects, ready, pc, cur, repl>>
    BY <1>2 DEF IngestStart, workerVars
  <2>3. \A f \in Families : \A e \in entries'[f] : Effective(e) => e \in entries[f]
    <3>1. PICK r \in Roots, f \in Families : r = NextPayload.root /\ f = FamilyOf[r]
      BY <2>1
    <3>2. \/ entries' = entries
          \/ \E o : entries' = [entries EXCEPT ![f] = Insert(@, Pending(o, r))]
      BY <1>2, <3>1 DEF IngestStart, AppendPendingRoot, seqVars
    <3>3. CASE entries' = entries
      BY <3>3
    <3>4. ASSUME NEW o, entries' = [entries EXCEPT ![f] = Insert(@, Pending(o, r))],
                 NEW g \in Families, NEW e \in entries'[g], Effective(e)
          PROVE  e \in entries[g]
      <4>1. ~Effective(Pending(o, r))
        BY DEF Effective, Pending
      <4> QED
        BY <3>4, <4>1 DEF Insert, TypeOK
    <3> QED
      BY <3>2, <3>3, <3>4
  <2> QED
    BY <2>2, <2>3, UseFrame DEF InHand
<1>3. CASE IngestTerminalNone
  <2>1. UNCHANGED <<effects, ready, entries>>
    BY <1>3 DEF IngestTerminalNone, TakeSlot, seqVars
  <2>2. pc[Worker] = "idle"
    BY <1>3, TerminalTaken
  <2>3. \A r \in Roots : ~InHand(r)'
    BY <1>0, <1>3, <2>2 DEF IngestTerminalNone, TakeSlot, Goto, InHand, TypeOK
  <2> QED
    BY <2>1, <2>3, UseFrame
<1>4. CASE IngestTerminalEmit
  <2>1. PICK r \in Roots : r = NextPayload.root
    BY <1>4, TerminalTaken
  <2>2. UNCHANGED <<effects, ready, entries>> /\ norm[r] = "pending"
    BY <1>4, <2>1 DEF IngestTerminalEmit, TakeSlot, seqVars
  <2>3. pc[Worker] = "idle"
    BY <1>4, TerminalTaken
  <2>4. \A q \in Roots : InHand(q)' => q = r
    BY <1>4, <2>1, <2>3 DEF IngestTerminalEmit, TakeSlot, InHand
  <2>5. /\ ~Ran(r)
        /\ \A f \in Families : \A e \in entries[f] : Effective(e) => e.who # r
        /\ \A t \in Tasks : \A e \in ready[t] : Effective(e) => e.who # r
    BY <1>0, <2>2, NotInUse
  <2>6. EffectsAtMostOnce' /\ \A x : Ran(x)' <=> Ran(x)
    BY <2>2 DEF UseInv, EffectsAtMostOnce, Ran
  <2> QED
    BY <2>2, <2>4, <2>5, <2>6 DEF UseInv
<1>5. CASE DirectEffect
  <2>1. /\ cur \in Roots /\ effects' = Append(effects, cur)
        /\ UNCHANGED <<entries, ready>>
        /\ pc[Worker] = "direct"
    BY <1>5 DEF DirectEffect, ControlInv, seqVars
  <2>2. InHand(cur)
    BY <2>1 DEF InHand
  <2>3. \A r \in Roots : ~InHand(r)'
    BY <1>0, <1>5 DEF DirectEffect, Goto, InHand, TypeOK
  <2>4. PICK w \in Roots : w = cur
    BY <2>1
  <2>5. /\ ~Ran(w)
        /\ \A f \in Families : \A e \in entries[f] : Effective(e) => e.who # w
        /\ \A t \in Tasks : \A e \in ready[t] : Effective(e) => e.who # w
    BY <2>2, <2>4 DEF UseInv
  <2> QED
    BY <2>1, <2>3, <2>4, <2>5, UseRun
<1>6. CASE ReplacePendingRoot
  <2>1. PICK r \in Roots, f \in Families : r = cur /\ f = FamilyOf[cur]
    BY <1>6, SequencerAssumption DEF ReplacePendingRoot, ControlInv
  <2>2. PICK e : e = [order |-> taken, kind |-> repl, who |-> cur]
    OBVIOUS
  <2>3. UNCHANGED <<effects, ready>> /\ pc[Worker] = "queued"
    BY <1>6 DEF ReplacePendingRoot
  <2>4. \A q \in Roots : ~InHand(q)'
    BY <1>0, <1>6 DEF ReplacePendingRoot, AfterReplace, Goto, InHand, TypeOK
  <2>5. \A g \in Families : \A x \in entries'[g] : x \in entries[g] \/ (g = f /\ x = e)
    BY <1>6, <2>1, <2>2 DEF ReplacePendingRoot, Insert, TypeOK
  <2>6. CASE Effective(e)
    <3>1. InHand(r) /\ e.who = r
      BY <2>1, <2>2, <2>3, <2>6 DEF InHand, Effective, TypeOK
    <3> QED
      BY <2>3, <2>4, <2>5, <2>6, <3>1, UseAppend DEF UseInv
  <2>7. CASE ~Effective(e)
    BY <2>3, <2>4, <2>5, <2>7, UseFrame
  <2> QED
    BY <2>6, <2>7
<1>7. ASSUME NEW c \in Clients,
             \/ RequestCheckpoint(c) \/ IngestCaughtUp(c) \/ IngestWaitTimesOut(c)
             \/ ReceiveReply(c)
      PROVE  UseInv'
  <2>1. UNCHANGED <<entries, ready, effects, cur, repl>> /\ \E label : Goto(c, label)
    BY <1>7 DEF RequestCheckpoint, IngestCaughtUp, IngestWaitTimesOut, ReceiveReply, seqVars,
                workerVars
  <2>2. pc'[Worker] = pc[Worker]
    BY <1>0, <2>1 DEF Goto, TypeOK
  <2> QED
    BY <2>1, <2>2, UseFrame DEF InHand
<1>8. ASSUME NEW c \in Clients, AppendCheckpoint(c) PROVE UseInv'
  <2>1. PICK e : e = [order |-> <<clock', nextOrdinal[RepoOf[c]]>>,
                      kind |-> "checkpoint", who |-> c]
    OBVIOUS
  <2>2. /\ pc[c] = "queued" /\ UNCHANGED <<ready, effects, cur, repl>>
        /\ pc'[Worker] = pc[Worker]
    BY <1>0, <1>8 DEF AppendCheckpoint, Goto, TypeOK, workerVars
  <2>3. PICK f \in Families : f = RepoOf[c]
    BY SequencerAssumption
  <2>4. \A g \in Families : \A x \in entries'[g] : x \in entries[g] \/ (g = f /\ x = e)
    BY <1>8, <2>1, <2>3 DEF AppendCheckpoint, Insert, TypeOK
  <2>5. /\ ~Ran(c)
        /\ \A g \in Families : \A x \in entries[g] : Effective(x) => x.who # c
        /\ \A t \in Tasks : \A x \in ready[t] : Effective(x) => x.who # c
    BY <1>0, <2>2, NotInUse DEF Served
  <2>6. Effective(e) /\ e.who = c
    BY <2>1 DEF Effective
  <2>7. \A r \in Roots : InHand(r)' => InHand(r) /\ r # c
    BY <1>0, <2>2 DEF InHand
  <2> QED
    BY <2>2, <2>4, <2>5, <2>6, <2>7, UseAppend
<1>9. ASSUME NEW t \in Tasks, PopReady(t) PROVE UseInv'
  <2>1. PICK f \in Families : f = TaskFamily(t)
    BY <1>9, TaskFamilyType DEF PopReady
  <2>2. /\ entries'[f] = entries[f] \ ready'[t]
        /\ ready'[t] \subseteq entries[f]
        /\ \A g \in Families : g # f => entries'[g] = entries[g]
        /\ \A s \in Tasks : s # t => ready'[s] = ready[s]
        /\ UNCHANGED <<effects, cur, repl>>
    BY <1>9, <2>1 DEF PopReady, AfterPop, ReadyPrefix, TypeOK, workerVars
  <2>3. \A r \in Roots : InHand(r)' => InHand(r)
    <3>1. \E label \in {"run", "release"} : Goto(t, label)
      BY <1>9 DEF PopReady, AfterEntry
    <3> QED
      BY <1>0, <2>2, <3>1 DEF Goto, InHand, TypeOK
  <2>4. ready[t] = {}
    BY <1>9 DEF PopReady, LifeInv, EntriesInv
  <2>5. EffectsAtMostOnce' /\ \A x : Ran(x)' <=> Ran(x)
    BY <2>2 DEF UseInv, EffectsAtMostOnce, Ran
  <2>6. \A g \in Families : entries'[g] \subseteq entries[g]
    BY <2>2
  <2>7. ASSUME NEW r \in Roots, InHand(r)'
        PROVE  /\ ~Ran(r)'
               /\ \A g \in Families : \A e \in entries'[g] : Effective(e) => e.who # r
               /\ \A s \in Tasks : \A e \in ready'[s] : Effective(e) => e.who # r
    BY <2>2, <2>3, <2>5, <2>6, <2>7 DEF UseInv
  <2>8. ASSUME NEW g \in Families, NEW e \in entries'[g], Effective(e)
        PROVE  /\ ~Ran(e.who)'
               /\ \A d \in entries'[g] : Effective(d) /\ d.who = e.who => d = e
               /\ \A s \in Tasks : \A d \in ready'[s] : Effective(d) => d.who # e.who
    <3>1. e \in entries[g]
      BY <2>6
    <3>2. \A d \in ready'[t] : Effective(d) => d.who # e.who
      <4>1. SUFFICES ASSUME NEW d \in ready'[t], Effective(d), d.who = e.who PROVE FALSE
        OBVIOUS
      <4>2. d \in entries[f] /\ f = g
        BY <2>2, <2>8, <3>1, <4>1, OneFamily
      <4>3. d = e
        BY <2>8, <3>1, <4>1, <4>2 DEF UseInv
      <4> QED
        BY <2>2, <2>8, <4>2, <4>3
    <3> QED
      BY <2>2, <2>5, <2>6, <2>8, <3>1, <3>2 DEF UseInv
  <2>9. ASSUME NEW s \in Tasks, NEW e \in ready'[s], Effective(e)
        PROVE  /\ ~Ran(e.who)'
               /\ \A u \in Tasks : \A d \in ready'[u] :
                     Effective(d) /\ d.who = e.who => u = s /\ d = e
    <3>1. CASE s = t
      BY <2>2, <2>5, <2>9, <3>1 DEF UseInv
    <3>2. CASE s # t
      BY <2>2, <2>5, <2>9, <3>2 DEF UseInv
    <3> QED
      BY <3>1, <3>2
  <2> QED
    BY <2>5, <2>7, <2>8, <2>9 DEF UseInv, Effective
<1>10. ASSUME NEW t \in Tasks, RunEntry(t) PROVE UseInv'
  <2>1. PICK e \in ready[t] : RunsEntry(t, e)
    BY <1>10, RunEntryRuns
  <2>2. /\ ready'[t] = ready[t] \ {e}
        /\ \A s \in Tasks : s # t => ready'[s] = ready[s]
        /\ UNCHANGED <<entries, cur, repl>>
    BY <1>10, <2>1 DEF RunsEntry, TypeOK, RunEntry, seqVars, workerVars
  <2>3. \A r \in Roots : InHand(r)' => InHand(r)
    <3>1. \E label \in {"run", "release"} : Goto(t, label)
      BY <2>1 DEF RunsEntry, AfterEntry
    <3> QED
      BY <1>0, <2>2, <3>1 DEF Goto, InHand, TypeOK
  <2>4. CASE effects' = effects
    BY <2>2, <2>3, <2>4, UseFrame
  <2>5. CASE e.kind # "canceled" /\ effects' = Append(effects, e.who)
    <3>1. e \in Entry /\ e.kind # "pending"
      BY DEF TypeOK, LifeInv, EntriesInv
    <3>2. Effective(e) /\ e.who \in Roots \cup Clients
      BY <2>5, <3>1 DEF Effective, Entry, Kinds
    <3>3. /\ ~Ran(e.who)
          /\ \A f \in Families : \A d \in entries[f] : Effective(d) => d.who # e.who
          /\ \A r \in Roots : InHand(r) => r # e.who
          /\ \A s \in Tasks : \A d \in ready[s] :
                Effective(d) /\ d.who = e.who => s = t /\ d = e
      BY <3>2 DEF UseInv
    <3>4. \A s \in Tasks : ready'[s] \subseteq ready[s]
      BY <2>2
    <3>5. \A s \in Tasks : \A d \in ready'[s] : Effective(d) => d.who # e.who
      BY <2>2, <3>3
    <3> QED
      BY <2>2, <2>3, <2>5, <3>2, <3>3, <3>4, <3>5, UseRun
  <2> QED
    BY <2>1, <2>4, <2>5 DEF RunsEntry
<1>11. ASSUME NEW t \in Tasks, ReleaseLock(t) PROVE UseInv'
  <2>1. UNCHANGED <<entries, ready, effects, repl>>
    BY <1>11 DEF ReleaseLock, seqVars
  <2>2. \A r \in Roots : InHand(r)' => InHand(r)
    BY <1>0, <1>11 DEF ReleaseLock, Goto, InHand, TypeOK
  <2> QED
    BY <2>1, <2>2, UseFrame
<1> QED
  BY <1>1, <1>2, <1>3, <1>4, <1>5, <1>6, <1>7, <1>8, <1>9, <1>10, <1>11
  DEF Next, DaemonStep, WorkerStep, ClientStep, DrainStep

LEMMA InitUse == Init => UseInv
<1>1. SUFFICES ASSUME Init PROVE UseInv
  OBVIOUS
<1>2. Len(effects) = 0
  <2>1. effects = <<>>
    BY <1>1 DEF Init
  <2> QED
    BY <2>1
<1>3. \A i \in 1..0 : FALSE
  OBVIOUS
<1>4. /\ \A t \in Tasks : pc[t] = "idle" /\ ready[t] = {}
      /\ \A f \in Families : entries[f] = {}
      /\ Worker \in Tasks
  BY <1>1 DEF Init, Tasks
<1>5. EffectsAtMostOnce
  BY <1>2, <1>3 DEF EffectsAtMostOnce
<1> QED
  BY <1>4, <1>5 DEF UseInv, InHand

(* No command and no checkpoint has its side effect applied twice: the      *)
(* place a command is in (the worker's hands, the map, the popped entries   *)
(* of one drain, the past) is one at a time and never given twice, whatever *)
(* drains overlap after a garbage collection dropped a lock that was in use *)
(* and whatever fails.                                                      *)
THEOREM NoEffectTwice == Spec => []EffectsAtMostOnce
<1>1. Init => LifeInv /\ UseInv
  BY InitLife, InitUse
<1>2. Inv1 /\ LifeInv /\ UseInv /\ [Next]_vars => LifeInv' /\ UseInv'
  BY LifeStep, UseStep
<1>3. UseInv => EffectsAtMostOnce
  BY DEF UseInv
<1> QED
  BY <1>1, <1>2, <1>3, Inv1Holds, PTL DEF Spec

-----------------------------------------------------------------------------
(* Each after everything that goes before it.                               *)

\* Whoever has a place or ran had its start processed, or was served.
Arrived(y) ==
    /\ y \in Roots => StartProcessed(y)
    /\ y \in Clients => pc[y] \in Served /\ request[y].through <= processed

LEMMA PlacedArrived ==
    ASSUME Inv1, LifeInv
    PROVE  /\ \A f : \A e : WellPlaced(e, f) => Arrived(e.who)
           /\ \A y \in Roots \cup Clients : Ran(y) => Arrived(y)
<1>1. ASSUME NEW f, NEW e, WellPlaced(e, f) PROVE Arrived(e.who)
  BY <1>1, SequencerAssumption DEF WellPlaced, Arrived
<1>2. ASSUME NEW y \in Roots \cup Clients, Ran(y) PROVE Arrived(y)
  BY <1>2 DEF LifeInv, RanInv, RootInv, Arrived
<1> QED
  BY <1>1, <1>2

\* Nobody is put in front of what has arrived: its predecessors have all had
\* their starts processed.
LEMMA PrecedesOld ==
    ASSUME Inv1, LifeInv, [Next]_vars, NEW q \in Roots, NEW y \in Roots \cup Clients,
           Arrived(y), Precedes(q, y)'
    PROVE  Precedes(q, y) /\ StartProcessed(q)
<1>1. /\ stream \in Seq(Payload) /\ stream' \in Seq(Payload)
      /\ processed \in Nat
  BY TypeStep DEF Inv1, TypeOK
<1>2. PICK n \in Nat : n = Len(stream)
  BY <1>1
<1>3. /\ Len(stream) <= Len(stream')
      /\ \A i \in 1..Len(stream) : i \in 1..Len(stream') /\ stream'[i] = stream[i]
      /\ attr' = attr
  BY StreamGrows
<1>4. StreamInv'
  BY LifeStep DEF LifeInv
<1>5. CASE y \in Roots
  <2>1. PICK k \in 1..n : k <= processed /\ StartsAt(y, k)
    BY <1>2, <1>5 DEF Arrived, StartProcessed
  <2>2. PICK m \in Nat : m = Len(stream')
    BY <1>1
  <2>3. PICK i \in 1..m, j \in 1..m : /\ stream'[i].root = q /\ stream'[i].ev = "start"
                                      /\ stream'[j].root = y /\ stream'[j].ev = "start"
                                      /\ i < j
    BY <1>5, <2>2, SequencerAssumption DEF Precedes, StartsAt
  <2>4. k \in 1..m /\ stream'[k] = stream[k]
    BY <1>2, <1>3, <2>1, <2>2
  <2>5. j <= k
    BY <1>4, <1>5, <2>1, <2>2, <2>3, <2>4 DEF StreamInv, StartsAt
  <2>6. i \in 1..n /\ i < k /\ i <= processed
    BY <1>1, <2>1, <2>3, <2>5
  <2>7. stream'[i] = stream[i]
    BY <1>2, <1>3, <2>6
  <2>8. StartsAt(q, i)
    BY <2>3, <2>7 DEF StartsAt
  <2>9. StartProcessed(q) /\ StartProcessed(y)
    BY <1>2, <2>1, <2>6, <2>8 DEF StartProcessed
  <2>10. startedAt'[q] = startedAt[q] /\ startedAt'[y] = startedAt[y]
    BY <1>5, <2>9, NothingGoesBack DEF LifeInv
  <2>11. /\ attr[q].hint /\ attr[y].hint
         /\ FamilyOf[q] = FamilyOf[y]
         /\ startedAt'[q] <= startedAt'[y]
    BY <1>3, <1>5, SequencerAssumption DEF Precedes
  <2> QED
    BY <1>2, <1>5, <2>1, <2>6, <2>8, <2>9, <2>10, <2>11 DEF Precedes
<1>6. CASE y \in Clients
  <2>1. pc[y] \in Served /\ pc[y] # "idle" /\ request[y].through <= processed
    BY <1>6 DEF Arrived, Served
  <2>2. request'[y] = request[y]
    BY <1>6, <2>1, NothingGoesBack DEF LifeInv
  <2>3. request[y].through \in Nat /\ request[y].through <= n
    BY <1>2, <1>6, <2>1 DEF LifeInv, RequestInv
  <2>4. PICK m \in Nat : m = Len(stream')
    BY <1>1
  <2>5. PICK i \in 1..m : /\ stream'[i].root = q /\ stream'[i].ev = "start"
                          /\ i <= request[y].through
    BY <1>6, <2>2, <2>4, SequencerAssumption DEF Precedes, StartsAt
  <2>6. i \in 1..n /\ i <= processed
    BY <1>1, <2>1, <2>3, <2>5
  <2>7. StartsAt(q, i)
    BY <1>2, <1>3, <2>5, <2>6 DEF StartsAt
  <2>8. FamilyOf[q] = RepoOf[y]
    BY <1>6, SequencerAssumption DEF Precedes
  <2> QED
    BY <1>2, <1>6, <2>1, <2>5, <2>6, <2>7, <2>8 DEF Precedes, StartProcessed
<1> QED
  BY <1>5, <1>6

LEMMA BeforeOrder ==
    ASSUME NEW a \in Order, NEW b \in Order, NEW c \in Order
    PROVE  /\ Before(a, b) => ~Before(b, a)
           /\ Before(a, b) /\ Before(b, c) => Before(a, c)
           /\ a[2] # b[2] => Before(a, b) \/ Before(b, a)
BY DEF Order, Before

\* A step that brings no new place into the map.
LEMMA QueueFrame ==
    ASSUME Inv1, LifeInv, QueueOrderInv, [Next]_vars,
           \A f \in Families : \A e \in entries'[f] :
               \E d \in entries[f] : d.order = e.order /\ d.who = e.who
    PROVE  QueueOrderInv'
<1>1. SUFFICES ASSUME NEW f \in Families, NEW d \in entries'[f], NEW e \in entries'[f],
                      d.who \in Roots, Precedes(d.who, e.who)'
               PROVE  Before(d.order, e.order)
  BY DEF QueueOrderInv
<1>2. PICK dd \in entries[f] : dd.order = d.order /\ dd.who = d.who
  OBVIOUS
<1>3. PICK ee \in entries[f] : ee.order = e.order /\ ee.who = e.who
  OBVIOUS
<1>4. ee \in Entry /\ WellPlaced(ee, f)
  BY DEF Inv1, TypeOK, LifeInv, EntriesInv
<1>5. PICK q \in Roots, y \in Roots \cup Clients : q = d.who /\ y = e.who
  BY <1>1, <1>3, <1>4 DEF Entry
<1>6. Arrived(y)
  BY <1>3, <1>4, <1>5, PlacedArrived
<1>7. Precedes(q, y)'
  BY <1>1, <1>5
<1>8. Precedes(q, y)
  BY <1>6, <1>7, PrecedesOld
<1> QED
  BY <1>2, <1>3, <1>5, <1>8 DEF QueueOrderInv

\* A place with a new ordinal goes behind its predecessors.
LEMMA QueueAppend ==
    ASSUME Inv1, LifeInv, OrdinalInv, QueueOrderInv, [Next]_vars,
           NEW f \in Families, NEW e \in Entry, WellPlaced(e, f)',
           e.order[2] = nextOrdinal[f],
           e.who \in Roots => ~StartProcessed(e.who),
           e.who \in Clients => e.order[1] = clock',
           \A g \in Families : g # f => entries'[g] = entries[g],
           entries'[f] = entries[f] \cup {e}
    PROVE  QueueOrderInv'
<1>1. SUFFICES ASSUME NEW g \in Families, NEW d \in entries'[g], NEW x \in entries'[g],
                      d.who \in Roots, Precedes(d.who, x.who)'
               PROVE  Before(d.order, x.order)
  BY DEF QueueOrderInv
<1>2. \A y \in entries[g] : y \in Entry /\ WellPlaced(y, g) /\ Arrived(y.who)
  BY PlacedArrived DEF Inv1, TypeOK, LifeInv, EntriesInv
<1>3. d \in Entry /\ x \in Entry
  BY <1>2
<1>4. PICK q \in Roots, y \in Roots \cup Clients : q = d.who /\ y = x.who
  BY <1>1, <1>3 DEF Entry
<1>5. Precedes(q, y)'
  BY <1>1, <1>4
<1>6. CASE x \in entries[g]
  <2>1. Precedes(q, y) /\ StartProcessed(q)
    BY <1>2, <1>4, <1>5, <1>6, PrecedesOld
  <2>2. d \in entries[g]
    BY <1>4, <2>1
  <2> QED
    BY <1>4, <1>6, <2>1, <2>2 DEF QueueOrderInv
<1>7. CASE x \notin entries[g]
  <2>1. x = e /\ g = f
    BY <1>7
  <2>2. StreamInv' /\ TypeOK'
    BY LifeStep, TypeStep DEF LifeInv
  <2>3. d # e
    <3>1. SUFFICES ASSUME d = e PROVE FALSE
      OBVIOUS
    <3>2. q = y
      BY <1>4, <2>1, <3>1
    <3>3. PICK m \in Nat : m = Len(stream')
      <4>1. stream' \in Seq(Payload)
        BY <2>2 DEF TypeOK
      <4> QED
        BY <4>1
    <3>4. PICK i \in 1..m, j \in 1..m : StartsAt(q, i)' /\ StartsAt(q, j)' /\ i < j
      BY <1>5, <3>2, <3>3, SequencerAssumption DEF Precedes
    <3>5. j <= i
      BY <2>2, <3>3, <3>4 DEF StreamInv, StartsAt
    <3> QED
      BY <3>4, <3>5
  <2>4. d \in entries[f]
    BY <2>1, <2>3
  <2>5. d.order[2] < e.order[2] /\ d.order \in Order /\ e.order \in Order
    BY <2>4, <1>3 DEF OrdinalInv, Entry
  <2>6. d.order[1] = startedAt[q] /\ StartProcessed(q)
    <3>1. WellPlaced(d, f)
      BY <1>2, <2>1, <2>4
    <3> QED
      BY <1>1, <1>4, <3>1, SequencerAssumption DEF WellPlaced
  <2>7. startedAt'[q] = startedAt[q]
    BY <2>6, NothingGoesBack DEF LifeInv
  <2>8. d.order[1] <= e.order[1]
    <3>1. CASE y \in Roots
      <4>1. startedAt'[q] <= startedAt'[y]
        BY <1>5, <3>1, SequencerAssumption DEF Precedes
      <4>2. e.order[1] = startedAt'[y]
        BY <1>4, <2>1, <3>1, SequencerAssumption DEF WellPlaced
      <4> QED
        BY <2>6, <2>7, <4>1, <4>2
    <3>2. CASE y \in Clients
      <4>1. startedAt'[q] <= clock'
        BY <2>2 DEF StreamInv
      <4> QED
        BY <1>4, <2>1, <2>6, <2>7, <3>2, <4>1
    <3> QED
      BY <3>1, <3>2
  <2> QED
    BY <2>1, <2>5, <2>8 DEF Before, Order
<1> QED
  BY <1>6, <1>7

\* The two steps that make a place.
LEMMA StartPlaces ==
    ASSUME Inv1, LifeInv, IngestStart, OrdinalInv, NEW r \in Roots, r = NextPayload.root
    PROVE  /\ ~StartProcessed(r)
           /\ \/ UNCHANGED seqVars
              \/ /\ entries'[FamilyOf[r]] =
                        entries[FamilyOf[r]] \cup {Pending(<<startedAt[r], nextOrdinal[FamilyOf[r]]>>, r)}
                 /\ \A g \in Families : g # FamilyOf[r] => entries'[g] = entries[g]
                 /\ slots' = [slots EXCEPT ![r] = <<startedAt[r], nextOrdinal[FamilyOf[r]]>>]
                 /\ Pending(<<startedAt[r], nextOrdinal[FamilyOf[r]]>>, r) \in Entry
<1> USE DEF Inv1
<1>1. ~StartProcessed(r)
  <2>1. processed + 1 \in 1..Len(stream) /\ NextPayload.ev = "start" /\ processed \in Nat
    BY StartTaken DEF TypeOK
  <2>2. StartsAt(r, processed + 1)
    BY <2>1 DEF StartsAt, NextPayload
  <2>3. \A i \in 1..Len(stream) : StartsAt(r, i) => processed + 1 <= i
    BY <2>1, <2>2 DEF LifeInv, StreamInv, StartsAt
  <2>4. \A i \in 1..Len(stream) : i <= processed => ~(processed + 1 <= i)
    BY <2>1
  <2> QED
    BY <2>3, <2>4 DEF StartProcessed
<1> DEFINE f == FamilyOf[r]
           o == <<startedAt[r], nextOrdinal[f]>>
<1>2. f \in Families
  BY SequencerAssumption
<1>3. o \in Order /\ Pending(o, r) \in Entry
  BY <1>2, EntryTypes DEF TypeOK, Order
<1>4. Pending(o, r).order[2] = nextOrdinal[f]
  BY DEF Pending
<1>5. Insert(entries[f], Pending(o, r)) = entries[f] \cup {Pending(o, r)}
  BY <1>2, <1>3, <1>4, InsertFresh
<1>6. \/ UNCHANGED seqVars
      \/ /\ entries' = [entries EXCEPT ![f] = Insert(entries[f], Pending(o, r))]
         /\ slots' = [slots EXCEPT ![r] = o]
  BY DEF IngestStart, AppendPendingRoot
<1> QED
  BY <1>1, <1>2, <1>3, <1>5, <1>6 DEF TypeOK

LEMMA CheckpointPlaces ==
    ASSUME Inv1, OrdinalInv, NEW c \in Clients, AppendCheckpoint(c),
           NEW e, e = [order |-> <<clock', nextOrdinal[RepoOf[c]]>>,
                       kind |-> "checkpoint", who |-> c]
    PROVE  /\ RepoOf[c] \in Families
           /\ e \in Entry
           /\ entries'[RepoOf[c]] = entries[RepoOf[c]] \cup {e}
           /\ \A g \in Families : g # RepoOf[c] => entries'[g] = entries[g]
<1> USE DEF Inv1
<1>1. RepoOf[c] \in Families /\ clock' \in Nat
  BY SequencerAssumption DEF TypeOK, AppendCheckpoint, ReadClock
<1>2. e \in Entry /\ e.order[2] = nextOrdinal[RepoOf[c]]
  BY <1>1 DEF TypeOK, Entry, Kinds, Order
<1>3. Insert(entries[RepoOf[c]], e) = entries[RepoOf[c]] \cup {e}
  BY <1>1, <1>2, InsertFresh
<1>4. entries' = [entries EXCEPT ![RepoOf[c]] = Insert(@, e)]
  BY DEF AppendCheckpoint
<1> QED
  BY <1>1, <1>2, <1>3, <1>4 DEF TypeOK

\* And the one that fills a place.
LEMMA ReplacePlaces ==
    ASSUME Inv1, Inv2, ReplacePendingRoot
    PROVE  /\ pc[Worker] = "queued" /\ pc'[Worker] = "pop"
           /\ cur \in Roots /\ FamilyOf[cur] \in Families
           /\ Pending(taken, cur) \in entries[FamilyOf[cur]]
           /\ \A g \in Families : g # FamilyOf[cur] => entries'[g] = entries[g]
           /\ \A x \in entries'[FamilyOf[cur]] :
                 \/ x \in entries[FamilyOf[cur]]
                 \/ x = [order |-> taken, kind |-> repl, who |-> cur]
           /\ UNCHANGED <<slots, cur, ready, effects, lockVars>>
<1> USE DEF Inv1
<1>1. pc[Worker] = "queued" /\ cur \in Roots /\ FamilyOf[cur] \in Families /\ Worker \in Tasks
  BY SequencerAssumption DEF ReplacePendingRoot, ControlInv, Tasks
<1>2. Pending(taken, cur) \in entries[FamilyOf[cur]]
  BY <1>1 DEF Inv2, SlotsMatchPending
<1>3. /\ entries' = [entries EXCEPT ![FamilyOf[cur]] =
                        Insert(@, [order |-> taken, kind |-> repl, who |-> cur])]
      /\ Goto(Worker, "pop")
  BY <1>2 DEF ReplacePendingRoot, AfterReplace, Pending
<1>4. UNCHANGED <<slots, cur, ready, effects, lockVars>>
  BY DEF ReplacePendingRoot, workerVars
<1> QED
  BY <1>1, <1>2, <1>3, <1>4 DEF Goto, Insert, TypeOK

LEMMA QueueOrderStep ==
    ASSUME Inv1, Inv2, LifeInv, QueueOrderInv, [NoGcNext]_vars
    PROVE  QueueOrderInv'
<1> USE DEF Inv1
<1>0. [Next]_vars /\ OrdinalInv
  BY DEF NoGcNext, Next, Inv2
<1>1. CASE \A f \in Families : entries'[f] \subseteq entries[f]
  BY <1>0, <1>1, QueueFrame
<1>2. CASE IngestStart
  <2>1. PICK r \in Roots : r = NextPayload.root
    BY <1>2, StartTaken
  <2>2. PICK f \in Families : f = FamilyOf[r]
    BY SequencerAssumption
  <2>3. PICK e : e = Pending(<<startedAt[r], nextOrdinal[f]>>, r)
    OBVIOUS
  <2>4. CASE UNCHANGED seqVars
    BY <1>1, <2>4 DEF seqVars
  <2>5. CASE ~UNCHANGED seqVars
    <3>1. /\ ~StartProcessed(r)
          /\ entries'[f] = entries[f] \cup {e}
          /\ \A g \in Families : g # f => entries'[g] = entries[g]
          /\ e \in Entry
      BY <1>0, <1>2, <2>1, <2>2, <2>3, <2>5, StartPlaces
    <3>2. e.order[2] = nextOrdinal[f] /\ e.who = r
      BY <2>3 DEF Pending
    <3>3. WellPlaced(e, f)'
      <4>1. EntriesInv'
        BY <1>0, LifeStep DEF LifeInv
      <4> QED
        BY <3>1, <4>1 DEF EntriesInv
    <3> QED
      BY <1>0, <3>1, <3>2, <3>3, QueueAppend, SequencerAssumption
  <2> QED
    BY <2>4, <2>5
<1>3. ASSUME NEW c \in Clients, AppendCheckpoint(c) PROVE QueueOrderInv'
  <2>1. PICK e : e = [order |-> <<clock', nextOrdinal[RepoOf[c]]>>,
                      kind |-> "checkpoint", who |-> c]
    OBVIOUS
  <2>2. PICK f \in Families : f = RepoOf[c]
    BY SequencerAssumption
  <2>3. /\ e \in Entry
        /\ entries'[f] = entries[f] \cup {e}
        /\ \A g \in Families : g # f => entries'[g] = entries[g]
    BY <1>0, <1>3, <2>1, <2>2, CheckpointPlaces
  <2>4. e.order[2] = nextOrdinal[f] /\ e.who = c /\ e.order[1] = clock'
    BY <2>1, <2>2
  <2>5. WellPlaced(e, f)'
    <3>1. EntriesInv'
      BY <1>0, LifeStep DEF LifeInv
    <3> QED
      BY <2>3, <3>1 DEF EntriesInv
  <2> QED
    BY <1>0, <2>3, <2>4, <2>5, QueueAppend, SequencerAssumption
<1>4. CASE ReplacePendingRoot
  <2>1. PICK old : old = Pending(taken, cur)
    OBVIOUS
  <2>2. PICK f \in Families : f = FamilyOf[cur]
    BY <1>4, ReplacePlaces
  <2>3. /\ old \in entries[f] /\ old.order = taken /\ old.who = cur
        /\ \A g \in Families : g # f => entries'[g] = entries[g]
        /\ \A x \in entries'[f] :
              x \in entries[f] \/ x = [order |-> taken, kind |-> repl, who |-> cur]
    BY <1>4, <2>1, <2>2, ReplacePlaces DEF Pending
  <2>4. \A g \in Families : \A x \in entries'[g] :
            \E d \in entries[g] : d.order = x.order /\ d.who = x.who
    BY <2>3
  <2> QED
    BY <1>0, <2>4, QueueFrame
<1>5. ASSUME NEW t \in Tasks, PopReady(t) PROVE \A f \in Families : entries'[f] \subseteq entries[f]
  BY <1>5, TaskFamilyType DEF PopReady, AfterPop, TypeOK
<1>6. \/ entries' = entries \/ IngestStart \/ ReplacePendingRoot
      \/ \E c \in Clients : AppendCheckpoint(c)
      \/ \E t \in Tasks : PopReady(t)
  BY DEF NoGcNext, GitStep, GitBegins, EmitStart, EmitExit, EmitAtexit, ConnectionLost, Emit,
         DaemonStep, WorkerStep, IngestTerminalError, IngestTerminalNone, IngestTerminalEmit,
         TakeSlot, DirectEffect, ClientStep, IngestCaughtUp, ReceiveReply, RequestCheckpoint,
         IngestWaitTimesOut, DrainStep, RunEntry, ReleaseLock, vars, seqVars
<1> QED
  BY <1>1, <1>2, <1>3, <1>4, <1>5, <1>6

\* A step that runs nothing, pops nothing and gives no new place to a command
\* whose start was processed.
LEMMA SettledFrame ==
    ASSUME Inv1, LifeInv, SettledInv, [Next]_vars,
           \A y \in Roots \cup Clients : Ran(y)' =>
               Ran(y) \/ (y \in Roots /\ StartProcessed(y) /\ ~attr[y].hint),
           \A t \in Tasks : ready'[t] \subseteq ready[t],
           \A q \in Roots : StartProcessed(q) =>
               /\ slots'[q] # None => slots[q] # None
               /\ \A d \in entries'[FamilyOf[q]] : d.who = q =>
                      \E x \in entries[FamilyOf[q]] : x.who = q
    PROVE  SettledInv'
<1>1. SUFFICES ASSUME NEW q \in Roots, NEW y \in Roots \cup Clients, Precedes(q, y)'
               PROVE  /\ Ran(y)' => ~Unsettled(q)'
                      /\ \A t \in Tasks : \A e \in ready'[t] : e.who = y /\ e.kind # "canceled" =>
                            /\ slots'[q] = None
                            /\ \A d \in entries'[FamilyOf[q]] : d.who # q
                            /\ \A s \in Tasks : \A d \in ready'[s] :
                                  d.who = q /\ d.kind # "canceled" => s = t /\ Before(d.order, e.order)
  BY DEF SettledInv
<1>2. ASSUME Ran(y)' PROVE ~Unsettled(q)'
  <2>1. CASE Ran(y)
    <3>1. Arrived(y)
      BY <2>1, PlacedArrived
    <3>2. Precedes(q, y) /\ StartProcessed(q)
      BY <1>1, <3>1, PrecedesOld
    <3>3. ~Unsettled(q)
      BY <2>1, <3>2 DEF SettledInv
    <3> QED
      BY <3>2, <3>3 DEF Unsettled
  <2>2. CASE y \in Roots /\ StartProcessed(y) /\ ~attr[y].hint
    <3>1. Arrived(y)
      BY <2>2, SequencerAssumption DEF Arrived
    <3>2. Precedes(q, y)
      BY <1>1, <3>1, PrecedesOld
    <3> QED
      BY <2>2, <3>2, SequencerAssumption DEF Precedes
  <2> QED
    BY <1>2, <2>1, <2>2
<1>3. ASSUME NEW t \in Tasks, NEW e \in ready'[t], e.who = y, e.kind # "canceled"
      PROVE  /\ slots'[q] = None
             /\ \A d \in entries'[FamilyOf[q]] : d.who # q
             /\ \A s \in Tasks : \A d \in ready'[s] :
                   d.who = q /\ d.kind # "canceled" => s = t /\ Before(d.order, e.order)
  <2>1. e \in ready[t] /\ Arrived(y)
    BY <1>3, PlacedArrived DEF LifeInv, EntriesInv
  <2>2. Precedes(q, y) /\ StartProcessed(q)
    BY <1>1, <2>1, PrecedesOld
  <2>3. /\ slots[q] = None
        /\ \A d \in entries[FamilyOf[q]] : d.who # q
        /\ \A s \in Tasks : \A d \in ready[s] :
              d.who = q /\ d.kind # "canceled" => s = t /\ Before(d.order, e.order)
    BY <1>3, <2>1, <2>2 DEF SettledInv
  <2> QED
    BY <2>2, <2>3
<1> QED
  BY <1>2, <1>3

\* What is popped takes its predecessors along.
LEMMA PopTakesPredecessors ==
    ASSUME Inv1, Inv2, LifeInv, QueueOrderInv, NEW f \in Families,
           NEW e \in ReadyPrefix(entries[f]), NEW q \in Roots, Precedes(q, e.who)
    PROVE  /\ FamilyOf[q] = f
           /\ slots[q] = None
           /\ \A d \in entries[f] : d.who = q =>
                 d \in ReadyPrefix(entries[f]) /\ Before(d.order, e.order)
<1>1. e \in entries[f] /\ e.kind # "pending"
      /\ \A p \in entries[f] : p.kind = "pending" => Before(e.order, p.order)
  BY DEF ReadyPrefix
<1>2. \A x \in entries[f] : x \in Entry /\ WellPlaced(x, f) /\ x.order \in Order
  BY DEF Inv1, TypeOK, LifeInv, EntriesInv, Entry
<1>3. FamilyOf[q] = f
  <2>1. WellPlaced(e, f)
    BY <1>1, <1>2
  <2> QED
    BY <2>1, SequencerAssumption DEF WellPlaced, Precedes
<1>4. ASSUME NEW d \in entries[f], d.who = q
      PROVE  d \in ReadyPrefix(entries[f]) /\ Before(d.order, e.order)
  <2>1. Before(d.order, e.order)
    BY <1>1, <1>4 DEF QueueOrderInv
  <2>2. d.kind # "pending"
    BY <1>1, <1>2, <2>1, BeforeOrder
  <2>3. \A p \in entries[f] : p.kind = "pending" => Before(d.order, p.order)
    BY <1>1, <1>2, <2>1, BeforeOrder
  <2> QED
    BY <2>1, <2>2, <2>3 DEF ReadyPrefix
<1>5. slots[q] = None
  <2>1. SUFFICES ASSUME slots[q] # None PROVE FALSE
    OBVIOUS
  <2>2. PICK d : d = Pending(slots[q], q)
    OBVIOUS
  <2>3. d \in entries[f] /\ d.who = q /\ d.kind = "pending"
    BY <1>3, <2>1, <2>2 DEF Inv2, SlotsMatchPending, Pending
  <2> QED
    BY <1>4, <2>3 DEF ReadyPrefix
<1> QED
  BY <1>3, <1>4, <1>5

LEMMA SettledPop ==
    ASSUME Inv1, Inv2, LifeInv, OneLock, QueueOrderInv, SettledInv, [Next]_vars,
           NEW t \in Tasks, PopReady(t)
    PROVE  SettledInv'
<1> USE DEF Inv1
<1>1. PICK f \in Families : f = TaskFamily(t)
  BY TaskFamilyType DEF PopReady
<1>2. /\ entries'[f] = entries[f] \ ready'[t]
      /\ ready'[t] = ReadyPrefix(entries[f])
      /\ \A g \in Families : g # f => entries'[g] = entries[g]
      /\ \A s \in Tasks : s # t => ready'[s] = ready[s]
      /\ UNCHANGED <<effects, slots>>
  BY <1>1 DEF PopReady, AfterPop, TypeOK
<1>3. ready'[t] \subseteq entries[f]
  BY <1>2 DEF ReadyPrefix
\* Nobody else of the family has popped anything.
<1>4. ASSUME NEW s \in Tasks, s # t, NEW d \in ready[s], NEW q \in Roots, d.who = q, FamilyOf[q] = f
      PROVE  FALSE
  <2>1. pc[s] = "run" /\ WellPlaced(d, TaskFamily(s))
    BY <1>4 DEF LifeInv, EntriesInv
  <2>2. TaskFamily(s) = f
    BY <1>4, <2>1, SequencerAssumption DEF WellPlaced
  <2>3. Draining(s) /\ Draining(t)
    BY <2>1 DEF Draining, PopReady
  <2> QED
    BY <1>1, <1>4, <2>2, <2>3, OneLockExcludes DEF DrainsExclude
<1>5. SUFFICES ASSUME NEW q \in Roots, NEW y \in Roots \cup Clients, Precedes(q, y)'
               PROVE  /\ Ran(y)' => ~Unsettled(q)'
                      /\ \A u \in Tasks : \A e \in ready'[u] : e.who = y /\ e.kind # "canceled" =>
                            /\ slots'[q] = None
                            /\ \A d \in entries'[FamilyOf[q]] : d.who # q
                            /\ \A s \in Tasks : \A d \in ready'[s] :
                                  d.who = q /\ d.kind # "canceled" => s = u /\ Before(d.order, e.order)
  BY DEF SettledInv
<1>6. FamilyOf[q] \in Families
  BY SequencerAssumption
<1>7. ASSUME Ran(y)' PROVE ~Unsettled(q)'
  <2>1. Ran(y)
    BY <1>2, <1>7 DEF Ran
  <2>2. Precedes(q, y)
    BY <1>5, <2>1, PlacedArrived, PrecedesOld
  <2>3. ~Unsettled(q)
    BY <2>1, <2>2 DEF SettledInv
  <2>4. \A e \in ready'[t] : e.who # q
    <3>1. SUFFICES ASSUME NEW e \in ready'[t], e.who = q PROVE FALSE
      OBVIOUS
    <3>2. e \in entries[f] /\ WellPlaced(e, f)
      BY <1>3 DEF LifeInv, EntriesInv
    <3>3. FamilyOf[q] = f
      BY <3>1, <3>2, SequencerAssumption DEF WellPlaced
    <3> QED
      BY <2>3, <3>1, <3>2, <3>3 DEF Unsettled
  <2>5. \A e \in entries'[FamilyOf[q]] : e \in entries[FamilyOf[q]]
    BY <1>2, <1>6
  <2> QED
    BY <1>2, <2>3, <2>4, <2>5 DEF Unsettled
<1>8. ASSUME NEW e \in ready'[t], e.who = y
      PROVE  /\ slots'[q] = None
             /\ \A d \in entries'[FamilyOf[q]] : d.who # q
             /\ \A s \in Tasks : \A d \in ready'[s] :
                   d.who = q => s = t /\ Before(d.order, e.order)
  <2>1. Arrived(y)
    BY <1>3, <1>8, PlacedArrived DEF LifeInv, EntriesInv
  <2>2. Precedes(q, y)
    BY <1>5, <2>1, PrecedesOld
  <2>3. /\ FamilyOf[q] = f
        /\ slots[q] = None
        /\ \A d \in entries[f] : d.who = q => d \in ready'[t] /\ Before(d.order, e.order)
    BY <1>2, <1>8, <2>2, PopTakesPredecessors
  <2> QED
    BY <1>2, <1>3, <1>4, <2>3
<1>9. ASSUME NEW u \in Tasks, u # t, NEW e \in ready'[u], e.who = y, e.kind # "canceled"
      PROVE  /\ slots'[q] = None
             /\ \A d \in entries'[FamilyOf[q]] : d.who # q
             /\ \A s \in Tasks : \A d \in ready'[s] :
                   d.who = q /\ d.kind # "canceled" => s = u /\ Before(d.order, e.order)
  <2>1. e \in ready[u]
    BY <1>2, <1>9
  <2>2. Arrived(y)
    BY <1>9, <2>1, PlacedArrived DEF LifeInv, EntriesInv
  <2>3. Precedes(q, y)
    BY <1>5, <2>2, PrecedesOld
  <2>4. /\ slots[q] = None
        /\ \A d \in entries[FamilyOf[q]] : d.who # q
        /\ \A s \in Tasks : \A d \in ready[s] :
              d.who = q /\ d.kind # "canceled" => s = u /\ Before(d.order, e.order)
    BY <1>9, <2>1, <2>3 DEF SettledInv
  <2>5. \A d \in ready'[t] : d.who # q
    <3>1. SUFFICES ASSUME NEW d \in ready'[t], d.who = q PROVE FALSE
      OBVIOUS
    <3>2. d \in entries[f] /\ WellPlaced(d, f)
      BY <1>3 DEF LifeInv, EntriesInv
    <3>3. FamilyOf[q] = f
      BY <3>1, <3>2, SequencerAssumption DEF WellPlaced
    <3> QED
      BY <2>4, <3>1, <3>2, <3>3
  <2>6. \A d \in entries'[FamilyOf[q]] : d \in entries[FamilyOf[q]]
    BY <1>2, <1>6
  <2> QED
    BY <1>2, <2>4, <2>5, <2>6
<1> QED
  BY <1>7, <1>8, <1>9

LEMMA SettledRun ==
    ASSUME Inv1, LifeInv, SettledInv, [Next]_vars, NEW t \in Tasks, RunEntry(t)
    PROVE  SettledInv'
<1> USE DEF Inv1
<1>1. PICK x \in ready[t] : RunsEntry(t, x)
  BY RunEntryRuns
<1>2. /\ ready'[t] = ready[t] \ {x}
      /\ \A s \in Tasks : s # t => ready'[s] = ready[s]
      /\ UNCHANGED <<entries, slots>>
  BY <1>1 DEF RunsEntry, TypeOK, RunEntry, seqVars
<1>3. \A s \in Tasks : ready'[s] \subseteq ready[s]
  BY <1>2
<1>4. CASE effects' = effects
  BY <1>2, <1>3, <1>4, SettledFrame DEF Ran
<1>5. CASE x.kind # "canceled" /\ effects' = Append(effects, x.who)
  <2>1. x \in Entry /\ Arrived(x.who)
    BY PlacedArrived DEF TypeOK, LifeInv, EntriesInv
  <2>2. PICK w \in Roots \cup Clients : w = x.who
    BY <2>1 DEF Entry
  <2>3. \A y : Ran(y)' <=> Ran(y) \/ y = w
    BY <1>5, <2>2, RanGrows
  <2>4. SUFFICES ASSUME NEW q \in Roots, NEW y \in Roots \cup Clients, Precedes(q, y)'
                 PROVE  /\ Ran(y)' => ~Unsettled(q)'
                        /\ \A u \in Tasks : \A e \in ready'[u] : e.who = y /\ e.kind # "canceled" =>
                              /\ slots'[q] = None
                              /\ \A d \in entries'[FamilyOf[q]] : d.who # q
                              /\ \A s \in Tasks : \A d \in ready'[s] :
                                    d.who = q /\ d.kind # "canceled" => s = u /\ Before(d.order, e.order)
    BY DEF SettledInv
  <2>5. ASSUME Ran(y)' PROVE ~Unsettled(q)'
    <3>1. CASE Ran(y)
      <4>1. Precedes(q, y)
        BY <2>4, <3>1, PlacedArrived, PrecedesOld
      <4> QED
        BY <1>2, <1>3, <3>1, <4>1 DEF SettledInv, Unsettled
    <3>2. CASE y = w
      <4>1. Precedes(q, y)
        BY <2>1, <2>2, <2>4, <3>2, PrecedesOld
      <4>2. /\ slots[q] = None
            /\ \A d \in entries[FamilyOf[q]] : d.who # q
            /\ \A s \in Tasks : \A d \in ready[s] :
                  d.who = q /\ d.kind # "canceled" => s = t /\ Before(d.order, x.order)
        BY <1>5, <2>2, <3>2, <4>1 DEF SettledInv
      <4>3. \A d \in ready[t] : ~Before(d.order, x.order)
        BY <1>1 DEF RunsEntry, IsFirst
      <4> QED
        BY <1>2, <1>3, <4>2, <4>3 DEF Unsettled
    <3> QED
      BY <2>3, <2>5, <3>1, <3>2
  <2>6. ASSUME NEW u \in Tasks, NEW e \in ready'[u], e.who = y, e.kind # "canceled"
        PROVE  /\ slots'[q] = None
               /\ \A d \in entries'[FamilyOf[q]] : d.who # q
               /\ \A s \in Tasks : \A d \in ready'[s] :
                     d.who = q /\ d.kind # "canceled" => s = u /\ Before(d.order, e.order)
    <3>1. e \in ready[u]
      BY <1>3
    <3>2. Arrived(y)
      BY <2>6, <3>1, PlacedArrived DEF LifeInv, EntriesInv
    <3>3. Precedes(q, y)
      BY <2>4, <3>2, PrecedesOld
    <3>4. /\ slots[q] = None
          /\ \A d \in entries[FamilyOf[q]] : d.who # q
          /\ \A s \in Tasks : \A d \in ready[s] :
                d.who = q /\ d.kind # "canceled" => s = u /\ Before(d.order, e.order)
      BY <2>6, <3>1, <3>3 DEF SettledInv
    <3> QED
      BY <1>2, <1>3, <3>4
  <2> QED
    BY <2>5, <2>6
<1> QED
  BY <1>1, <1>4, <1>5 DEF RunsEntry

LEMMA SettledStep ==
    ASSUME Inv1, Inv2, LifeInv, OneLock, QueueOrderInv, SettledInv, [NoGcNext]_vars
    PROVE  SettledInv'
<1> USE DEF Inv1
<1>0. [Next]_vars /\ OrdinalInv
  BY DEF NoGcNext, Next, Inv2
<1>1. CASE UNCHANGED <<effects, ready, slots, entries>>
  BY <1>0, <1>1, SettledFrame DEF Ran
<1>2. CASE IngestStart
  <2>1. PICK r \in Roots : r = NextPayload.root
    BY <1>2, StartTaken
  <2>2. UNCHANGED <<effects, ready>>
    BY <1>2 DEF IngestStart
  <2>3. CASE UNCHANGED seqVars
    BY <1>1, <2>2, <2>3 DEF seqVars
  <2>4. CASE ~UNCHANGED seqVars
    <3>1. PICK e : e = Pending(<<startedAt[r], nextOrdinal[FamilyOf[r]]>>, r)
      OBVIOUS
    <3>2. /\ ~StartProcessed(r)
          /\ entries'[FamilyOf[r]] = entries[FamilyOf[r]] \cup {e}
          /\ \A g \in Families : g # FamilyOf[r] => entries'[g] = entries[g]
          /\ slots' = [slots EXCEPT ![r] = <<startedAt[r], nextOrdinal[FamilyOf[r]]>>]
      BY <1>0, <1>2, <2>1, <2>4, <3>1, StartPlaces
    <3>3. e.who = r
      BY <3>1 DEF Pending
    <3>4. ASSUME NEW q \in Roots, q # r
          PROVE  /\ slots'[q] = slots[q]
                 /\ \A d \in entries'[FamilyOf[q]] : d.who = q => d \in entries[FamilyOf[q]]
      BY <3>2, <3>3, <3>4, SequencerAssumption DEF TypeOK
    <3> QED
      BY <1>0, <2>2, <3>2, <3>4, SettledFrame DEF Ran
  <2> QED
    BY <2>3, <2>4
<1>3. CASE IngestTerminalNone \/ IngestTerminalEmit
  <2>1. UNCHANGED <<effects, ready, entries>>
    BY <1>3 DEF IngestTerminalNone, IngestTerminalEmit, TakeSlot, seqVars
  <2>2. \A q \in Roots : slots'[q] # None => slots[q] # None
    BY <1>3, TerminalTaken DEF IngestTerminalNone, IngestTerminalEmit, TakeSlot, TypeOK, seqVars
  <2> QED
    BY <1>0, <2>1, <2>2, SettledFrame DEF Ran
<1>4. CASE DirectEffect
  <2>1. PICK w \in Roots : w = cur
    BY <1>4 DEF DirectEffect, ControlInv
  <2>2. effects' = Append(effects, w) /\ UNCHANGED <<ready, slots, entries>>
    BY <1>4, <2>1 DEF DirectEffect, seqVars
  <2>3. norm[w] = "completed" /\ ~attr[w].hint /\ StartProcessed(w)
    BY <1>4, <2>1 DEF DirectEffect, LifeInv, HandInv, RootInv
  <2>4. \A y : Ran(y)' <=> Ran(y) \/ y = w
    BY <2>2, RanGrows
  <2> QED
    BY <1>0, <2>2, <2>3, <2>4, SettledFrame
<1>5. CASE ReplacePendingRoot
  <2>1. PICK f \in Families : f = FamilyOf[cur]
    BY <1>5, ReplacePlaces
  <2>2. /\ Pending(taken, cur) \in entries[f]
        /\ \A g \in Families : g # f => entries'[g] = entries[g]
        /\ \A x \in entries'[f] :
              x \in entries[f] \/ x = [order |-> taken, kind |-> repl, who |-> cur]
        /\ UNCHANGED <<slots, ready, effects>>
    BY <1>5, <2>1, ReplacePlaces
  <2>3. \A g \in Families : \A x \in entries'[g] : \E d \in entries[g] : d.who = x.who
    BY <2>2 DEF Pending
  <2> QED
    BY <1>0, <2>2, <2>3, SettledFrame, SequencerAssumption DEF Ran
<1>6. ASSUME NEW c \in Clients, AppendCheckpoint(c) PROVE SettledInv'
  <2>1. PICK e : e = [order |-> <<clock', nextOrdinal[RepoOf[c]]>>,
                      kind |-> "checkpoint", who |-> c]
    OBVIOUS
  <2>2. /\ entries'[RepoOf[c]] = entries[RepoOf[c]] \cup {e}
        /\ \A g \in Families : g # RepoOf[c] => entries'[g] = entries[g]
    BY <1>0, <1>6, <2>1, CheckpointPlaces
  <2>3. UNCHANGED <<effects, ready, slots>>
    BY <1>6 DEF AppendCheckpoint
  <2>4. e.who \notin Roots
    BY <2>1, SequencerAssumption
  <2>5. \A q \in Roots : \A d \in entries'[FamilyOf[q]] : d.who = q => d \in entries[FamilyOf[q]]
    BY <2>2, <2>4, SequencerAssumption
  <2> QED
    BY <1>0, <2>3, <2>5, SettledFrame DEF Ran
<1>7. ASSUME NEW t \in Tasks, PopReady(t) PROVE SettledInv'
  BY <1>0, <1>7, SettledPop
<1>8. ASSUME NEW t \in Tasks, RunEntry(t) PROVE SettledInv'
  BY <1>0, <1>8, SettledRun
<1>9. \/ UNCHANGED <<effects, ready, slots, entries>>
      \/ IngestStart \/ IngestTerminalNone \/ IngestTerminalEmit \/ DirectEffect
      \/ ReplacePendingRoot
      \/ \E c \in Clients : AppendCheckpoint(c)
      \/ \E t \in Tasks : PopReady(t) \/ RunEntry(t)
  BY DEF NoGcNext, GitStep, GitBegins, EmitStart, EmitExit, EmitAtexit, ConnectionLost, Emit,
         DaemonStep, WorkerStep, IngestTerminalError, ClientStep, IngestCaughtUp, ReceiveReply,
         RequestCheckpoint, IngestWaitTimesOut, DrainStep, ReleaseLock, vars, seqVars
<1> QED
  BY <1>1, <1>2, <1>3, <1>4, <1>5, <1>6, <1>7, <1>8, <1>9

\* A step that takes no pending place away, fills none, and is not the end of the
\* worker's drain.
LEMMA BlockedFrame ==
    ASSUME BlockedInv, ready' = ready,
           \A f \in Families :
               /\ \A e \in entries[f] : e.kind = "pending" => e \in entries'[f]
               /\ \A e \in entries'[f] :
                     e.who \in Roots /\ e.kind # "pending" => e \in entries[f],
           pc[Worker] = "pop" => pc'[Worker] = "pop" /\ cur' = cur
    PROVE  BlockedInv'
<1>1. ASSUME NEW f \in Families, NEW e \in entries'[f], e.who \in Roots, e.kind # "pending"
      PROVE  \/ \E q \in entries'[f] : q.kind = "pending" /\ Before(q.order, e.order)
             \/ pc'[Worker] = "pop" /\ FamilyOf[cur'] = f
  BY <1>1 DEF BlockedInv
<1> QED
  BY <1>1 DEF BlockedInv

LEMMA BlockedPop ==
    ASSUME Inv1, Inv2, LifeInv, OneLock, BlockedInv, NEW t \in Tasks, PopReady(t)
    PROVE  BlockedInv'
<1> USE DEF Inv1
<1>0. /\ Worker \in Tasks /\ \A d \in Clients : d \in Tasks /\ d # Worker
      /\ t = Worker \/ t \in Clients
  BY SequencerAssumption DEF Tasks
<1>1. PICK f \in Families : f = TaskFamily(t)
  BY TaskFamilyType DEF PopReady
<1>2. /\ entries'[f] = entries[f] \ ReadyPrefix(entries[f])
      /\ ready'[t] = ReadyPrefix(entries[f])
      /\ \A g \in Families : g # f => entries'[g] = entries[g]
      /\ \A s \in Tasks : s # t => ready'[s] = ready[s] /\ pc'[s] = pc[s]
      /\ cur' = cur
  BY <1>1 DEF PopReady, AfterPop, Goto, TypeOK, workerVars
<1>3. \A x \in entries[f] : x \in Entry /\ WellPlaced(x, f) /\ x.order \in Order
  BY DEF TypeOK, LifeInv, EntriesInv, Entry
<1>4. ASSUME NEW e \in entries'[f], e.kind # "pending"
      PROVE  \E q \in entries'[f] : q.kind = "pending" /\ Before(q.order, e.order)
  <2>1. PICK q \in entries[f] : q.kind = "pending" /\ ~Before(e.order, q.order)
    BY <1>2, <1>4 DEF ReadyPrefix
  <2>2. e \in entries[f] /\ q.order[2] # e.order[2]
    BY <1>2, <1>4, <2>1 DEF Inv2, OrdinalInv
  <2>3. Before(q.order, e.order)
    BY <1>3, <2>1, <2>2, BeforeOrder
  <2>4. q \in entries'[f]
    BY <1>2, <2>1 DEF ReadyPrefix
  <2> QED
    BY <2>1, <2>3, <2>4
<1>5. ASSUME NEW g \in Families, g # f, NEW e \in entries'[g], e.who \in Roots, e.kind # "pending"
      PROVE  \/ \E q \in entries'[g] : q.kind = "pending" /\ Before(q.order, e.order)
             \/ pc'[Worker] = "pop" /\ FamilyOf[cur'] = g
  <2>1. pc[Worker] = "pop" /\ FamilyOf[cur] = g => t # Worker
    BY <1>1, <1>5 DEF TaskFamily
  <2> QED
    BY <1>0, <1>2, <1>5, <2>1 DEF BlockedInv
<1>6. ASSUME t \in Clients, NEW e \in ready'[t] PROVE e.kind = "checkpoint"
  <2>1. SUFFICES ASSUME e.kind # "checkpoint" PROVE FALSE
    OBVIOUS
  <2>2. e \in entries[f] /\ e.kind # "pending"
        /\ \A q \in entries[f] : q.kind = "pending" => Before(e.order, q.order)
    BY <1>2, <1>6 DEF ReadyPrefix
  <2>3. e.who \in Roots
    BY <1>3, <2>1, <2>2 DEF WellPlaced
  <2>4. ~\E q \in entries[f] : q.kind = "pending" /\ Before(q.order, e.order)
    BY <1>3, <2>2, BeforeOrder
  <2>5. pc[Worker] = "pop" /\ FamilyOf[cur] = f
    BY <2>2, <2>3, <2>4 DEF BlockedInv
  <2>6. Draining(Worker) /\ Draining(t) /\ TaskFamily(Worker) = TaskFamily(t)
    BY <1>1, <2>5 DEF Draining, PopReady, TaskFamily
  <2> QED
    BY <1>0, <1>6, <2>6, OneLockExcludes DEF DrainsExclude
<1> QED
  BY <1>0, <1>2, <1>4, <1>5, <1>6 DEF BlockedInv

LEMMA BlockedStep ==
    ASSUME Inv1, Inv2, LifeInv, OneLock, BlockedInv, [NoGcNext]_vars
    PROVE  BlockedInv'
<1> USE DEF Inv1
<1>0. /\ [Next]_vars /\ OrdinalInv
      /\ Worker \in Tasks /\ \A d \in Clients : d \in Tasks /\ d # Worker
      /\ \A s \in Tasks : s = Worker \/ s \in Clients
  BY SequencerAssumption DEF NoGcNext, Next, Inv2, Tasks
<1>1. CASE UNCHANGED <<entries, ready, pc, cur>>
  BY <1>1, BlockedFrame
<1>2. CASE IngestStart
  <2>1. PICK r \in Roots : r = NextPayload.root
    BY <1>2, StartTaken
  <2>2. UNCHANGED <<pc, cur, ready>>
    BY <1>2 DEF IngestStart, workerVars
  <2>3. CASE UNCHANGED seqVars
    BY <1>1, <2>2, <2>3 DEF seqVars
  <2>4. CASE ~UNCHANGED seqVars
    <3>1. PICK e : e = Pending(<<startedAt[r], nextOrdinal[FamilyOf[r]]>>, r)
      OBVIOUS
    <3>2. /\ entries'[FamilyOf[r]] = entries[FamilyOf[r]] \cup {e}
          /\ \A g \in Families : g # FamilyOf[r] => entries'[g] = entries[g]
      BY <1>0, <1>2, <2>1, <2>4, <3>1, StartPlaces
    <3>3. e.kind = "pending"
      BY <3>1 DEF Pending
    <3> QED
      BY <2>2, <3>2, <3>3, BlockedFrame
  <2> QED
    BY <2>3, <2>4
<1>3. CASE IngestTerminalNone \/ IngestTerminalEmit \/ DirectEffect
  <2>1. UNCHANGED <<ready, entries>>
    BY <1>3 DEF IngestTerminalNone, IngestTerminalEmit, TakeSlot, DirectEffect, seqVars
  <2>2. pc[Worker] # "pop"
    BY <1>3, TerminalTaken DEF DirectEffect
  <2> QED
    BY <2>1, <2>2, BlockedFrame
<1>4. CASE ReplacePendingRoot
  <2>1. PICK f \in Families : f = FamilyOf[cur]
    BY <1>4, ReplacePlaces
  <2>2. /\ pc[Worker] = "queued" /\ pc'[Worker] = "pop"
        /\ \A g \in Families : g # f => entries'[g] = entries[g]
        /\ UNCHANGED <<cur, ready>>
    BY <1>4, <2>1, ReplacePlaces
  <2> QED
    BY <2>1, <2>2 DEF BlockedInv
<1>5. ASSUME NEW c \in Clients,
             ClientStep(c) \/ RequestCheckpoint(c) \/ IngestWaitTimesOut(c)
      PROVE  BlockedInv'
  <2>1. UNCHANGED <<ready, cur>> /\ \E label : Goto(c, label)
    BY <1>5 DEF ClientStep, IngestCaughtUp, AppendCheckpoint, ReceiveReply, RequestCheckpoint,
                IngestWaitTimesOut, workerVars
  <2>2. pc'[Worker] = pc[Worker]
    BY <1>0, <2>1 DEF Goto, TypeOK
  <2>3. CASE entries' = entries
    BY <2>1, <2>2, <2>3, BlockedFrame
  <2>4. CASE AppendCheckpoint(c)
    <3>1. PICK e : e = [order |-> <<clock', nextOrdinal[RepoOf[c]]>>,
                        kind |-> "checkpoint", who |-> c]
      OBVIOUS
    <3>2. /\ entries'[RepoOf[c]] = entries[RepoOf[c]] \cup {e}
          /\ \A g \in Families : g # RepoOf[c] => entries'[g] = entries[g]
      BY <1>0, <2>4, <3>1, CheckpointPlaces
    <3>3. e.who \notin Roots
      BY <3>1, SequencerAssumption
    <3> QED
      BY <2>1, <2>2, <3>2, <3>3, BlockedFrame
  <2> QED
    BY <1>5, <2>3, <2>4
    DEF ClientStep, IngestCaughtUp, ReceiveReply, RequestCheckpoint, IngestWaitTimesOut, seqVars
<1>6. ASSUME NEW t \in Tasks, PopReady(t) PROVE BlockedInv'
  BY <1>6, BlockedPop
<1>7. ASSUME NEW t \in Tasks, RunEntry(t) PROVE BlockedInv'
  <2>1. PICK x \in ready[t] : RunsEntry(t, x)
    BY <1>7, RunEntryRuns
  <2>2. /\ \A s \in Tasks : ready'[s] \subseteq ready[s]
        /\ UNCHANGED <<entries, cur>>
    BY <1>7, <2>1 DEF RunsEntry, TypeOK, RunEntry, seqVars, workerVars
  <2>3. pc[Worker] = "pop" => pc'[Worker] = "pop"
    BY <1>0, <2>1 DEF RunsEntry, Goto, TypeOK
  <2> QED
    BY <1>0, <2>2, <2>3 DEF BlockedInv
<1>8. ASSUME NEW t \in Tasks, ReleaseLock(t) PROVE BlockedInv'
  <2>1. UNCHANGED <<entries, ready>> /\ (t # Worker => cur' = cur)
    BY <1>8 DEF ReleaseLock, seqVars
  <2>2. pc[Worker] = "pop" => t # Worker /\ pc'[Worker] = "pop"
    BY <1>0, <1>8 DEF ReleaseLock, Goto, TypeOK
  <2> QED
    BY <2>1, <2>2, BlockedFrame
<1>9. CASE GitStep \/ IngestTerminalError \/ UNCHANGED vars
  BY <1>1, <1>9
  DEF GitStep, GitBegins, EmitStart, EmitExit, EmitAtexit, ConnectionLost, Emit,
      IngestTerminalError, vars, seqVars, workerVars
<1> QED
  BY <1>2, <1>3, <1>4, <1>5, <1>6, <1>7, <1>8, <1>9
  DEF NoGcNext, DaemonStep, WorkerStep, DrainStep

LEMMA InitOrder == Init => OrderInv
<1>1. SUFFICES ASSUME Init PROVE OrderInv
  OBVIOUS
<1>2. Len(stream) = 0 /\ Len(effects) = 0
  <2>1. stream = <<>> /\ effects = <<>>
    BY <1>1 DEF Init
  <2> QED
    BY <2>1
<1>3. \A i \in 1..0 : FALSE
  OBVIOUS
<1>4. /\ \A t \in Tasks : lock[t] = None /\ ready[t] = {}
      /\ \A f \in Families : entries[f] = {}
      /\ \A c \in Clients : c \in Tasks
  BY <1>1 DEF Init, Tasks
<1>5. \A y : ~Ran(y)
  BY <1>2, <1>3 DEF Ran
<1> QED
  BY <1>4, <1>5 DEF OrderInv, OneLock, QueueOrderInv, SettledInv, BlockedInv

OrderIInv == Inv1 /\ Inv2 /\ LifeInv /\ OrderInv

LEMMA OrderHolds == NoGcSpec => []OrderIInv
<1>1. Init => OrderIInv
  BY InitInv1, InitInv2, InitLife, InitOrder DEF OrderIInv
<1>2. OrderIInv /\ [NoGcNext]_vars => OrderIInv'
  <2>1. SUFFICES ASSUME OrderIInv, [NoGcNext]_vars PROVE OrderIInv'
    OBVIOUS
  <2>2. Inv1 /\ Inv2 /\ LifeInv /\ OneLock /\ QueueOrderInv /\ SettledInv /\ BlockedInv
    BY <2>1 DEF OrderIInv, OrderInv
  <2>3. [Next]_vars
    BY <2>1 DEF NoGcNext, Next
  <2>4. Inv1' /\ Inv2' /\ LifeInv'
    BY <2>2, <2>3, TypeStep, ControlStep, Inv2Step, LifeStep DEF Inv1
  <2>5. OneLock' /\ QueueOrderInv' /\ SettledInv' /\ BlockedInv'
    BY <2>1, <2>2, OneLockStep, QueueOrderStep, SettledStep, BlockedStep
  <2> QED
    BY <2>4, <2>5 DEF OrderIInv, OrderInv
<1> QED
  BY <1>1, <1>2, PTL DEF NoGcSpec

(* Between garbage collections the side effects of a family's commands are  *)
(* applied in the order the commands started: when a command that reserved  *)
(* a place ran, no command that git started and reported before it still    *)
(* has one, be it pending, filled, canceled or popped; whatever other tasks *)
(* drain, whatever fails and whichever git process is killed.               *)
THEOREM StartOrderKept == NoGcSpec => []CommandsInStartOrder
<1>1. OrderIInv => CommandsInStartOrder
  <2>1. SUFFICES ASSUME OrderIInv, NEW q \in Roots, NEW r \in Roots, Ran(r),
                        attr[q].hint, attr[r].hint, FamilyOf[q] = FamilyOf[r],
                        startedAt[q] <= startedAt[r],
                        NEW i \in Position(q, {"start"}), NEW j \in Position(r, {"start"}), i < j
                 PROVE  ~Unsettled(q)
    BY DEF CommandsInStartOrder
  <2>2. Precedes(q, r)
    BY <2>1 DEF Precedes, Position, StartsAt
  <2> QED
    BY <2>1, <2>2 DEF OrderIInv, OrderInv, SettledInv
<1> QED
  BY <1>1, OrderHolds, PTL

(* Between garbage collections a checkpoint sees what was reported before   *)
(* it was requested: when its side effect has run, every command of its     *)
(* family whose start was in the ingress at the time of the request is      *)
(* settled.                                                                 *)
THEOREM CheckpointsSeeEarlier == NoGcSpec => []CheckpointAfterEarlierCommands
<1>1. OrderIInv => CheckpointAfterEarlierCommands
  <2>1. SUFFICES ASSUME OrderIInv, NEW c \in Clients, NEW r \in Roots, Ran(c),
                        FamilyOf[r] = RepoOf[c],
                        NEW i \in Position(r, {"start"}), i <= request[c].through
                 PROVE  ~Unsettled(r)
    BY DEF CheckpointAfterEarlierCommands
  <2>2. pc[c] # "idle"
    BY <2>1 DEF OrderIInv, LifeInv, RanInv, Served
  <2>3. Precedes(r, c)
    BY <2>1, <2>2 DEF Precedes, Position, StartsAt
  <2> QED
    BY <2>1, <2>3 DEF OrderIInv, OrderInv, SettledInv
<1> QED
  BY <1>1, OrderHolds, PTL

(* Between garbage collections the processed watermark keeps its promise:   *)
(* when the worker is done with the payload that completed a command, the   *)
(* command is settled, or its entry stands behind a place that is still     *)
(* pending; no other task is ever left to run it.                           *)
THEOREM WatermarkKept == NoGcSpec => []WatermarkCoversEffects
<1>1. OrderIInv => WatermarkCoversEffects
  <2>1. SUFFICES ASSUME OrderIInv, NEW r \in Roots, norm[r] = "completed",
                        pc[Worker] = "idle", Unsettled(r)
                 PROVE  \E e, q \in entries[FamilyOf[r]] :
                            e.who = r /\ q.kind = "pending" /\ Before(q.order, e.order)
    BY DEF WatermarkCoversEffects
  <2> USE DEF OrderIInv, Inv1
  <2>2. slots[r] = None /\ FamilyOf[r] \in Families
    BY <2>1, SequencerAssumption DEF LifeInv, RootInv
  <2>3. ASSUME NEW t \in Tasks, NEW e \in ready[t], e.who = r PROVE FALSE
    <3>1. t # Worker
      BY <2>1, <2>3 DEF LifeInv, EntriesInv
    <3>2. t \in Clients
      BY <3>1, SequencerAssumption DEF Tasks
    <3>3. e.kind = "checkpoint" /\ WellPlaced(e, TaskFamily(t))
      BY <2>1, <2>3, <3>2 DEF OrderInv, BlockedInv, LifeInv, EntriesInv
    <3> QED
      BY <2>3, <3>3, SequencerAssumption DEF WellPlaced
  <2>4. PICK e \in entries[FamilyOf[r]] : e.who = r
    BY <2>1, <2>2, <2>3 DEF Unsettled
  <2>5. e.kind # "pending"
    <3>1. e.order \in Order
      BY <2>1, <2>2, <2>4 DEF TypeOK, Entry
    <3>2. e.order # None
      BY <3>1, SequencerAssumption DEF Order
    <3> QED
      BY <2>1, <2>2, <2>4, <3>2 DEF Inv2, SlotsMatchPending, Replacing
  <2> QED
    BY <2>1, <2>2, <2>4, <2>5 DEF OrderInv, BlockedInv
<1> QED
  BY <1>1, OrderHolds, PTL
=============================================================================
