------------------------ MODULE DaemonLifecycleProofs ------------------------
(***************************************************************************)
(* What DaemonLifecycle guarantees for any number of services and clients, *)
(* kills and deleted files.                                                *)
(***************************************************************************)
EXTENDS DaemonLifecycle, TLAPS

\* Between Acquire and ReleaseLock.
Holding == {"locked", "named", "running", "closing", "unlinked", "unnamed"}

\* Before the listener threads run, and after they have been joined.
BeforeThreads == {"unborn", "spawned", "locked", "named"}
AfterThreads  == {"unlinked", "unnamed", "updating"}

\* A client has the lock while it looks whether it can.
Probing == {"judged", "dead", "probed"}

\* The lock file has one holder, and is held exactly from Acquire to
\* ReleaseLock or while a client probes.
LockInv ==
    /\ \A d \in Daemons : stage[d] \in Holding <=> lock = d
    /\ \A c \in Clients : client[c].at \in Probing <=> lock = c

\* A listener thread runs only after the old socket files are gone, and none
\* starts once the threads have been joined.
ThreadsInv ==
    \A d \in Daemons, s \in Sockets :
        /\ stage[d] \in BeforeThreads => listener[d][s] = "off"
        /\ stage[d] \in AfterThreads => listener[d][s] # "off"

\* A service leaves "running" only when it was told to stop.
ClosingInv ==
    \A d \in Daemons : stage[d] \in {"closing"} \cup AfterThreads => shutting[d]

Inv == TypeOK /\ LockInv /\ ThreadsInv /\ ClosingInv /\ PidNamesHolder /\ ServingIsReachable

-----------------------------------------------------------------------------
(* Types.                                                                   *)

ClientRecord == [op : AllOps, at : ClientStages, child : Daemons \cup {None},
                 pid : Daemons \cup {None}]

LEMMA InitType == Init => TypeOK
<1> SUFFICES ASSUME Init PROVE TypeOK
  OBVIOUS
<1>1. PICK old \in Daemons \cup {None} :
          /\ pidFile = old
          /\ path = [s \in Sockets |-> old]
          /\ stage = [d \in Daemons |-> IF d = old THEN "gone" ELSE "unborn"]
  BY DEF Init
<1>2. stage \in [Daemons -> Stages] /\ path \in [Sockets -> Daemons \cup {None}]
  BY <1>1 DEF Stages
<1>3. client \in [Clients -> ClientRecord]
  BY DEF Init, NoClient, ClientRecord, AllOps, ClientStages
<1>4. 0 \in 0..Crashes /\ 0 \in 0..Deletes
  BY LifecycleAssumption
<1>5. listener \in [Daemons -> [Sockets -> {"off", "bound", "closed"}]]
  BY DEF Init
<1> QED
  BY <1>1, <1>2, <1>3, <1>4, <1>5 DEF Init, TypeOK, ClientRecord

\* A client that goes on keeps its other fields.
LEMMA GotoType ==
    ASSUME TypeOK, NEW c \in Clients, NEW at \in ClientStages, Goto(c, at)
    PROVE  client' \in [Clients -> ClientRecord]
BY DEF TypeOK, ClientRecord, Goto

LEMMA TypeStep ==
    ASSUME TypeOK, [Next]_vars
    PROVE  TypeOK'
<1>1. ASSUME NEW d \in Daemons, DaemonStep(d) PROVE TypeOK'
  <2>1. /\ lock' \in Daemons \cup Clients \cup {None}
        /\ pidFile' \in Daemons \cup {None}
    BY <1>1 DEF TypeOK, DaemonStep, Acquire, WritePid, ClearSockets, BeginClose, JoinAndUnlink,
                RemovePid, ReleaseLock, Exit, Bind, CloseListener, files
  <2>2. path' \in [Sockets -> Daemons \cup {None}]
    BY <1>1 DEF TypeOK, DaemonStep, Acquire, WritePid, ClearSockets, BeginClose, JoinAndUnlink,
                RemovePid, ReleaseLock, Exit, Bind, CloseListener, files
  <2>3. stage' \in [Daemons -> Stages]
    BY <1>1 DEF TypeOK, DaemonStep, Acquire, WritePid, ClearSockets, BeginClose, JoinAndUnlink,
                RemovePid, ReleaseLock, Exit, Bind, CloseListener, Stages
  <2>4. listener' \in [Daemons -> [Sockets -> {"off", "bound", "closed"}]]
    <3>1. CASE \E s \in Sockets : Bind(d, s) \/ CloseListener(d, s)
      <4>1. PICK s \in Sockets, new \in {"bound", "closed"} :
                listener' = [listener EXCEPT ![d] = [listener[d] EXCEPT ![s] = new]]
        BY <3>1 DEF Bind, CloseListener
      <4>2. [listener[d] EXCEPT ![s] = new] \in [Sockets -> {"off", "bound", "closed"}]
        BY <4>1 DEF TypeOK
      <4> QED
        BY <4>1, <4>2 DEF TypeOK
    <3>2. CASE UNCHANGED listener
      BY <3>2 DEF TypeOK
    <3> QED
      BY <1>1, <3>1, <3>2
      DEF DaemonStep, Acquire, WritePid, ClearSockets, BeginClose, JoinAndUnlink, RemovePid,
          ReleaseLock, Exit
  <2>5. UNCHANGED <<shutting, client, parent, faults>>
    BY <1>1 DEF DaemonStep, Acquire, WritePid, ClearSockets, BeginClose, JoinAndUnlink,
                RemovePid, ReleaseLock, Exit, Bind, CloseListener
  <2> QED
    BY <2>1, <2>2, <2>3, <2>4, <2>5 DEF TypeOK, faults
<1>2. ASSUME NEW d \in Daemons, HealthCheck(d) PROVE TypeOK'
  <2>1. client' \in [Clients -> ClientRecord] /\ parent' \in [Clients -> Daemons \cup {None}]
    <3>1. CASE UNCHANGED <<client, parent>>
      BY <3>1 DEF TypeOK, ClientRecord
    <3>2. CASE \E c \in Clients :
                  /\ client' = [client EXCEPT ![c].op = "restart_hard", ![c].at = "look"]
                  /\ parent' = [parent EXCEPT ![c] = d]
      <4>1. PICK c \in Clients :
                  /\ client' = [client EXCEPT ![c] =
                                    [client[c] EXCEPT !.op = "restart_hard", !.at = "look"]]
                  /\ parent' = [parent EXCEPT ![c] = d]
        BY <3>2
      <4>2. /\ client[c] \in ClientRecord
            /\ "restart_hard" \in AllOps /\ "look" \in ClientStages
        BY DEF TypeOK, ClientRecord, AllOps, ClientStages
      <4>3. [client[c] EXCEPT !.op = "restart_hard", !.at = "look"] \in ClientRecord
        BY <4>2 DEF ClientRecord
      <4>4. client' \in [Clients -> ClientRecord]
        BY <4>1, <4>3 DEF TypeOK, ClientRecord
      <4> QED
        BY <4>1, <4>4 DEF TypeOK
    <3> QED
      BY <1>2, <3>1, <3>2 DEF HealthCheck
  <2> QED
    BY <1>2, <2>1 DEF TypeOK, HealthCheck, files, faults, ClientRecord
<1>3. ASSUME NEW d \in Daemons, UptimeExceeded(d) PROVE TypeOK'
  BY <1>3 DEF TypeOK, UptimeExceeded, files, faults
<1>4. ASSUME NEW d \in Daemons, Crash(d) PROVE TypeOK'
  <2>1. crashes' \in 0..Crashes
    BY <1>4, LifecycleAssumption DEF TypeOK, Crash
  <2>2. stage' \in [Daemons -> Stages] /\ lock' \in Daemons \cup Clients \cup {None}
    BY <1>4 DEF TypeOK, Crash, Killed, Stages
  <2> QED
    BY <1>4, <2>1, <2>2 DEF TypeOK, Crash
<1>5. ASSUME NEW s \in Sockets, DeleteSocket(s) PROVE TypeOK'
  <2>1. deletes' \in 0..Deletes
    BY <1>5, LifecycleAssumption DEF TypeOK, DeleteSocket
  <2>2. path' \in [Sockets -> Daemons \cup {None}]
    BY <1>5 DEF TypeOK, DeleteSocket
  <2> QED
    BY <1>5, <2>1, <2>2 DEF TypeOK, DeleteSocket, service
<1>6. ASSUME NEW c \in Clients, ClientStep(c) PROVE TypeOK'
  <2>1. client' \in [Clients -> ClientRecord]
    <3>1. CASE ReadPid(c) \/ \E d \in Daemons : SpawnDaemon(c, d)
      BY <3>1 DEF TypeOK, ReadPid, SpawnDaemon, ClientRecord, ClientStages
    <3>2. CASE \/ Look(c) \/ Judge(c) \/ Judged(c) \/ SendShutdown(c) \/ SeesDead(c)
               \/ LetGo(c) \/ GiveUpOnDeath(c) \/ Kill(c) \/ Check(c)
               \/ ProbeHeld(c) \/ ProbeFree(c) \/ EndProbe(c) \/ WaitedUp(c) \/ WaitFailed(c)
      <4>1. \E at \in ClientStages : Goto(c, at)
        BY <3>2 DEF Look, Judge, Judged, SendShutdown, SeesDead, LetGo, GiveUpOnDeath, Kill,
                    Check, ProbeHeld, ProbeFree, EndProbe, WaitedUp, WaitFailed, AfterStop,
                    ClientStages
      <4> QED
        BY <4>1, GotoType
    <3> QED
      BY <1>6, <3>1, <3>2 DEF ClientStep
  <2>2. lock' \in Daemons \cup Clients \cup {None}
    BY <1>6 DEF TypeOK, ClientStep, Look, Judge, Judged, SendShutdown, SeesDead, LetGo,
                GiveUpOnDeath, ReadPid, Kill, Killed, Check, ProbeHeld, ProbeFree, EndProbe,
                SpawnDaemon, WaitedUp, WaitFailed, files
  <2>3. stage' \in [Daemons -> Stages]
    <3>1. \/ UNCHANGED stage
          \/ \E d \in Daemons \cup {None}, new \in {"gone", "spawned"} :
                stage' = [stage EXCEPT ![d] = new]
      BY <1>6 DEF TypeOK, ClientStep, Look, Judge, Judged, SendShutdown, SeesDead, LetGo,
                  GiveUpOnDeath, ReadPid, Kill, Killed, Check, ProbeHeld, ProbeFree, EndProbe,
                  SpawnDaemon, WaitedUp, WaitFailed, files, service
    <3> QED
      BY <3>1 DEF TypeOK, Stages
  <2>4. shutting' \in [Daemons -> BOOLEAN]
    BY <1>6 DEF TypeOK, ClientStep, Look, Judge, Judged, SendShutdown, SeesDead, LetGo,
                GiveUpOnDeath, ReadPid, Kill, Check, ProbeHeld, ProbeFree, EndProbe,
                SpawnDaemon, WaitedUp, WaitFailed, service
  <2>5. UNCHANGED <<pidFile, path, listener, parent, faults>>
    BY <1>6 DEF ClientStep, Look, Judge, Judged, SendShutdown, SeesDead, LetGo,
                GiveUpOnDeath, ReadPid, Kill, Check, ProbeHeld, ProbeFree, EndProbe,
                SpawnDaemon, WaitedUp, WaitFailed, service, files
  <2> QED
    BY <2>1, <2>2, <2>3, <2>4, <2>5 DEF TypeOK, faults, ClientRecord
<1>7. ASSUME NEW c \in Clients, NEW op \in AllOps, Begin(c, op) PROVE TypeOK'
  <2>1. client' \in [Clients -> ClientRecord]
    BY <1>7 DEF TypeOK, Begin, ClientRecord, ClientStages
  <2> QED
    BY <1>7, <2>1 DEF TypeOK, Begin, files, service, faults, ClientRecord
<1>8. CASE UNCHANGED vars
  BY <1>8 DEF TypeOK, vars
<1> QED
  BY <1>1, <1>2, <1>3, <1>4, <1>5, <1>6, <1>7, <1>8 DEF Next

-----------------------------------------------------------------------------
(* The lock.                                                                *)

\* What a step does to the lock, to the stages of services and to where clients
\* are: a service takes the lock or gives it back,
ServiceLocks(d) ==
    /\ \/ stage[d] = "spawned" /\ lock = None /\ lock' = d /\ stage'[d] = "locked"
       \/ stage[d] = "unnamed" /\ lock' = None /\ stage'[d] = "updating"
    /\ \A e \in Daemons : e # d => stage'[e] = stage[e]
    /\ UNCHANGED client

ProbesStay == \A c \in Clients : client[c].at \in Probing <=> client'[c].at \in Probing

\* goes on with the lock or without,
ServiceMoves(d) ==
    /\ stage[d] \in Holding <=> stage'[d] \in Holding
    /\ \A e \in Daemons : e # d => stage'[e] = stage[e]
    /\ UNCHANGED lock
    /\ ProbesStay

\* or is killed;
ServiceEnds(d) ==
    /\ stage'[d] = "gone"
    /\ \A e \in Daemons : e # d => stage'[e] = stage[e]
    /\ lock' = IF lock = d THEN None ELSE lock
    /\ ProbesStay

\* a client takes the lock or gives it back.
ClientLocks(c) ==
    /\ \/ lock = None /\ lock' = c /\ client'[c].at \in Probing
       \/ client[c].at \in Probing /\ lock' = None /\ client'[c].at \notin Probing
    /\ \A b \in Clients : b # c => client'[b] = client[b]
    /\ UNCHANGED stage

Move == \/ \E d \in Daemons : ServiceLocks(d) \/ ServiceMoves(d) \/ ServiceEnds(d)
        \/ \E c \in Clients : ClientLocks(c)
        \/ UNCHANGED <<lock, stage>> /\ ProbesStay

LEMMA LockMoves ==
    ASSUME TypeOK, [Next]_vars
    PROVE  Move
<1> USE DEF ProbesStay
<1>1. ASSUME NEW d \in Daemons, Acquire(d) \/ ReleaseLock(d) PROVE Move
  <2>1. CASE stage[d] = "spawned" /\ lock # None /\ stage' = [stage EXCEPT ![d] = "gone"]
             /\ UNCHANGED <<lock, client>>
    BY <2>1 DEF TypeOK, Holding, Move, ServiceMoves
  <2>2. CASE ~(stage[d] = "spawned" /\ lock # None)
    BY <1>1, <2>2 DEF TypeOK, Acquire, ReleaseLock, Move, ServiceLocks
  <2> QED
    BY <1>1, <2>1, <2>2 DEF Acquire, ReleaseLock
<1>2. ASSUME NEW d \in Daemons,
             WritePid(d) \/ ClearSockets(d) \/ BeginClose(d) \/ JoinAndUnlink(d) \/ RemovePid(d) \/ Exit(d)
      PROVE  Move
  BY <1>2 DEF TypeOK, WritePid, ClearSockets, BeginClose, JoinAndUnlink, RemovePid, Exit,
              Holding, files, Move, ServiceMoves
<1>3. ASSUME NEW d \in Daemons, Crash(d) PROVE Move
  BY <1>3 DEF TypeOK, Crash, Killed, Move, ServiceEnds
<1>4. ASSUME NEW c \in Clients, Kill(c) PROVE Move
  <2>1. \A b \in Clients : client[b].at \in Probing <=> client'[b].at \in Probing
    <3>1. client[c].at = "kill" /\ client'[c].at \in {"reaping", "check", "ok"}
      BY <1>4 DEF TypeOK, Kill, Goto, AfterStop
    <3>2. \A b \in Clients : b # c => client'[b] = client[b]
      BY <1>4 DEF TypeOK, Kill, Goto
    <3> QED
      BY <3>1, <3>2 DEF Probing
  <2>2. CASE UNCHANGED <<lock, stage>>
    BY <2>1, <2>2 DEF Move
  <2>3. CASE Killed(client[c].pid)
    <3>1. CASE client[c].pid \in Daemons
      BY <2>1, <2>3, <3>1 DEF TypeOK, Killed, Move, ServiceEnds
    <3>2. CASE client[c].pid = None
      <4>1. stage' = stage
        <5>1. None \notin DOMAIN stage
          BY LifecycleAssumption DEF TypeOK
        <5> QED
          BY <2>3, <3>2, <5>1 DEF Killed, TypeOK
      <4>2. lock' = lock
        BY <2>3, <3>2 DEF Killed
      <4> QED
        BY <2>1, <4>1, <4>2 DEF Move
    <3> QED
      BY <3>1, <3>2 DEF TypeOK
  <2> QED
    BY <1>4, <2>2, <2>3 DEF Kill
<1>5. ASSUME NEW c \in Clients,
             \/ (Judge(c) /\ lock = None) \/ SeesDead(c) \/ ProbeFree(c)
             \/ Judged(c) \/ LetGo(c) \/ EndProbe(c)
      PROVE  Move
  BY <1>5 DEF TypeOK, Judge, SeesDead, ProbeFree, Judged, LetGo, EndProbe, Goto, AfterStop,
              Probing, service, Move, ClientLocks
<1>6. ASSUME NEW c \in Clients, NEW d \in Daemons, SpawnDaemon(c, d) PROVE Move
  BY <1>6 DEF TypeOK, SpawnDaemon, Probing, Holding, files, Move, ServiceMoves
<1>7. ASSUME NEW c \in Clients,
             \/ Look(c) \/ (Judge(c) /\ lock # None) \/ SendShutdown(c) \/ GiveUpOnDeath(c)
             \/ ReadPid(c) \/ Check(c) \/ ProbeHeld(c) \/ WaitedUp(c) \/ WaitFailed(c)
             \/ \E op \in AllOps : Begin(c, op)
      PROVE  Move
  <2>1. /\ client[c].at \notin Probing
        /\ \A b \in Clients : b # c => client'[b] = client[b]
    BY <1>7 DEF TypeOK, Look, Judge, SendShutdown, GiveUpOnDeath, ReadPid, Check, ProbeHeld,
                WaitedUp, WaitFailed, Begin, Goto, Probing
  <2>2. client'[c].at \notin Probing
    <3>1. CASE ReadPid(c)
      BY <3>1 DEF TypeOK, ReadPid, Probing
    <3>4. CASE \E op \in AllOps : Begin(c, op)
      <4>1. PICK op \in AllOps, at \in {"check", "stop", "look"} :
                client' = [client EXCEPT ![c].op = op, ![c].at = at]
        BY <3>4 DEF Begin
      <4>2. client'[c].at = at
        BY <4>1 DEF TypeOK
      <4> QED
        BY <4>2 DEF Probing
    <3>2. CASE SendShutdown(c)
      BY <3>2 DEF TypeOK, SendShutdown, Goto, Probing
    <3>3. CASE Look(c) \/ (Judge(c) /\ lock # None) \/ GiveUpOnDeath(c) \/ Check(c)
               \/ ProbeHeld(c) \/ WaitedUp(c) \/ WaitFailed(c)
      BY <3>3 DEF TypeOK, Look, Judge, GiveUpOnDeath, Check, ProbeHeld, WaitedUp, WaitFailed,
                  Goto, AfterStop, Probing
    <3> QED
      BY <1>7, <3>1, <3>2, <3>3, <3>4
  <2>3. UNCHANGED <<lock, stage>>
    BY <1>7 DEF Look, Judge, SendShutdown, GiveUpOnDeath, ReadPid, Check, ProbeHeld,
                WaitedUp, WaitFailed, Begin, files, service
  <2> QED
    BY <2>1, <2>2, <2>3 DEF Move
<1>8. ASSUME NEW d \in Daemons, HealthCheck(d) PROVE Move
  <2>1. UNCHANGED <<lock, stage>>
    BY <1>8 DEF HealthCheck, files
  <2>2. \A c \in Clients : client[c].at \in Probing <=> client'[c].at \in Probing
    <3>1. CASE UNCHANGED client
      BY <3>1
    <3>2. ASSUME NEW b \in Clients, client[b].at = "idle",
                 client' = [client EXCEPT ![b].op = "restart_hard", ![b].at = "look"]
          PROVE  \A c \in Clients : client[c].at \in Probing <=> client'[c].at \in Probing
      <4>1. \A c \in Clients : c # b => client'[c] = client[c]
        BY <3>2 DEF TypeOK
      <4>2. client'[b].at = "look"
        BY <3>2 DEF TypeOK
      <4> QED
        BY <3>2, <4>1, <4>2 DEF Probing
    <3> QED
      BY <1>8, <3>1, <3>2 DEF HealthCheck
  <2> QED
    BY <2>1, <2>2 DEF Move
<1>9. CASE \/ \E d \in Daemons : UptimeExceeded(d)
           \/ \E d \in Daemons, s \in Sockets : Bind(d, s) \/ CloseListener(d, s)
           \/ \E s \in Sockets : DeleteSocket(s)
           \/ UNCHANGED vars
  BY <1>9 DEF UptimeExceeded, Bind, CloseListener, DeleteSocket, vars, files, service, Move
<1> QED
  BY <1>1, <1>2, <1>3, <1>4, <1>5, <1>6, <1>7, <1>8, <1>9 DEF Next, DaemonStep, ClientStep

LEMMA LockStep ==
    ASSUME TypeOK, LockInv, [Next]_vars
    PROVE  LockInv'
BY LockMoves, LifecycleAssumption
DEF TypeOK, LockInv, Holding, Move, ServiceLocks, ServiceMoves, ServiceEnds, ClientLocks, ProbesStay

-----------------------------------------------------------------------------
(* The files.                                                               *)

\* The listener threads and the shutdown request.
LEMMA ThreadsStep ==
    ASSUME TypeOK, ThreadsInv, ClosingInv, [Next]_vars
    PROVE  ThreadsInv' /\ ClosingInv'
<1>1. ASSUME NEW d \in Daemons,
             \/ Acquire(d) \/ WritePid(d) \/ ClearSockets(d) \/ BeginClose(d)
             \/ JoinAndUnlink(d) \/ RemovePid(d) \/ ReleaseLock(d) \/ Exit(d) \/ Crash(d)
      PROVE  ThreadsInv' /\ ClosingInv'
  BY <1>1 DEF TypeOK, ThreadsInv, ClosingInv, BeforeThreads, AfterThreads, Acquire, WritePid,
              ClearSockets, BeginClose, JoinAndUnlink, RemovePid, ReleaseLock, Exit, Crash, Killed
<1>2. ASSUME NEW d \in Daemons, NEW s \in Sockets, Bind(d, s) \/ CloseListener(d, s)
      PROVE  ThreadsInv' /\ ClosingInv'
  <2>1. PICK new \in {"bound", "closed"} : listener' = [listener EXCEPT ![d][s] = new]
    BY <1>2 DEF Bind, CloseListener
  <2>2. \A e \in Daemons, t \in Sockets :
            listener'[e][t] = IF e = d /\ t = s THEN new ELSE listener[e][t]
    BY <2>1 DEF TypeOK
  <2>3. stage[d] \notin BeforeThreads /\ UNCHANGED <<stage, shutting>>
    BY <1>2 DEF ThreadsInv, BeforeThreads, Bind, CloseListener, Alive
  <2> QED
    BY <2>1, <2>2, <2>3 DEF ThreadsInv, ClosingInv
<1>3. ASSUME NEW c \in Clients, Kill(c) PROVE ThreadsInv' /\ ClosingInv'
  <2>1. \A d \in Daemons : stage'[d] = stage[d] \/ stage'[d] = "gone"
    BY <1>3 DEF TypeOK, Kill, Killed
  <2> QED
    BY <1>3, <2>1 DEF ThreadsInv, ClosingInv, Kill, BeforeThreads, AfterThreads
<1>4. ASSUME NEW c \in Clients, NEW d \in Daemons, SpawnDaemon(c, d)
      PROVE  ThreadsInv' /\ ClosingInv'
  BY <1>4 DEF TypeOK, ThreadsInv, ClosingInv, BeforeThreads, AfterThreads, SpawnDaemon
<1>5. ASSUME UNCHANGED <<stage, listener>>, \A d \in Daemons : shutting[d] => shutting'[d]
      PROVE  ThreadsInv' /\ ClosingInv'
  BY <1>5 DEF ThreadsInv, ClosingInv
<1>6. ASSUME NEW c \in Clients, SendShutdown(c) PROVE ThreadsInv' /\ ClosingInv'
  BY <1>5, <1>6 DEF TypeOK, SendShutdown
<1>7. ASSUME NEW d \in Daemons, HealthCheck(d) \/ UptimeExceeded(d)
      PROVE  ThreadsInv' /\ ClosingInv'
  BY <1>5, <1>7 DEF TypeOK, HealthCheck, UptimeExceeded
<1>8. ASSUME NEW c \in Clients,
             \/ Look(c) \/ Judge(c) \/ Judged(c) \/ SeesDead(c) \/ LetGo(c) \/ GiveUpOnDeath(c)
             \/ ReadPid(c) \/ Check(c) \/ ProbeHeld(c) \/ ProbeFree(c) \/ EndProbe(c)
             \/ WaitedUp(c) \/ WaitFailed(c) \/ \E op \in AllOps : Begin(c, op)
      PROVE  UNCHANGED service
  BY <1>8 DEF Look, Judge, Judged, SeesDead, LetGo, GiveUpOnDeath, ReadPid, Check, ProbeHeld,
              ProbeFree, EndProbe, WaitedUp, WaitFailed, Begin, service
<1>9. CASE UNCHANGED service \/ UNCHANGED vars \/ \E s \in Sockets : DeleteSocket(s)
  BY <1>5, <1>9 DEF service, vars, DeleteSocket
<1> QED
  BY <1>1, <1>2, <1>3, <1>4, <1>6, <1>7, <1>8, <1>9 DEF Next, DaemonStep, ClientStep

\* Only the holder of the lock writes the pid file.
LEMMA PidStep ==
    ASSUME TypeOK, LockInv, PidNamesHolder, [Next]_vars
    PROVE  PidNamesHolder'
<1> DEFINE Named == {"named", "running", "closing", "unlinked"}
<1>1. ASSUME NEW d \in Daemons, WritePid(d) PROVE PidNamesHolder'
  BY <1>1 DEF TypeOK, LockInv, Holding, PidNamesHolder, WritePid
<1>2. ASSUME NEW d \in Daemons, RemovePid(d) PROVE PidNamesHolder'
  BY <1>2 DEF TypeOK, LockInv, Holding, PidNamesHolder, RemovePid
<1>3. CASE UNCHANGED pidFile /\ \A d \in Daemons : stage'[d] \in Named => stage[d] \in Named
  BY <1>3 DEF PidNamesHolder
<1>4. ASSUME NEW d \in Daemons,
             \/ Acquire(d) \/ ClearSockets(d) \/ BeginClose(d) \/ JoinAndUnlink(d)
             \/ ReleaseLock(d) \/ Exit(d) \/ Crash(d)
      PROVE  UNCHANGED pidFile /\ \A e \in Daemons : stage'[e] \in Named => stage[e] \in Named
  BY <1>4 DEF TypeOK, Acquire, ClearSockets, BeginClose, JoinAndUnlink, ReleaseLock, Exit,
              Crash, Killed, files
<1>5. ASSUME NEW c \in Clients, Kill(c)
      PROVE  UNCHANGED pidFile /\ \A e \in Daemons : stage'[e] \in Named => stage[e] \in Named
  BY <1>5 DEF TypeOK, Kill, Killed
<1>6. ASSUME NEW c \in Clients, NEW d \in Daemons, SpawnDaemon(c, d)
      PROVE  UNCHANGED pidFile /\ \A e \in Daemons : stage'[e] \in Named => stage[e] \in Named
  BY <1>6 DEF TypeOK, SpawnDaemon, files
<1>7. ASSUME NEW c \in Clients,
             \/ Look(c) \/ Judge(c) \/ Judged(c) \/ SendShutdown(c) \/ SeesDead(c) \/ LetGo(c)
             \/ GiveUpOnDeath(c) \/ ReadPid(c) \/ Check(c) \/ ProbeHeld(c) \/ ProbeFree(c)
             \/ EndProbe(c) \/ WaitedUp(c) \/ WaitFailed(c) \/ \E op \in AllOps : Begin(c, op)
      PROVE  UNCHANGED <<pidFile, stage>>
  BY <1>7 DEF Look, Judge, Judged, SendShutdown, SeesDead, LetGo, GiveUpOnDeath, ReadPid, Check,
              ProbeHeld, ProbeFree, EndProbe, WaitedUp, WaitFailed, Begin, service, files
<1>8. CASE \/ \E d \in Daemons : \/ HealthCheck(d) \/ UptimeExceeded(d)
                                 \/ \E s \in Sockets : Bind(d, s) \/ CloseListener(d, s)
           \/ \E s \in Sockets : DeleteSocket(s)
           \/ UNCHANGED vars
  BY <1>3, <1>8
  DEF HealthCheck, UptimeExceeded, Bind, CloseListener, DeleteSocket, vars, service, files
<1> QED
  BY <1>1, <1>2, <1>3, <1>4, <1>5, <1>6, <1>7, <1>8 DEF Next, DaemonStep, ClientStep

\* Only the holder of the lock takes away the files of another service.
LEMMA ReachableStep ==
    ASSUME Inv, [Next]_vars
    PROVE  ServingIsReachable'
<1> USE DEF Inv
<1> DEFINE Serves(d, s) == Alive(d) /\ listener[d][s] = "bound" /\ ~shutting[d]
<1>0. /\ \A d \in Daemons, s \in Sockets : Serves(d, s) => lock = d /\ stage[d] = "running"
      /\ \A d, e \in Daemons : stage[d] \in Holding /\ stage[e] \in Holding => d = e
      /\ deletes \in Nat /\ None \notin Daemons
  <2>1. \A d \in Daemons, s \in Sockets : Serves(d, s) => stage[d] = "running"
    BY DEF TypeOK, Stages, ThreadsInv, ClosingInv, BeforeThreads, AfterThreads, Alive
  <2>2. \A d, e \in Daemons : stage[d] \in Holding /\ stage[e] \in Holding => d = e
    BY DEF LockInv
  <2> QED
    BY <2>1, <2>2, LifecycleAssumption DEF LockInv, Holding, TypeOK
<1>1. ASSUME UNCHANGED deletes,
             \A d \in Daemons, s \in Sockets : Serves(d, s)' => Serves(d, s) /\ path'[s] = path[s]
      PROVE  ServingIsReachable'
  BY <1>1 DEF ServingIsReachable
<1>2. ASSUME NEW d \in Daemons, ClearSockets(d) \/ JoinAndUnlink(d) PROVE ServingIsReachable'
  <2>1. /\ stage[d] \in {"named", "closing"} /\ UNCHANGED <<listener, shutting, deletes>>
        /\ \A e \in Daemons : e # d => stage'[e] = stage[e]
    BY <1>2 DEF TypeOK, ClearSockets, JoinAndUnlink, faults
  <2>2. \A e \in Daemons, s \in Sockets : e # d => ~Serves(e, s)'
    BY <1>0, <2>1 DEF Holding, Alive
  <2>3. \A s \in Sockets : ~Serves(d, s)'
    BY <2>1 DEF ThreadsInv, ClosingInv, BeforeThreads
  <2> QED
    BY <2>2, <2>3 DEF ServingIsReachable
<1>3. ASSUME NEW d \in Daemons, NEW s \in Sockets, Bind(d, s) PROVE ServingIsReachable'
  <2>1. stage[d] \in {"running", "closing"}
    BY <1>3 DEF TypeOK, Bind, Alive, Stages, ThreadsInv, AfterThreads
  <2>2. /\ \A e \in Daemons, t \in Sockets :
               listener'[e][t] = IF e = d /\ t = s THEN "bound" ELSE listener[e][t]
        /\ \A t \in Sockets : path'[t] = IF t = s THEN d ELSE path[t]
        /\ UNCHANGED <<stage, shutting, deletes>>
    BY <1>3 DEF TypeOK, Bind, faults
  <2>3. \A e \in Daemons, t \in Sockets : e # d => ~Serves(e, t)'
    BY <1>0, <2>1, <2>2 DEF Holding, Alive
  <2> QED
    BY <2>2, <2>3 DEF ServingIsReachable, Alive
<1>4. ASSUME NEW d \in Daemons, NEW s \in Sockets, CloseListener(d, s) PROVE ServingIsReachable'
  <2>1. /\ shutting[d] /\ path[s] = d
        /\ \A e \in Daemons, t \in Sockets :
               listener'[e][t] = IF e = d /\ t = s THEN "closed" ELSE listener[e][t]
        /\ \A t \in Sockets : path'[t] = IF t = s THEN None ELSE path[t]
        /\ UNCHANGED <<stage, shutting, deletes>>
    BY <1>4 DEF TypeOK, CloseListener, faults
  <2> QED
    BY <1>0, <2>1 DEF ServingIsReachable, Alive
<1>5. ASSUME NEW s \in Sockets, DeleteSocket(s) PROVE ServingIsReachable'
  BY <1>0, <1>5 DEF DeleteSocket, ServingIsReachable
\* The steps that take no socket file and start no service's threads.
<1>6. ASSUME UNCHANGED <<path, listener, deletes>>,
             \A d \in Daemons : /\ shutting[d] => shutting'[d]
                                /\ Alive(d)' => Alive(d) \/ stage[d] = "unborn"
      PROVE  ServingIsReachable'
  <2>1. \A d \in Daemons, s \in Sockets : Serves(d, s)' => Serves(d, s)
    BY <1>6 DEF TypeOK, ThreadsInv, BeforeThreads
  <2> QED
    BY <1>1, <1>6, <2>1
<1>7. ASSUME NEW d \in Daemons,
             \/ Acquire(d) \/ WritePid(d) \/ BeginClose(d) \/ RemovePid(d) \/ ReleaseLock(d)
             \/ Exit(d) \/ Crash(d) \/ HealthCheck(d) \/ UptimeExceeded(d)
      PROVE  ServingIsReachable'
  <2>1. UNCHANGED <<path, listener, deletes>>
    BY <1>7 DEF Acquire, WritePid, BeginClose, RemovePid, ReleaseLock, Exit, Crash,
                HealthCheck, UptimeExceeded, files, faults
  <2>2. \A e \in Daemons : Alive(e)' => Alive(e) \/ stage[e] = "unborn"
    BY <1>7 DEF TypeOK, Acquire, WritePid, BeginClose, RemovePid, ReleaseLock, Exit, Crash,
                Killed, HealthCheck, UptimeExceeded, files, Alive
  <2>3. \A e \in Daemons : shutting[e] => shutting'[e]
    BY <1>7 DEF TypeOK, Acquire, WritePid, BeginClose, RemovePid, ReleaseLock, Exit, Crash,
                HealthCheck, UptimeExceeded
  <2> QED
    BY <1>6, <2>1, <2>2, <2>3
<1>8. ASSUME NEW c \in Clients, ClientStep(c) PROVE ServingIsReachable'
  <2>1. UNCHANGED <<path, listener, deletes>>
    BY <1>8 DEF ClientStep, Look, Judge, Judged, SendShutdown, SeesDead, LetGo, GiveUpOnDeath,
                ReadPid, Kill, Check, ProbeHeld, ProbeFree, EndProbe, SpawnDaemon, WaitedUp,
                WaitFailed, service, files, faults
  <2>2. \A e \in Daemons : Alive(e)' => Alive(e) \/ stage[e] = "unborn"
    <3>1. \/ UNCHANGED stage
          \/ \E d \in Daemons : stage[d] = "unborn" /\ stage' = [stage EXCEPT ![d] = "spawned"]
          \/ \E d \in Daemons \cup {None} : stage' = [stage EXCEPT ![d] = "gone"]
      BY <1>8 DEF TypeOK, ClientStep, Look, Judge, Judged, SendShutdown, SeesDead, LetGo,
                  GiveUpOnDeath, ReadPid, Kill, Killed, Check, ProbeHeld, ProbeFree, EndProbe,
                  SpawnDaemon, WaitedUp, WaitFailed, files, service
    <3> QED
      BY <3>1 DEF TypeOK, Alive
  <2>3. \A e \in Daemons : shutting[e] => shutting'[e]
    BY <1>8 DEF TypeOK, ClientStep, Look, Judge, Judged, SendShutdown, SeesDead, LetGo,
                GiveUpOnDeath, ReadPid, Kill, Check, ProbeHeld, ProbeFree, EndProbe,
                SpawnDaemon, WaitedUp, WaitFailed, service
  <2> QED
    BY <1>6, <2>1, <2>2, <2>3
<1>9. CASE (\E c \in Clients, op \in AllOps : Begin(c, op)) \/ UNCHANGED vars
  <2>1. UNCHANGED <<path, listener, deletes, stage, shutting>>
    BY <1>9 DEF Begin, vars, files, service, faults
  <2> QED
    BY <1>6, <2>1 DEF Alive
<1> QED
  BY <1>2, <1>3, <1>4, <1>5, <1>7, <1>8, <1>9 DEF Next, DaemonStep

LEMMA InvHolds == Spec => []Inv
<1>1. Init => Inv
  <2> SUFFICES ASSUME Init PROVE Inv
    OBVIOUS
  <2>1. TypeOK
    BY InitType
  <2>2. \A d \in Daemons : stage[d] \in {"unborn", "gone"}
    BY DEF Init
  <2>3. LockInv
    BY <2>2, LifecycleAssumption DEF Init, LockInv, Holding, Probing, NoClient
  <2>4. ThreadsInv /\ ClosingInv /\ PidNamesHolder /\ ServingIsReachable
    BY <2>2 DEF Init, ThreadsInv, ClosingInv, PidNamesHolder, ServingIsReachable, AfterThreads,
                Alive
  <2> QED
    BY <2>1, <2>3, <2>4 DEF Inv
<1>2. Inv /\ [Next]_vars => Inv'
  BY TypeStep, LockStep, ThreadsStep, PidStep, ReachableStep DEF Inv
<1> QED
  BY <1>1, <1>2, PTL DEF Spec

(* The service state is well typed in every reachable state: a client never *)
(* kills, nor a file names, what is not a service.                          *)
THEOREM LifecycleTypeCorrect == Spec => []TypeOK
BY InvHolds, PTL DEF Inv

(* However many services and clients come, go and are killed, the pid file  *)
(* names the service that holds the lock from the moment it has written its *)
(* pid until it takes it back: "hard" forms of the commands reach it.       *)
THEOREM PidFileIsHolders == Spec => []PidNamesHolder
BY InvHolds, PTL DEF Inv

(* While nobody else deletes socket files, a service that is not told to    *)
(* stop keeps the paths it bound: no other service that starts or ends      *)
(* takes them from it, not even one that is late with its own shutdown.     *)
THEOREM ServingKeepsItsPaths == Spec => []ServingIsReachable
BY InvHolds, PTL DEF Inv

==============================================================================
