--------------------------- MODULE DaemonLifecycle ---------------------------
(***************************************************************************)
(* How background services come and go on one machine (the Unix build).    *)
(*                                                                         *)
(* A service takes the lock file, writes its pid file, removes the socket  *)
(* files an earlier service left, and lets two listener threads bind the   *)
(* control and the trace socket.  It goes when a shutdown is requested (by *)
(* a client, by the health check, by the uptime limit), undoing all that   *)
(* in order, or when it is killed, undoing none of it.                     *)
(*                                                                         *)
(* Clients are short processes: commands that need a service, and "bg      *)
(* start", "restart" and "shutdown".  A client learns whether a service    *)
(* is there by connecting to both sockets and by taking the lock itself    *)
(* for a moment, during which no service can start.                        *)
(***************************************************************************)
EXTENDS Naturals, FiniteSets

CONSTANTS
    Daemons,      \* processes that may run as the service, each at most once
    Clients,      \* processes that may be clients, each at most once
    None,         \* no process, no file
    Ops,          \* what clients may be asked to do, a subset of AllOps
    Stale,        \* a killed service's files may be there from the start
    Crashes,      \* how many services may be killed by somebody else
    Deletes,      \* how often a socket file may be deleted by somebody else
    Ageing,       \* a service may reach its uptime limit
    Late          \* a client's wait for the end of a service may time out

AllOps == {"ensure", "start", "restart", "restart_hard", "reinstall",
           "shutdown", "shutdown_hard", "stop"}

\* Two forms of "bg restart", and restart_daemon, which the installer calls.
Restarts == {"restart", "restart_hard", "reinstall"}

ASSUME LifecycleAssumption ==
    /\ Daemons # {} /\ IsFiniteSet(Daemons) /\ IsFiniteSet(Clients)
    /\ None \notin Daemons \cup Clients /\ Daemons \cap Clients = {}
    /\ Ops \subseteq AllOps
    /\ Crashes \in Nat /\ Deletes \in Nat
    /\ {Stale, Ageing, Late} \subseteq BOOLEAN

VARIABLES
    lock,         \* who holds the lock file: a service, a probing client
    pidFile,      \* the service daemon.pid.json names
    path,         \* the service that bound the file at each socket path
    stage,        \* how far each service is in run_daemon
    listener,     \* its two listener threads
    shutting,     \* its shutdown has been requested
    client,       \* [op, at, child, pid] of each client
    parent,       \* the service that spawned a client to restart it
    crashes, deletes

vars == <<lock, pidFile, path, stage, listener, shutting, client, parent,
          crashes, deletes>>

files == <<lock, pidFile, path>>
service == <<stage, listener, shutting>>
faults == <<crashes, deletes>>

Sockets == {"control", "trace"}

\* The places of run_daemon: nothing is undone before "closing", and the
\* process that is "updating" no longer holds the lock.
Stages == {"unborn", "spawned", "locked", "named", "running", "closing",
           "unlinked", "unnamed", "updating", "gone"}
Alive(d) == stage[d] \notin {"unborn", "gone"}

ClientStages == {"idle", "look", "judge", "judged", "stop", "dying", "dead",
                 "read_pid", "kill", "reaping", "check", "probe", "probed",
                 "spawn", "wait", "ok", "failed"}

NoClient == [op |-> "ensure", at |-> "idle", child |-> None, pid |-> None]

TypeOK ==
    /\ lock \in Daemons \cup Clients \cup {None}
    /\ pidFile \in Daemons \cup {None}
    /\ path \in [Sockets -> Daemons \cup {None}]
    /\ stage \in [Daemons -> Stages]
    /\ listener \in [Daemons -> [Sockets -> {"off", "bound", "closed"}]]
    /\ shutting \in [Daemons -> BOOLEAN]
    /\ client \in [Clients -> [op : AllOps, at : ClientStages,
                               child : Daemons \cup {None},
                               pid : Daemons \cup {None}]]
    /\ parent \in [Clients -> Daemons \cup {None}]
    /\ crashes \in 0 .. Crashes /\ deletes \in 0 .. Deletes

\* Nothing runs.  The files of a service that was killed may still be there:
\* its pid file, and its sockets, that nobody answers.
Init ==
    /\ lock = None
    /\ \E old \in IF Stale THEN Daemons \cup {None} ELSE {None} :
           /\ pidFile = old
           /\ path = [s \in Sockets |-> old]
           /\ stage = [d \in Daemons |-> IF d = old THEN "gone" ELSE "unborn"]
    /\ listener = [d \in Daemons |-> [s \in Sockets |-> "off"]]
    /\ shutting = [d \in Daemons |-> FALSE]
    /\ client = [c \in Clients |-> NoClient]
    /\ parent = [c \in Clients |-> None]
    /\ crashes = 0 /\ deletes = 0

\* local_socket_connects_with_timeout: the file is there and its owner lives
\* and still listens on it.
Connects(s) ==
    /\ path[s] # None
    /\ Alive(path[s])
    /\ listener[path[s]][s] = "bound"

\* daemon_is_up: both sockets take a connection.
IsUp == \A s \in Sockets : Connects(s)

-----------------------------------------------------------------------------
(* The service *)

\* (mutant) The pid is written before the lock is known to be held.
AcquireAfterPid(d) ==
    /\ stage[d] = "spawned"
    /\ \/ lock = None /\ lock' = d /\ stage' = [stage EXCEPT ![d] = "locked"]
       \/ lock # None /\ stage' = [stage EXCEPT ![d] = "gone"] /\ UNCHANGED lock
    /\ pidFile' = d
    /\ UNCHANGED <<path, listener, shutting, client, parent, faults>>

\* (mutant) Old socket files are removed before the lock is taken.
AcquireAfterClearing(d) ==
    /\ stage[d] = "spawned"
    /\ \/ lock = None /\ lock' = d /\ stage' = [stage EXCEPT ![d] = "locked"]
       \/ lock # None /\ stage' = [stage EXCEPT ![d] = "gone"] /\ UNCHANGED lock
    /\ path' = [s \in Sockets |-> None]
    /\ UNCHANGED <<pidFile, listener, shutting, client, parent, faults>>

\* DaemonLock::acquire: a service that finds the lock held, be it by a client
\* that only looks, gives up.
Acquire(d) ==
    /\ stage[d] = "spawned"
    /\ \/ lock = None /\ lock' = d /\ stage' = [stage EXCEPT ![d] = "locked"]
       \/ lock # None /\ stage' = [stage EXCEPT ![d] = "gone"] /\ UNCHANGED lock
    /\ UNCHANGED <<pidFile, path, listener, shutting, client, parent, faults>>

\* write_pid_metadata.
WritePid(d) ==
    /\ stage[d] = "locked"
    /\ pidFile' = d
    /\ stage' = [stage EXCEPT ![d] = "named"]
    /\ UNCHANGED <<lock, path, listener, shutting, client, parent, faults>>

\* The socket files an earlier service left are removed and the threads start.
ClearSockets(d) ==
    /\ stage[d] = "named"
    /\ path' = [s \in Sockets |-> None]
    /\ stage' = [stage EXCEPT ![d] = "running"]
    /\ UNCHANGED <<lock, pidFile, listener, shutting, client, parent, faults>>

\* control_listener_loop_actor, trace_listener_loop_actor: the thread binds
\* its socket, whatever is at its path.
Bind(d, s) ==
    /\ Alive(d) /\ stage[d] \notin {"spawned", "locked", "named"}
    /\ listener[d][s] = "off"
    /\ listener' = [listener EXCEPT ![d][s] = "bound"]
    /\ path' = [path EXCEPT ![s] = d]
    /\ UNCHANGED <<lock, pidFile, stage, shutting, client, parent, faults>>

\* A thread whose accept returns while the service is shutting down leaves its
\* loop: the listener is closed and reclaims its name.  Any connection wakes
\* it, the one run_daemon makes for that purpose at the latest.
CloseListener(d, s) ==
    /\ shutting[d] /\ Alive(d)
    /\ listener[d][s] = "bound" /\ path[s] = d
    /\ listener' = [listener EXCEPT ![d][s] = "closed"]
    /\ path' = [path EXCEPT ![s] = None]
    /\ UNCHANGED <<lock, pidFile, stage, shutting, client, parent, faults>>

\* wait_for_shutdown returns.
BeginClose(d) ==
    /\ stage[d] = "running" /\ shutting[d]
    /\ stage' = [stage EXCEPT ![d] = "closing"]
    /\ UNCHANGED <<files, listener, shutting, client, parent, faults>>

\* The timed join: a thread that was woken is waited for (the join's half
\* second is taken to be enough for it); one whose socket file was deleted
\* cannot be woken and is left behind.  Then both socket files are removed.
JoinAndUnlink(d) ==
    /\ stage[d] = "closing"
    /\ \A s \in Sockets : listener[d][s] # "off"
    /\ \A s \in Sockets : listener[d][s] = "bound" => path[s] # d
    /\ path' = [s \in Sockets |-> None]
    /\ stage' = [stage EXCEPT ![d] = "unlinked"]
    /\ UNCHANGED <<lock, pidFile, listener, shutting, client, parent, faults>>

\* remove_pid_metadata.
RemovePid(d) ==
    /\ stage[d] = "unlinked"
    /\ pidFile' = None
    /\ stage' = [stage EXCEPT ![d] = "unnamed"]
    /\ UNCHANGED <<lock, path, listener, shutting, client, parent, faults>>

\* run_daemon returns and drops the lock; handle_run goes on to the update.
ReleaseLock(d) ==
    /\ stage[d] = "unnamed"
    /\ lock' = None
    /\ stage' = [stage EXCEPT ![d] = "updating"]
    /\ UNCHANGED <<pidFile, path, listener, shutting, client, parent, faults>>

\* daemon_run_pending_self_update is over and the process ends.
Exit(d) ==
    /\ stage[d] = "updating"
    /\ stage' = [stage EXCEPT ![d] = "gone"]
    /\ UNCHANGED <<files, listener, shutting, client, parent, faults>>

\* daemon_socket_health_check_loop: a socket that does not answer ends the
\* service.  One that has been up for a minute first spawns "bg restart --hard".
HealthCheck(d) ==
    /\ stage[d] = "running" /\ ~shutting[d]
    /\ \A s \in Sockets : listener[d][s] # "off"
    /\ ~IsUp
    /\ shutting' = [shutting EXCEPT ![d] = TRUE]
    /\ \/ UNCHANGED <<client, parent>>
       \/ \E c \in Clients :
              /\ client[c].at = "idle"
              /\ client' = [client EXCEPT ![c].op = "restart_hard", ![c].at = "look"]
              /\ parent' = [parent EXCEPT ![c] = d]
    /\ UNCHANGED <<files, stage, listener, faults>>

\* daemon_update_check_loop: at 24.5 hours the service asks itself to stop.
UptimeExceeded(d) ==
    /\ Ageing
    /\ stage[d] = "running" /\ ~shutting[d]
    /\ shutting' = [shutting EXCEPT ![d] = TRUE]
    /\ UNCHANGED <<files, stage, listener, client, parent, faults>>

\* The kernel ends a killed process: its lock is free, its files stay.
Killed(d) ==
    /\ stage' = [stage EXCEPT ![d] = "gone"]
    /\ lock' = IF lock = d THEN None ELSE lock

Crash(d) ==
    /\ crashes < Crashes
    /\ Alive(d)
    /\ Killed(d)
    /\ crashes' = crashes + 1
    /\ UNCHANGED <<pidFile, path, listener, shutting, client, parent, deletes>>

\* Somebody (a cleaner of temporary files) deletes a socket file.
DeleteSocket(s) ==
    /\ deletes < Deletes
    /\ path[s] # None
    /\ path' = [path EXCEPT ![s] = None]
    /\ deletes' = deletes + 1
    /\ UNCHANGED <<lock, pidFile, service, client, parent, crashes>>

-----------------------------------------------------------------------------
(* The clients *)

Goto(c, at) == client' = [client EXCEPT ![c].at = at]

\* A client starts.  "ensure" is ensure_daemon_running, "start" its attached
\* form; the others first look for a service to end.
Begin(c, op) ==
    /\ client[c].at = "idle" /\ parent[c] = None
    /\ op \in Ops
    /\ client' = [client EXCEPT ![c].op = op,
                    ![c].at = CASE op \in {"ensure", "start"} -> "check"
                                [] op = "shutdown" -> "stop"
                                [] OTHER -> "look"]
    /\ UNCHANGED <<files, service, parent, faults>>

\* Where a client goes once there is no service left to end.
AfterStop(c) == IF client[c].op \in Restarts THEN "check" ELSE "ok"

\* daemon_is_up || daemon_startup_is_blocked, first half.
Look(c) ==
    /\ client[c].at = "look"
    /\ Goto(c, IF IsUp THEN "stop" ELSE "judge")
    /\ UNCHANGED <<files, service, parent, faults>>

\* Second half: the client takes the lock to see whether it can.
Judge(c) ==
    /\ client[c].at = "judge"
    /\ \/ lock # None /\ Goto(c, "stop") /\ UNCHANGED lock
       \/ lock = None /\ lock' = c /\ Goto(c, "judged")
    /\ UNCHANGED <<pidFile, path, service, parent, faults>>

Judged(c) ==
    /\ client[c].at = "judged"
    /\ lock' = None
    /\ Goto(c, IF client[c].op = "shutdown_hard" THEN "failed" ELSE AfterStop(c))
    /\ UNCHANGED <<pidFile, path, service, parent, faults>>

\* The hard forms kill at once; the soft ones send Shutdown to whoever answers
\* on the control socket, and wait, except "bg shutdown", which only sends it.
SendShutdown(c) ==
    /\ client[c].at = "stop"
    /\ \/ /\ client[c].op \in {"restart_hard", "shutdown_hard"}
          /\ Goto(c, "read_pid")
          /\ UNCHANGED shutting
       \/ /\ client[c].op \in {"restart", "reinstall", "stop", "shutdown"}
          /\ shutting' = IF Connects("control")
                         THEN [shutting EXCEPT ![path["control"]] = TRUE]
                         ELSE shutting
          /\ Goto(c, CASE client[c].op # "shutdown" -> "dying"
                       [] Connects("control") -> "ok"
                       [] OTHER -> "failed")
    /\ UNCHANGED <<files, stage, listener, parent, faults>>

\* wait_for_daemon_dead: the sockets are down and the lock could be taken.
SeesDead(c) ==
    /\ client[c].at \in {"dying", "reaping"}
    /\ ~IsUp
    /\ lock = None
    /\ lock' = c
    /\ Goto(c, "dead")
    /\ UNCHANGED <<pidFile, path, service, parent, faults>>

LetGo(c) ==
    /\ client[c].at = "dead"
    /\ lock' = None
    /\ Goto(c, AfterStop(c))
    /\ UNCHANGED <<pidFile, path, service, parent, faults>>

\* The wait times out: a soft stop escalates, a kill counts as done.
GiveUpOnDeath(c) ==
    /\ Late
    /\ \/ client[c].at = "dying" /\ Goto(c, "read_pid")
       \/ client[c].at = "reaping" /\ Goto(c, AfterStop(c))
    /\ UNCHANGED <<files, service, parent, faults>>

\* hard_kill_daemon: no pid file, no kill, and the command fails.
ReadPid(c) ==
    /\ client[c].at = "read_pid"
    /\ client' = [client EXCEPT ![c].pid = pidFile,
                                ![c].at = IF pidFile = None THEN "failed" ELSE "kill"]
    /\ UNCHANGED <<files, service, parent, faults>>

Kill(c) ==
    /\ client[c].at = "kill"
    /\ \/ /\ Alive(client[c].pid)
          /\ Killed(client[c].pid)
          /\ Goto(c, "reaping")
       \/ /\ ~Alive(client[c].pid)
          /\ Goto(c, AfterStop(c))
          /\ UNCHANGED <<lock, stage>>
    /\ UNCHANGED <<pidFile, path, listener, shutting, parent, faults>>

\* ensure_daemon_running, ensure_daemon_running_attached: a service that
\* answers is enough.
Check(c) ==
    /\ client[c].at = "check"
    /\ Goto(c, IF IsUp THEN "ok" ELSE "probe")
    /\ UNCHANGED <<files, service, parent, faults>>

\* Commands, and the installer, wait for whoever holds the lock; the attached
\* form fails.
ProbeHeld(c) ==
    /\ client[c].at = "probe" /\ lock # None
    /\ Goto(c, IF client[c].op \in {"ensure", "reinstall"} THEN "wait" ELSE "failed")
    /\ UNCHANGED <<files, service, parent, faults>>

ProbeFree(c) ==
    /\ client[c].at = "probe" /\ lock = None
    /\ lock' = c
    /\ Goto(c, "probed")
    /\ UNCHANGED <<pidFile, path, service, parent, faults>>

EndProbe(c) ==
    /\ client[c].at = "probed"
    /\ lock' = None
    /\ Goto(c, "spawn")
    /\ UNCHANGED <<pidFile, path, service, parent, faults>>

\* spawn_daemon_run_detached, spawn_daemon_run_with_piped_stderr.
SpawnDaemon(c, d) ==
    /\ client[c].at = "spawn"
    /\ stage[d] = "unborn"
    /\ stage' = [stage EXCEPT ![d] = "spawned"]
    /\ client' = [client EXCEPT ![c].at = "wait", ![c].child = d]
    /\ UNCHANGED <<files, listener, shutting, parent, faults>>

WaitedUp(c) ==
    /\ client[c].at = "wait" /\ IsUp
    /\ Goto(c, "ok")
    /\ UNCHANGED <<files, service, parent, faults>>

\* The attached form also notices that the service it started has ended; any
\* wait for a service may time out.
WaitFailed(c) ==
    /\ client[c].at = "wait" /\ ~IsUp
    /\ Goto(c, "failed")
    /\ UNCHANGED <<files, service, parent, faults>>

-----------------------------------------------------------------------------

DaemonStep(d) ==
    \/ Acquire(d) \/ WritePid(d) \/ ClearSockets(d) \/ BeginClose(d)
    \/ JoinAndUnlink(d) \/ RemovePid(d) \/ ReleaseLock(d) \/ Exit(d)
    \/ \E s \in Sockets : Bind(d, s) \/ CloseListener(d, s)

ClientStep(c) ==
    \/ Look(c) \/ Judge(c) \/ Judged(c) \/ SendShutdown(c) \/ SeesDead(c)
    \/ LetGo(c) \/ GiveUpOnDeath(c) \/ ReadPid(c) \/ Kill(c) \/ Check(c)
    \/ ProbeHeld(c) \/ ProbeFree(c) \/ EndProbe(c) \/ WaitedUp(c) \/ WaitFailed(c)
    \/ \E d \in Daemons : SpawnDaemon(c, d)

Next ==
    \/ \E d \in Daemons : DaemonStep(d) \/ HealthCheck(d) \/ UptimeExceeded(d) \/ Crash(d)
    \/ \E s \in Sockets : DeleteSocket(s)
    \/ \E c \in Clients : ClientStep(c) \/ \E op \in AllOps : Begin(c, op)

Spec == Init /\ [][Next]_vars

\* Processes and threads are scheduled, the health check comes round every 30
\* seconds; nobody has to start a client, kill a service or delete a file.
FairSpec ==
    /\ Spec
    /\ \A d \in Daemons : WF_vars(DaemonStep(d)) /\ WF_vars(HealthCheck(d))
    /\ \A c \in Clients : WF_vars(ClientStep(c))

-----------------------------------------------------------------------------
(* Properties *)

\* A service that has bound a socket and is not told to stop is the one that
\* answers at its path: no other service, starting or ending, takes the file
\* from under it, as long as nobody else deletes files.
ServingIsReachable ==
    deletes = 0 => \A d \in Daemons, s \in Sockets :
        Alive(d) /\ listener[d][s] = "bound" /\ ~shutting[d] => path[s] = d

\* From the moment a service has written its pid until it takes it back, the
\* pid file names it: a hard stop in that time reaches it.
PidNamesHolder ==
    \A d \in Daemons :
        stage[d] \in {"named", "running", "closing", "unlinked"} => pidFile = d

\* A restart ends with a service that answers.
RestartServes ==
    \A c \in Clients :
        (client[c].op \in Restarts /\ client[c].at = "look") ~> IsUp

\* "Maximum daemon uptime before a proactive restart": a service that asks
\* itself to stop is followed by another.
UptimeRestarts ==
    \A d \in Daemons : (stage[d] = "running" /\ shutting[d]) ~> IsUp

\* "Read the PID of the currently running daemon": a pid about to be killed is
\* that of the service holding the lock, if a service holds it.
PidReadIsRunning ==
    \A c \in Clients :
        client[c].at = "read_pid" /\ lock \in Daemons /\ pidFile # None
        => pidFile = lock

\* "Daemon is fully dead (lock released, sockets removed, threads joined)":
\* no listener thread runs when the update begins.
UpdateAfterThreads ==
    \A d \in Daemons :
        stage[d] = "updating" => \A s \in Sockets : listener[d][s] # "bound"
=============================================================================
