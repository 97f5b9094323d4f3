------------------------------ MODULE MCServices ------------------------------
(***************************************************************************)
(* What git-ai exchanges with its server: the queues of metrics            *)
(* (MetricsQueue) and of objects (CasQueue), credentials (Credentials), the*)
(* rollups the server makes of metrics (MetricsRollup), releases           *)
(* (ReleaseServer) and the updates made from them (SelfUpdate).  They share*)
(* no state.  A behaviour follows one of the instances below; the variables*)
(* it has no use for have no value in it.                                  *)
(***************************************************************************)
EXTENDS Naturals, Sequences, FiniteSets, TLC

CONSTANTS e1, e2, unreadable, manual,            \* MetricsQueue
          o1, o2, f, g,                          \* CasQueue
          u1, u2, u3, u4, w1, w2,                \* MetricsRollup
          c1, n1, t1, t2, daemon, command, Torn, \* Credentials
          a1, a2, x, y,                          \* ReleaseServer, SelfUpdate
          Daemon, Local, None

VARIABLES
    part,                                                         \* the instance
    records, queue, waiting, client, wire, job, stored,           \* MetricsQueue
    row, lastId, commits, unsent, buffer, direct, lease, server, clock, \* CasQueue
    events, roll, lastGen, dirty, lastDirty, work, aborts,        \* MetricsRollup
    file, ring, th, origin, age, live, grant, refused, loggedOut, \* Credentials
    channels, rows, blobs, jobs, requests,                        \* ReleaseServer
    installed, cache, auto, announced, asks,                      \* SelfUpdate
    daemonUp, lock, up, faults                                    \* of several

metricsVars == <<records, queue, waiting, client, wire, job, stored>>
casVars     == <<row, lastId, commits, unsent, buffer, direct, lease, server, clock>>
rollupVars  == <<events, roll, lastGen, dirty, lastDirty, work, aborts>>
credVars    == <<file, ring, th, origin, age, live, grant, refused, loggedOut>>
serverVars  == <<channels, rows, blobs, jobs, requests>>
updateVars  == <<installed, cache, auto, announced, asks>>
allVars == <<part, metricsVars, casVars, rollupVars, credVars, serverVars, updateVars,
             daemonUp, lock, up, faults>>

-----------------------------------------------------------------------------
(* The instances.                                                          *)

Corrupt == {unreadable}
Refused == {e2}
Metrics == INSTANCE MetricsQueue
             WITH Events <- {e1, e2}, Corrupt <- Corrupt, Refused <- Refused,
                  Manual <- {manual}, BatchSize <- 2, MaxFaults <- 1

Objects == INSTANCE CasQueue
             WITH Objects <- {o1, o2}, Flushers <- {f, g}, MayReject <- FALSE,
                  MaxAttempts <- 3, StaleAfter <- 2, MaxCommits <- 1, MaxFaults <- 1,
                  MaxTime <- 4, LastFault <- 3

\* Two uploads of a server that only marks, two of one that upserts, two workers;
\* and three that upsert.  An upload uses one of two tools, or both.
AllUploads == {u1, u2, u3, u4}
SyncThree == {u1, u2, u3}
Rows == 1..3
ToolsOf == [u \in AllUploads |-> IF u = u1 THEN {2} ELSE IF u \in {u2, u4} THEN {2, 3} ELSE {3}]
ToolsOfThree == [u \in SyncThree |-> ToolsOf[u]]
Mixed == INSTANCE MetricsRollup
           WITH Uploads <- AllUploads, SyncUploads <- {u3, u4}, Workers <- {w1, w2},
                Keys <- Rows, Tools <- ToolsOf, BatchSize <- 1,
                MaxAborts <- 1
Sync  == INSTANCE MetricsRollup
           WITH Uploads <- SyncThree, SyncUploads <- SyncThree, Workers <- {},
                Keys <- Rows, Tools <- ToolsOfThree, BatchSize <- 1,
                MaxAborts <- 1

\* A thread of the daemon and one of a command, with lost messages; and with a
\* logout, without.
TwoProcesses == [t \in {t1, t2} |-> IF t = t2 THEN command ELSE daemon]
Faulty == INSTANCE Credentials
            WITH Threads <- {t1, t2}, Procs <- {daemon, command}, ProcOf <- TwoProcesses,
                 Codes <- {c1}, Nonces <- {n1}, Jobs <- {"api", "login", "nonce"},
                 Keyring <- FALSE, Legacy <- FALSE, MaxAged <- 1, MaxFaults <- 1
Safe   == INSTANCE Credentials
            WITH Threads <- {t1, t2}, Procs <- {daemon, command}, ProcOf <- TwoProcesses,
                 Codes <- {c1}, Nonces <- {n1}, Jobs <- {"api", "login", "logout", "nonce"},
                 Keyring <- FALSE, Legacy <- FALSE, MaxAged <- 1, MaxFaults <- 0
\* Credentials from before they were bound to a server, moved into the keyring.
Moved  == INSTANCE Credentials
            WITH Threads <- {t1, t2}, Procs <- {daemon, command}, ProcOf <- TwoProcesses,
                 Codes <- {c1}, Nonces <- {}, Jobs <- {"api", "login"},
                 Keyring <- TRUE, Legacy <- TRUE, MaxAged <- 1, MaxFaults <- 1

\* Publications that fail; channels moved by hand; the daemon's updates; and those
\* users and workers ask for, with deleted files.
Releases == INSTANCE ReleaseServer
              WITH Versions <- {1, 2}, Variants <- {x, y}, Admins <- {a1, a2},
                   Ops <- {"publish"}, MaxOps <- 4, MaxFaults <- 2, Together <- FALSE
Promoted == INSTANCE ReleaseServer
              WITH Versions <- {1, 2}, Variants <- {x, y}, Admins <- {a1, a2},
                   Ops <- {"publish", "channel"}, MaxOps <- 3, MaxFaults <- 0,
                   Together <- FALSE
Updates  == INSTANCE SelfUpdate
              WITH Versions <- {1, 2}, Variants <- {x, y}, Admins <- {a1, a2},
                   Ops <- {"publish", "upload"}, MaxOps <- 2, MaxFaults <- 0,
                   Together <- TRUE, Updaters <- {"daemon"}, Auto <- TRUE,
                   Forced <- FALSE, Shipped <- 0, MaxAsks <- 0
Asked    == INSTANCE SelfUpdate
              WITH Versions <- {1}, Variants <- {x, y}, Admins <- {a1, a2},
                   Ops <- {"publish", "delete"}, MaxOps <- 2, MaxFaults <- 1,
                   Together <- TRUE, Updaters <- {"daemon", "user", "worker"},
                   Auto <- FALSE, Forced <- TRUE, Shipped <- 0, MaxAsks <- 2

ASSUME InstancesAssumption ==
    /\ Metrics!MetricsConstants /\ Objects!CasConstants
    /\ Mixed!RollupConstants /\ Sync!RollupConstants
    /\ Faulty!CredentialsConstants /\ Safe!CredentialsConstants
    /\ Moved!CredentialsConstants
    /\ Releases!ReleaseConstants /\ Promoted!ReleaseConstants
    /\ Updates!ReleaseConstants /\ Updates!SelfUpdateConstants
    /\ Asked!ReleaseConstants /\ Asked!SelfUpdateConstants

-----------------------------------------------------------------------------
NoMetrics ==
    /\ records = None /\ queue = None /\ waiting = None /\ client = None
    /\ wire = None /\ job = None /\ stored = None
NoObjects ==
    /\ row = None /\ lastId = None /\ commits = None /\ unsent = None /\ buffer = None
    /\ direct = None /\ lease = None /\ server = None /\ clock = None
NoRollup ==
    /\ events = None /\ roll = None /\ lastGen = None /\ dirty = None
    /\ lastDirty = None /\ work = None /\ aborts = None
NoCredentials ==
    /\ file = None /\ ring = None /\ th = None /\ origin = None /\ age = None
    /\ live = None /\ grant = None /\ refused = None /\ loggedOut = None
NoServer ==
    channels = None /\ rows = None /\ blobs = None /\ jobs = None /\ requests = None
NoUpdate ==
    installed = None /\ cache = None /\ auto = None /\ announced = None /\ asks = None

Init ==
    \/ /\ part = "metrics" /\ Metrics!Init /\ lock = None /\ up = None
       /\ NoObjects /\ NoRollup /\ NoCredentials /\ NoServer /\ NoUpdate
    \/ /\ part = "objects" /\ Objects!Init /\ lock = None /\ up = None
       /\ NoMetrics /\ NoRollup /\ NoCredentials /\ NoServer /\ NoUpdate
    \/ /\ \/ part = "mixed" /\ Mixed!Init
          \/ part = "sync" /\ Sync!Init
       /\ daemonUp = None /\ faults = None
       /\ NoMetrics /\ NoObjects /\ NoCredentials /\ NoServer /\ NoUpdate
    \/ /\ \/ part = "faulty" /\ Faulty!Init
          \/ part = "safe" /\ Safe!Init
          \/ part = "moved" /\ Moved!Init
       /\ daemonUp = None /\ up = None
       /\ NoMetrics /\ NoObjects /\ NoRollup /\ NoServer /\ NoUpdate
    \/ /\ \/ part = "releases" /\ Releases!ServerInit /\ up = None /\ NoUpdate
          \/ part = "promoted" /\ Promoted!ServerInit /\ up = None /\ NoUpdate
          \/ part = "updates" /\ Updates!Init
          \/ part = "asked" /\ Asked!Init
       /\ daemonUp = None /\ lock = None
       /\ NoMetrics /\ NoObjects /\ NoRollup /\ NoCredentials

MetricsStep ==
    /\ part = "metrics" /\ Metrics!Next
    /\ UNCHANGED <<part, casVars, rollupVars, credVars, serverVars, updateVars, lock, up>>

ObjectsStep ==
    /\ part = "objects" /\ Objects!Next
    /\ UNCHANGED <<part, metricsVars, rollupVars, credVars, serverVars, updateVars, lock, up>>

RollupStep ==
    /\ \/ part = "mixed" /\ Mixed!Next
       \/ part = "sync" /\ Sync!Next
    /\ UNCHANGED <<part, metricsVars, casVars, credVars, serverVars, updateVars,
                   daemonUp, faults>>

CredentialsStep ==
    /\ \/ part = "faulty" /\ Faulty!Next
       \/ part = "safe" /\ Safe!Next
       \/ part = "moved" /\ Moved!Next
    /\ UNCHANGED <<part, metricsVars, casVars, rollupVars, serverVars, updateVars,
                   daemonUp, up>>

ReleaseStep ==
    /\ \/ part = "releases" /\ Releases!ServerNext /\ UNCHANGED <<updateVars, up>>
       \/ part = "promoted" /\ Promoted!ServerNext /\ UNCHANGED <<updateVars, up>>
       \/ part = "updates" /\ Updates!Next
       \/ part = "asked" /\ Asked!Next
    /\ UNCHANGED <<part, metricsVars, casVars, rollupVars, credVars, daemonUp, lock>>

Next == MetricsStep \/ ObjectsStep \/ RollupStep \/ CredentialsStep \/ ReleaseStep

Spec == Init /\ [][Next]_allVars

Symmetry == Permutations({o1, o2}) \cup Permutations({f, g})
              \cup Permutations({a1, a2}) \cup Permutations({x, y})

-----------------------------------------------------------------------------
\* Both queues keep the promise of AtLeastOnce, although drains overlap, fail
\* halfway, are killed, outlive their leases and see answers lost: an item stays
\* until the server has it.
AtLeast == INSTANCE AtLeastOnce WITH
    Item <- {e1, e2, unreadable, o1, o2}, Unsendable <- Corrupt,
    held <- CASE part = "metrics" -> Metrics!Queued
              [] part = "objects" -> Objects!Queued
              [] OTHER -> {},
    arrived <- CASE part = "metrics" -> Metrics!Arrived
                 [] part = "objects" -> server
                 [] OTHER -> {}
AtLeastOnceSpec == AtLeast!Spec

\* Of a login at most one refresh token is good, whatever is lost; and when no
\* message is, the stored one is good, or a thread is about to replace it.
CredentialsAreGood ==
    /\ part = "faulty" => Faulty!OneTokenPerGrant
    /\ part = "moved" => Moved!OneTokenPerGrant
    /\ part = "safe" => Safe!OneTokenPerGrant /\ Safe!StoredIsUsable

\* When the marks are worked off the rollups are what the events add up to, and
\* uploads never wait for one another in a circle.
RollupsAreRight ==
    /\ part = "mixed" => Mixed!RollupsMatch
    /\ part = "sync" => Sync!UploadsNeverDeadlock

\* What a channel announces can be had, and what is installed was announced, down
\* to the binary.
ReleasesAreWhole ==
    /\ part = "releases" => Releases!PublishedIsServed
    /\ part = "promoted" => Promoted!PublishedIsServed
    /\ part = "updates" => Updates!InstalledWasAnnounced
    /\ part = "asked" => Asked!InstalledWasAnnounced
=============================================================================
