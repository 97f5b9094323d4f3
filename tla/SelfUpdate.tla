----------------------------- MODULE SelfUpdate -----------------------------
(***************************************************************************)
(* Installations that update themselves from the release server.  On one   *)
(* machine the daemon asks once a day (check_for_update_available), stops  *)
(* when there is something newer and installs it on its way out            *)
(* (check_and_install_update_if_available); a user runs git-ai update, and *)
(* git commands start git-ai upgrade --background (run_impl_with_url).     *)
(* They share the installed binary and the cache file update_check.        *)
(*                                                                         *)
(* Every file is fetched by channel, so the release may change between any *)
(* two requests; each is checked against what was fetched before it.       *)
(***************************************************************************)
EXTENDS ReleaseServer

CONSTANTS
  Updaters,   \* who updates: "daemon", "user", "worker"
  Auto,       \* whether the user wants updates installed without being asked
  Forced,     \* whether the user may say --force
  Shipped,    \* the version installed at first
  MaxAsks     \* how often users and git commands start an update at most

\* What the constants must be.
SelfUpdateConstants ==
  /\ Updaters \subseteq {"daemon", "user", "worker"}
  /\ Auto \in BOOLEAN /\ Forced \in BOOLEAN /\ MaxAsks \in Nat /\ Shipped \in Nat

VARIABLES
  installed,   \* the build of the binary on disk
  cache,       \* update_check: the newer version found, and whether it is of today
  auto,        \* disable_auto_updates is not set in the configuration
  up,          \* where each updater is
  announced,   \* every build that "latest" has announced, and the first one
  asks         \* how often users and git commands started an update

vars == <<channels, rows, blobs, jobs, requests, faults,
          installed, cache, auto, up, announced, asks>>

clientVars == <<installed, cache, auto, up, asks>>

\* An updater runs the version it was started with.  rel is what it was told,
\* at the version that the channel it fetches from was resolved to.
Idle(ver) == [pc |-> "idle", runs |-> ver, rel |-> NoRelease, at |-> 0, force |-> FALSE]

\* The first build installed.
First == <<Shipped, "first">>

UpdateTypeOK ==
  /\ installed \in Builds \cup {First}
  /\ cache.avail \in Versions \cup {0}
  /\ \A u \in Updaters :
       /\ up[u].pc \notin {"idle", "stopping"} => up[u].rel.sum[1] = up[u].rel.ver
       /\ up[u].at \in Versions \cup {0}

Init ==
  /\ ServerInit
  /\ installed = First
  /\ cache = [avail |-> 0, today |-> FALSE]
  /\ auto = Auto
  /\ up = [u \in Updaters |-> Idle(Shipped)]
  /\ announced = {First}
  /\ asks = 0

Goto(u, pc) == up' = [up EXCEPT ![u].pc = pc]

\* The updater ends: with the daemon the next one starts from what is
\* installed.
Ends(u, build) == up' = [up EXCEPT ![u] = Idle(build[1])]

\* persist_update_state.
Persist(avail) == cache' = [avail |-> avail, today |-> TRUE]

\* The server and the configuration, and what else v names, stay as they are.
Keep(v) == UNCHANGED <<serverVars, announced, auto, v>>

-----------------------------------------------------------------------------
(* check_for_update_available and the loop that calls it.                  *)

\* The cache is of today: what it holds is the answer.
AnswerFromCache ==
  LET u == "daemon" IN
  /\ u \in Updaters /\ up[u].pc = "idle" /\ cache.today
  /\ cache.avail # 0 /\ auto
  /\ up' = [up EXCEPT ![u].pc = "stopping", ![u].rel = [NoRelease EXCEPT !.ver = cache.avail]]
  /\ Keep(<<installed, cache, asks>>)

\* It is not, and the server is asked.
DaemonAsks ==
  LET u == "daemon" IN
  /\ u \in Updaters /\ up[u].pc = "idle" /\ ~cache.today
  /\ channels[Latest] # NoRelease
  /\ up' = [up EXCEPT ![u].pc = "told", ![u].rel = channels[Latest]]
  /\ Keep(<<installed, cache, asks>>)

DaemonTold ==
  LET u == "daemon"
      newer == up[u].rel.ver > up[u].runs
  IN
  /\ u \in Updaters /\ up[u].pc = "told"
  /\ Persist(IF newer THEN up[u].rel.ver ELSE 0)
  /\ IF newer /\ auto THEN Goto(u, "stopping") ELSE Ends(u, <<up[u].runs>>)
  /\ Keep(<<installed, asks>>)

\* check_and_install_update_if_available, once the daemon has stopped: what
\* the cache holds only says whether to ask again.
DaemonInstalls ==
  LET u == "daemon" IN
  /\ u \in Updaters /\ up[u].pc = "stopping"
  /\ IF ~auto \/ cache.avail = 0 \/ channels[Latest] = NoRelease
     THEN Ends(u, installed) /\ UNCHANGED cache
     ELSE IF channels[Latest].ver > up[u].runs
          THEN up' = [up EXCEPT ![u].pc = "sums", ![u].rel = channels[Latest]] /\ UNCHANGED cache
          ELSE Ends(u, installed) /\ Persist(0)
  /\ Keep(<<installed, asks>>)

-----------------------------------------------------------------------------
(* run_impl_with_url.                                                      *)

Ask(u, force) ==
  /\ u \in Updaters \ {"daemon"} /\ up[u].pc = "idle" /\ asks < MaxAsks
  /\ force => Forced /\ u = "user"
  /\ u = "worker" => ~cache.today
  /\ channels[Latest] # NoRelease
  /\ up' = [up EXCEPT ![u] = [pc |-> "told", runs |-> installed[1], rel |-> channels[Latest],
                              at |-> 0, force |-> force]]
  /\ asks' = asks + 1
  /\ Keep(<<installed, cache>>)

Told(u) ==
  LET newer == up[u].rel.ver > up[u].runs IN
  /\ u \in Updaters \ {"daemon"} /\ up[u].pc = "told"
  /\ Persist(IF newer /\ ~up[u].force THEN up[u].rel.ver ELSE 0)
  /\ IF (newer \/ up[u].force) /\ (u = "user" \/ auto) THEN Goto(u, "sums") ELSE Ends(u, installed)
  /\ Keep(<<installed, asks>>)

-----------------------------------------------------------------------------
(* fetch_and_verify_checksums, fetch_and_verify_install_script and the     *)
(* installer, which fetches the binary by the channel of its own version.  *)

FileOf(pc) == CASE pc = "sums" -> "sums" [] pc = "script" -> "script" [] pc = "bin" -> "bin"
After(pc)  == CASE pc = "sums" -> "script" [] pc = "script" -> "bin" [] pc = "bin" -> "mv"
ChannelFor(u) == IF up[u].pc = "bin" THEN up[u].rel.sum[1] ELSE Latest

Fetching(u) == u \in Updaters /\ up[u].pc \in {"sums", "script", "bin"}

\* download_release: the version of the channel first.
Resolve(u) ==
  /\ Fetching(u) /\ up[u].at = 0
  /\ IF channels[ChannelFor(u)] # NoRelease
     THEN up' = [up EXCEPT ![u].at = channels[ChannelFor(u)].ver]
     ELSE Ends(u, installed)
  /\ Keep(<<installed, cache, asks>>)

\* verify_sha256, and verify_checksum of the installer: SHA256SUMS against the
\* announced checksum, the installer against SHA256SUMS and the binary against
\* the installer.
Good(u, b) == b = up[u].rel.sum

\* Then the file of that version, and the check of its checksum.
Fetch(u) ==
  LET p == <<up[u].at, FileOf(up[u].pc)>> IN
  /\ Fetching(u) /\ up[u].at # 0
  /\ IF rows[p] # NoRow /\ Good(u, blobs[p])
     THEN up' = [up EXCEPT ![u].pc = After(up[u].pc), ![u].at = 0, ![u].rel.sum = blobs[p]]
     ELSE Ends(u, installed)
  /\ Keep(<<installed, cache, asks>>)

\* The installer puts the binary in its place and switches automatic updates
\* off.
Install(u) ==
  /\ u \in Updaters /\ up[u].pc = "mv"
  /\ installed' = up[u].rel.sum /\ auto' = FALSE
  /\ IF u = "daemon" THEN Goto(u, "clear") ELSE Ends(u, up[u].rel.sum)
  /\ UNCHANGED <<serverVars, announced, cache, asks>>

\* After an installation of its own the daemon clears the cache.
Clear ==
  LET u == "daemon" IN
  /\ u \in Updaters /\ up[u].pc = "clear"
  /\ Persist(0)
  /\ Ends(u, installed)
  /\ Keep(<<installed, asks>>)

-----------------------------------------------------------------------------
\* A request or the installer fails.
Broken(u) ==
  /\ u \in Updaters /\ up[u].pc \in {"sums", "script", "bin"} /\ faults < MaxFaults
  /\ faults' = faults + 1
  /\ Ends(u, installed)
  /\ UNCHANGED <<channels, rows, blobs, jobs, requests, installed, cache, auto, announced, asks>>

\* UPDATE_CHECK_INTERVAL_HOURS pass.
Day ==
  /\ cache.today
  /\ cache' = [cache EXCEPT !.today = FALSE]
  /\ Keep(<<installed, up, asks>>)

\* git-ai config set disable_auto_updates false.
Enable ==
  /\ Auto /\ ~auto /\ auto' = TRUE
  /\ UNCHANGED <<serverVars, announced, installed, cache, up, asks>>

\* The daemon stops for another reason and is started again.
Restart ==
  LET u == "daemon" IN
  /\ u \in Updaters /\ up[u].pc = "idle" /\ up[u].runs # installed[1]
  /\ Ends(u, installed)
  /\ Keep(<<installed, cache, asks>>)

Server ==
  /\ ServerNext
  /\ announced' = announced \cup ({channels'[Latest].sum} \ {NoBuild})
  /\ UNCHANGED clientVars

DaemonStep == AnswerFromCache \/ DaemonAsks \/ DaemonTold \/ DaemonInstalls \/ Clear

UpdaterStep(u) == Resolve(u) \/ Fetch(u) \/ Install(u)

Next ==
  \/ Server \/ DaemonStep \/ Restart \/ Day \/ Enable
  \/ \E u \in Updaters :
       \/ \E force \in BOOLEAN : Ask(u, force)
       \/ Told(u) \/ UpdaterStep(u) \/ Broken(u)

Spec == Init /\ [][Next]_vars

-----------------------------------------------------------------------------
\* Whatever the administrators do meanwhile, what is installed is a build that
\* "latest" announced, down to the binary: never a mixture of two releases and
\* never a file that was replaced after it was announced.
InstalledWasAnnounced == installed \in announced

\* check_for_update_available says there is an update only when the version
\* it has heard of is newer than the running binary.
ReadyIsNewer ==
  "daemon" \in Updaters /\ up["daemon"].pc = "stopping"
    => up["daemon"].rel.ver > up["daemon"].runs

=============================================================================
