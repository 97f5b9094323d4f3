---------------------------- MODULE ReleaseServer ---------------------------
(***************************************************************************)
(* Releases on the enterprise server.  A release has three kinds of files: *)
(* the binaries, the installers and SHA256SUMS, which lists the checksums  *)
(* of the others.  The content of a file lies in the object store and a    *)
(* row of release_assets holds its checksum; a row of release_channels     *)
(* announces a version and the checksum of its SHA256SUMS.  The channel    *)
(* "latest" moves; every version published as a bundle has a channel of    *)
(* its own.                                                                *)
(*                                                                         *)
(* The handlers of several administrators run side by side and await the   *)
(* store or the database at every step; no transaction spans two steps.    *)
(***************************************************************************)
EXTENDS Naturals, Sequences, FiniteSets

CONSTANTS
  Versions,   \* the versions that may be released
  Variants,   \* a version may be built more than once
  Admins,     \* the administrators' requests that may run at once
  Ops,        \* what they do: "publish", "upload", "delete", "channel"
  MaxOps,     \* how many requests are made at most
  MaxFaults,  \* how many requests fail at the store or the database at most
  Together    \* whether one version is published by two requests at once

\* What the constants must be.
ReleaseConstants ==
  /\ Versions \subseteq Nat \ {0}
  /\ Ops \subseteq {"publish", "upload", "delete", "channel"}
  /\ MaxOps \in Nat /\ MaxFaults \in Nat /\ Together \in BOOLEAN

\* A build is a version and which build of it.  It stands for the content of
\* each of its files and for the checksum of each: SHA256SUMS of a build
\* lists the other files of that build, and its installers are pinned to its
\* version and embed the checksums of its binaries.
Builds == Versions \X Variants
NoBuild == <<0, "none">>

Files == {"bin", "script", "sums"}

\* The channel "latest"; the channel of a version is the version.
Latest == 0
Channels == {Latest} \cup Versions
NoRelease == [ver |-> 0, sum |-> NoBuild]

VARIABLES
  channels,   \* release_channels
  rows,       \* release_assets: checksum and channel by version and file
  blobs,      \* the object store
  jobs,       \* the requests under way and the steps each has left
  requests,   \* how many requests were made
  faults      \* how many requests failed

serverVars == <<channels, rows, blobs, jobs, requests, faults>>

NoRow == [sum |-> NoBuild, chan |-> 0]
NoJob == [build |-> NoBuild, chan |-> 0, plan |-> <<>>]

ServerTypeOK ==
  /\ channels \in [Channels -> [ver : Versions, sum : Builds] \cup {NoRelease}]
  /\ rows \in [Versions \X Files -> [sum : Builds, chan : Channels] \cup {NoRow}]
  /\ blobs \in [Versions \X Files -> Builds \cup {NoBuild}]
  /\ requests <= MaxOps /\ faults <= MaxFaults

ServerInit ==
  /\ channels = [c \in Channels |-> NoRelease]
  /\ rows = [p \in Versions \X Files |-> NoRow]
  /\ blobs = [p \in Versions \X Files |-> NoBuild]
  /\ jobs = [a \in Admins |-> NoJob]
  /\ requests = 0 /\ faults = 0

-----------------------------------------------------------------------------
(* The steps of a request.                                                 *)

\* store_release_asset: first the content, then the row.
Store(f) == <<<<"put", f>>, <<"record", f>>>>

\* ensure_release_manifest_ready: SHA256SUMS and then what it lists, of each
\* the row first and then the content.
Ready == <<<<"row", "sums">>, <<"blob", "sums">>, <<"row", "bin">>, <<"blob", "bin">>,
           <<"row", "script">>, <<"blob", "script">>>>

\* publish_release_channel.
PublishChannel(c) == Ready \o <<<<"set", c>>>>

\* publish_release_bundle.
Bundle(v, promote) ==
  Store("bin") \o Store("script") \o Store("sums") \o PublishChannel(v)
    \o (IF promote THEN PublishChannel(Latest) ELSE <<>>)

CanAsk(a, op) ==
  /\ op \in Ops /\ requests < MaxOps /\ jobs[a] = NoJob
  /\ requests' = requests + 1
  /\ UNCHANGED faults

\* (mutant) It is not asked whether the version is published already.
StartPublishAgain(a, b, promote) ==
  /\ CanAsk(a, "publish")
  /\ Together \/ \A o \in Admins : jobs[o].build[1] # b[1]
  /\ jobs' = [jobs EXCEPT ![a] = [build |-> b, chan |-> b[1], plan |-> Bundle(b[1], promote)]]
  /\ UNCHANGED <<channels, rows, blobs>>

\* POST /api/admin/releases/publish, for a version that has no channel yet.
StartPublish(a, b, promote) ==
  /\ CanAsk(a, "publish")
  /\ channels[b[1]] = NoRelease
  /\ Together \/ \A o \in Admins : jobs[o].build[1] # b[1]
  /\ jobs' = [jobs EXCEPT ![a] = [build |-> b, chan |-> b[1], plan |-> Bundle(b[1], promote)]]
  /\ UNCHANGED <<channels, rows, blobs>>

\* POST /api/admin/releases/upload: one file, for a version or for the version
\* its channel announces.
StartUpload(a, b, c, f) ==
  /\ CanAsk(a, "upload")
  /\ c = b[1] \/ (c = Latest /\ channels[c].ver \in {0, b[1]})
  /\ jobs' = [jobs EXCEPT ![a] = [build |-> b, chan |-> c, plan |-> Store(f)]]
  /\ UNCHANGED <<channels, rows, blobs>>

\* POST /api/admin/releases/channel.
StartChannel(a, b, c) ==
  /\ CanAsk(a, "channel")
  /\ jobs' = [jobs EXCEPT ![a] = [build |-> b, chan |-> c, plan |-> PublishChannel(c)]]
  /\ UNCHANGED <<channels, rows, blobs>>

\* DELETE /api/admin/releases/assets/{channel}/{filename}: the rows go, the
\* contents stay.
Delete(a, c, f) ==
  /\ CanAsk(a, "delete")
  /\ \E p \in DOMAIN rows : p[2] = f /\ rows[p] # NoRow /\ rows[p].chan = c
  /\ rows' = [p \in DOMAIN rows |-> IF p[2] = f /\ rows[p].chan = c THEN NoRow ELSE rows[p]]
  /\ UNCHANGED <<channels, blobs, jobs>>

-----------------------------------------------------------------------------
NextStep(a, what) == jobs[a].plan # <<>> /\ Head(jobs[a].plan)[1] = what

About(a) == <<jobs[a].build[1], Head(jobs[a].plan)[2]>>

\* The job after its next step; the request is answered when there is none.
Advance(a) ==
  jobs' = [jobs EXCEPT ![a] = IF Len(@.plan) = 1 THEN NoJob ELSE [@ EXCEPT !.plan = Tail(@)]]

Put(a) ==
  /\ NextStep(a, "put")
  /\ blobs' = [blobs EXCEPT ![About(a)] = jobs[a].build]
  /\ Advance(a)
  /\ UNCHANGED <<channels, rows, requests, faults>>

Record(a) ==
  /\ NextStep(a, "record")
  /\ rows' = [rows EXCEPT ![About(a)] = [sum |-> jobs[a].build, chan |-> jobs[a].chan]]
  /\ Advance(a)
  /\ UNCHANGED <<channels, blobs, requests, faults>>

\* What is there is what the checksum, or SHA256SUMS, says.
Sees(a) ==
  IF NextStep(a, "row") THEN rows[About(a)].sum = jobs[a].build
  ELSE blobs[About(a)] = jobs[a].build

See(a) ==
  /\ NextStep(a, "row") \/ NextStep(a, "blob")
  /\ IF Sees(a) THEN Advance(a) ELSE jobs' = [jobs EXCEPT ![a] = NoJob]
  /\ UNCHANGED <<channels, rows, blobs, requests, faults>>

SetChannel(a) ==
  /\ NextStep(a, "set")
  /\ channels' = [channels EXCEPT ![Head(jobs[a].plan)[2]] =
                                    [ver |-> jobs[a].build[1], sum |-> jobs[a].build]]
  /\ Advance(a)
  /\ UNCHANGED <<rows, blobs, requests, faults>>

\* The store or the database fails: the request ends with an error, and what
\* it did stays.
Fault(a) ==
  /\ jobs[a] # NoJob /\ faults < MaxFaults
  /\ faults' = faults + 1
  /\ jobs' = [jobs EXCEPT ![a] = NoJob]
  /\ UNCHANGED <<channels, rows, blobs, requests>>

ServerNext ==
  \E a \in Admins :
    \/ \E b \in Builds :
         \/ \E promote \in BOOLEAN : StartPublish(a, b, promote)
         \/ \E c \in Channels : StartChannel(a, b, c) \/ \E f \in Files : StartUpload(a, b, c, f)
    \/ \E c \in Channels, f \in Files : Delete(a, c, f)
    \/ Put(a) \/ Record(a) \/ See(a) \/ SetChannel(a) \/ Fault(a)

ServerSpec == ServerInit /\ [][ServerNext]_serverVars

-----------------------------------------------------------------------------
\* What a channel announces can be had: SHA256SUMS of the announced checksum
\* and every file it lists, with a row and with the content.
PublishedIsServed ==
  \A c \in Channels :
    channels[c] # NoRelease =>
      \A f \in Files : LET p == <<channels[c].ver, f>>
                       IN  rows[p].sum = channels[c].sum /\ blobs[p] = channels[c].sum

=============================================================================
