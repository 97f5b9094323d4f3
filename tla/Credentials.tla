---------------------------- MODULE Credentials ----------------------------
(* The credentials of the command line and the daemon: every API context   *)
(* opens the credential store (auth/credentials.rs), loads the tokens and  *)
(* refreshes them when the access token has run out (api/client.rs); login, *)
(* logout and the install nonce replace or clear them.  The server          *)
(* (handlers/oauth.rs) rotates the refresh token: the one that is presented *)
(* is revoked before its successor is stored.  A token is the number of its *)
(* pair of access and refresh token.                                        *)
EXTENDS Naturals, FiniteSets

CONSTANTS Threads, Procs,
          ProcOf,       \* the process of every thread
          Codes,        \* authorization codes that logins may be given
          Nonces,       \* install nonces an administrator has handed out
          Jobs,         \* what threads do: a subset of AllJobs
          Keyring,      \* the build and the configuration use the keyring
          Legacy,       \* the first credentials name no server
          None, Torn,   \* no value; a value that does not parse
          MaxAged,      \* bound: how many access tokens run out
          MaxFaults     \* bound: lost messages, failed writes, killed processes

AllJobs == {"api", "login", "logout", "nonce"}

\* What the constants must be.
CredentialsConstants ==
    /\ ProcOf \in [Threads -> Procs]
    /\ Jobs \subseteq AllJobs
    /\ {Keyring, Legacy} \subseteq BOOLEAN
    /\ {MaxAged, MaxFaults} \subseteq Nat

VARIABLES file, ring,  \* the two places of the credentials
          th,          \* what every thread is doing
          lock,        \* of every process: who holds REFRESH_LOCK
          origin,      \* of every token issued: the grant it descends from
          age,         \* of every token: fresh, stale (refresh it) or expired
          live,        \* refresh tokens the server has not revoked
          grant,       \* codes and nonces: unissued, open or used
          refused,     \* a refresh token that was used up has been presented
          loggedOut,   \* the last login or logout to complete was a logout
          faults

server == <<origin, age, live, grant, refused>>
vars == <<file, ring, th, lock, server, loggedOut, faults>>

Grants == Codes \cup Nonces
Issued == DOMAIN origin
First  == "first"        \* the grant of the credentials the system starts with
Creds  == [tok : Issued, bound : BOOLEAN]
Idle == [pc |-> "idle", job |-> "api", then |-> "load", be |-> "file", home |-> "file",
         creds |-> None, seen |-> None, spent |-> 0, gone |-> FALSE, grant |-> None]

TypeOK ==
    /\ {file, ring} \subseteq Creds \cup {None, Torn}
    /\ \A t \in Threads :
          /\ th[t].pc \in {"idle", "open", "openFile", "migrate", "migrated", "check", "load",
                           "bind", "lock", "send", "issue", "answer", "store", "write",
                           "code", "exchange", "clear"}
          /\ th[t].job \in Jobs \cup {"api"} /\ th[t].creds \in Creds \cup {None, Torn}
          /\ th[t].pc \in {"bind", "lock", "send", "store", "write"} => th[t].creds \in Creds
          /\ th[t].pc \in {"migrate", "migrated"} => th[t].seen \in Creds \cup {Torn}
    /\ lock \in [Procs -> Threads \cup {None}]
    /\ \A t \in Threads : th[t].pc = "send" => lock[ProcOf[t]] = t
    /\ Issued = 1..Cardinality(Issued)
    /\ \A k \in Issued : origin[k] \in Grants \cup {First} /\ age[k] \in {"fresh", "stale", "expired"}
    /\ live \subseteq Issued
    /\ grant \in [Grants -> {"unissued", "open", "used"}]
    /\ {refused, loggedOut} \subseteq BOOLEAN /\ faults \in 0..MaxFaults

\* One login has happened; its credentials are in the file, where a build
\* without keyring support leaves them
Init ==
    /\ file = [tok |-> 1, bound |-> ~Legacy]
    /\ ring = None
    /\ th = [t \in Threads |-> Idle]
    /\ lock = [p \in Procs |-> None]
    /\ origin = [k \in {1} |-> First]
    /\ age = [k \in {1} |-> "fresh"]
    /\ live = {1}
    /\ grant = [g \in Grants |-> IF g \in Nonces THEN "open" ELSE "unissued"]
    /\ refused = FALSE /\ loggedOut = FALSE
    /\ faults = 0

Fault == faults < MaxFaults /\ faults' = faults + 1
Go(t, pc) == th' = [th EXCEPT ![t].pc = pc]
Slot(be) == IF be = "ring" THEN ring ELSE file

-----------------------------------------------------------------------------
(* Opening the store.  The keyring wins when it has a value; otherwise the  *)
(* file is moved into it: read, stored in the keyring, removed.             *)

Start(t, job) ==
    /\ th[t].pc = "idle" /\ job \in Jobs
    /\ \E g \in Grants \cup {None} :
          /\ (job = "nonce") <=> g \in Nonces
          /\ job # "nonce" => g = None
          /\ th' = [th EXCEPT ![t] =
                [Idle EXCEPT !.pc = IF job = "nonce" THEN "exchange" ELSE "open", !.job = job,
                             !.then = IF job = "logout" THEN "check" ELSE "load", !.grant = g]]
    /\ UNCHANGED <<file, ring, lock, server, loggedOut, faults>>

\* Back to what the store was opened for
Opened(t, be) == [th[t] EXCEPT !.be = be, !.pc = th[t].then, !.seen = None]

\* CredentialStore::new; the keyring may turn out to be unavailable
Open(t) ==
    /\ th[t].pc = "open"
    /\ \/ /\ ~Keyring \/ Fault
          /\ ~Keyring => UNCHANGED faults
          /\ th' = [th EXCEPT ![t] = Opened(t, "file")]
          /\ UNCHANGED file
       \/ /\ Keyring /\ UNCHANGED faults
          /\ IF ring # None
             THEN /\ file' = None
                  /\ th' = [u \in Threads |->
                       IF u = t THEN Opened(t, "ring")
                       ELSE [th[u] EXCEPT !.gone = th[u].pc = "write"]]
             ELSE Go(t, "openFile") /\ UNCHANGED file
    /\ UNCHANGED <<ring, lock, server, loggedOut>>

OpenFile(t) ==
    /\ th[t].pc = "openFile"
    /\ th' = IF file = None
             THEN [th EXCEPT ![t] = Opened(t, "ring")]
             ELSE [th EXCEPT ![t].seen = file, ![t].pc = "migrate"]
    /\ UNCHANGED <<file, ring, lock, server, loggedOut, faults>>

Migrate(t) ==
    /\ th[t].pc = "migrate"
    /\ \/ ring' = th[t].seen /\ Go(t, "migrated") /\ UNCHANGED faults
       \/ Fault /\ th' = [th EXCEPT ![t] = Opened(t, "file")] /\ UNCHANGED ring
    /\ UNCHANGED <<file, lock, server, loggedOut>>

\* The file is removed; when that fails, the copy in the keyring is
Migrated(t) ==
    /\ th[t].pc = "migrated"
    /\ \/ /\ file' = None
          /\ th' = [u \in Threads |-> IF u = t THEN Opened(t, "ring")
                                      ELSE [th[u] EXCEPT !.gone = th[u].pc = "write"]]
          /\ UNCHANGED <<ring, faults>>
       \/ /\ Fault
          /\ ring' = None
          /\ th' = [th EXCEPT ![t] = Opened(t, "file")]
          /\ UNCHANGED file
    /\ UNCHANGED <<lock, server, loggedOut>>

-----------------------------------------------------------------------------
(* try_load_auth_token.  Its answer is a token or none; the guard is        *)
(* dropped on every way out.                                                *)

Unlocked(t) == [lock EXCEPT ![ProcOf[t]] = IF @ = t THEN None ELSE @]

\* What the caller does with the answer
Resume(t, some) ==
    CASE th[t].job = "login" /\ ~some ->
            [Idle EXCEPT !.pc = "open", !.job = "login", !.then = "code"]
      [] th[t].job = "logout" -> [th[t] EXCEPT !.pc = "clear"]
      [] OTHER -> Idle

Return(t, some) ==
    /\ th' = [th EXCEPT ![t] = Resume(t, some)]
    /\ lock' = Unlocked(t)

Decide(t, c) ==
    \/ age[c.tok] = "expired" /\ Return(t, FALSE)
    \/ age[c.tok] = "fresh" /\ Return(t, TRUE)
    \/ /\ age[c.tok] = "stale"
       /\ th' = [th EXCEPT ![t].creds = c,
                           ![t].pc = IF lock[ProcOf[t]] = t THEN "send" ELSE "lock"]
       /\ UNCHANGED lock

\* load_credentials_for_server: credentials of before server binding are
\* stored again with the server
Load(t) ==
    LET c == Slot(th[t].be)
    IN  /\ th[t].pc = "load"
        /\ CASE c \in {None, Torn} -> Return(t, FALSE)
             [] OTHER -> IF c.bound THEN Decide(t, c)
                         ELSE /\ th' = [th EXCEPT ![t].creds = [c EXCEPT !.bound = TRUE],
                                                  ![t].pc = "bind"]
                              /\ UNCHANGED lock
        /\ UNCHANGED <<file, ring, server, loggedOut, faults>>

Lock(t) ==
    /\ th[t].pc = "lock" /\ lock[ProcOf[t]] = None
    /\ lock' = [lock EXCEPT ![ProcOf[t]] = t]
    /\ Go(t, "load")
    /\ UNCHANGED <<file, ring, server, loggedOut, faults>>

-----------------------------------------------------------------------------
(* The server's token endpoint: the grant is consumed in one statement, the *)
(* new token stored in another.                                             *)

Refresh(t) ==
    /\ th[t].pc = "send"
    /\ IF th[t].creds.tok \in live /\ age[th[t].creds.tok] # "expired"
       THEN /\ live' = live \ {th[t].creds.tok}
            /\ th' = [th EXCEPT ![t].pc = "issue", ![t].spent = th[t].creds.tok,
                                ![t].grant = origin[th[t].creds.tok]]
            /\ UNCHANGED <<lock, refused>>
       ELSE /\ Return(t, FALSE)
            /\ refused' = (refused \/ th[t].creds.tok \notin live)
            /\ UNCHANGED live
    /\ UNCHANGED <<file, ring, origin, age, grant, loggedOut, faults>>

\* The browser brings a code, or a refusal, or nothing within five minutes
Authorize(t) ==
    /\ th[t].pc = "code"
    /\ \/ \E g \in Codes : /\ grant[g] = "unissued"
                           /\ grant' = [grant EXCEPT ![g] = "open"]
                           /\ th' = [th EXCEPT ![t].pc = "exchange", ![t].grant = g]
       \/ th' = [th EXCEPT ![t] = Idle] /\ UNCHANGED grant
    /\ UNCHANGED <<file, ring, lock, origin, age, live, refused, loggedOut, faults>>

\* (mutant) a used code or nonce is not refused
ExchangeTwice(t) ==
    /\ th[t].pc = "exchange"
    /\ grant' = [grant EXCEPT ![th[t].grant] = "used"]
    /\ Go(t, "issue")
    /\ UNCHANGED <<file, ring, lock, origin, age, live, refused, loggedOut, faults>>

Exchange(t) ==
    /\ th[t].pc = "exchange"
    /\ IF grant[th[t].grant] = "open"
       THEN grant' = [grant EXCEPT ![th[t].grant] = "used"] /\ Go(t, "issue")
       ELSE th' = [th EXCEPT ![t] = Idle] /\ UNCHANGED grant
    /\ UNCHANGED <<file, ring, lock, origin, age, live, refused, loggedOut, faults>>

\* generate_token_response
Issue(t) ==
    LET k == Cardinality(Issued) + 1
    IN  /\ th[t].pc = "issue"
        /\ origin' = [j \in 1..k |-> IF j = k THEN th[t].grant ELSE origin[j]]
        /\ age' = [j \in 1..k |-> IF j = k THEN "fresh" ELSE age[j]]
        /\ live' = live \cup {k}
        /\ th' = [th EXCEPT ![t].pc = "answer", ![t].creds = [tok |-> k, bound |-> TRUE]]
        /\ UNCHANGED <<file, ring, lock, grant, refused, loggedOut, faults>>

Receive(t) ==
    /\ th[t].pc = "answer"
    /\ th' = [th EXCEPT ![t].pc = IF th[t].job = "nonce" THEN "open" ELSE "store",
                        ![t].then = "store"]
    /\ UNCHANGED <<file, ring, lock, server, loggedOut, faults>>

\* The request or the answer is lost, or the server fails in between: a
\* refresh gives none, a login or a nonce exchange ends
Unanswered(t) ==
    /\ th[t].pc \in {"send", "exchange", "issue", "answer"}
    /\ Fault
    /\ IF lock[ProcOf[t]] = t THEN Return(t, FALSE)
       ELSE th' = [th EXCEPT ![t] = Idle] /\ UNCHANGED lock
    /\ UNCHANGED <<file, ring, server, loggedOut>>

-----------------------------------------------------------------------------
(* Storing: one step in the keyring; the file is truncated, then written.   *)

Refreshing(t) == lock[ProcOf[t]] = t

\* After the store: bound credentials are looked at, a refresh gives its
\* token whether or not it could be stored, a login has completed
Stored(t) ==
    IF th[t].pc = "bind" \/ th[t].then = "bind"
    THEN Decide(t, th[t].creds) /\ UNCHANGED loggedOut
    ELSE /\ Return(t, TRUE)
         /\ loggedOut' = (loggedOut /\ Refreshing(t))

StoreRing(t) ==
    /\ th[t].pc \in {"bind", "store"} /\ th[t].be = "ring"
    /\ \/ ring' = th[t].creds /\ UNCHANGED faults
       \/ Fault /\ UNCHANGED ring
    /\ Stored(t)
    /\ UNCHANGED <<file, server>>

TruncateFile(t) ==
    /\ th[t].pc \in {"bind", "store"} /\ th[t].be = "file"
    /\ file' = Torn
    /\ th' = [th EXCEPT ![t].then = th[t].pc, ![t].pc = "write", ![t].gone = FALSE]
    /\ UNCHANGED <<ring, lock, server, loggedOut, faults>>

\* A file that was removed meanwhile is written in vain; over what another
\* process has written meanwhile, a shorter value leaves a rest
WriteFile(t) ==
    /\ th[t].pc = "write"
    /\ \/ /\ file' \in IF th[t].gone THEN {file}
                       ELSE {th[t].creds} \cup (IF file # Torn THEN {Torn} ELSE {})
          /\ UNCHANGED faults
       \/ Fault /\ UNCHANGED file
    /\ Stored(t)
    /\ UNCHANGED <<ring, server>>

-----------------------------------------------------------------------------
\* handle_logout: who is not logged in has nothing to clear; otherwise the
\* status is uploaded first, with credentials loaded as for any request
Check(t) ==
    /\ th[t].pc = "check"
    /\ th' = IF Slot(th[t].be) \in {None, Torn} THEN [th EXCEPT ![t] = Idle]
             ELSE [th EXCEPT ![t].pc = "open", ![t].then = "load", ![t].home = th[t].be]
    /\ UNCHANGED <<file, ring, lock, server, loggedOut, faults>>

Clear(t) ==
    /\ th[t].pc = "clear"
    /\ file' = None
    /\ ring' = IF th[t].home = "ring" THEN None ELSE ring
    /\ th' = [u \in Threads |-> IF u = t THEN Idle ELSE [th[u] EXCEPT !.gone = th[u].pc = "write"]]
    /\ loggedOut' = TRUE
    /\ UNCHANGED <<lock, server, faults>>

\* A process ends, whatever its threads were doing
Killed(p) ==
    /\ Fault
    /\ \E t \in Threads : ProcOf[t] = p /\ th[t].pc # "idle"
    /\ th' = [t \in Threads |-> IF ProcOf[t] = p THEN Idle ELSE th[t]]
    /\ lock' = [lock EXCEPT ![p] = None]
    /\ UNCHANGED <<file, ring, server, loggedOut>>

\* Time: an access token runs out after an hour, a refresh token after 90 days
Ages(k) ==
    /\ Cardinality({j \in Issued : age[j] # "fresh"}) < MaxAged \/ age[k] = "stale"
    /\ age[k] # "expired"
    /\ age' = [age EXCEPT ![k] = IF @ = "fresh" THEN "stale" ELSE "expired"]
    /\ UNCHANGED <<file, ring, th, lock, origin, live, grant, refused, loggedOut, faults>>

Step(t) ==
    \/ Open(t) \/ OpenFile(t) \/ Migrate(t) \/ Migrated(t)
    \/ Load(t) \/ Lock(t) \/ Refresh(t) \/ Authorize(t) \/ Exchange(t)
    \/ Issue(t) \/ Receive(t) \/ StoreRing(t) \/ TruncateFile(t) \/ WriteFile(t)
    \/ Check(t) \/ Clear(t)

Next ==
    \/ \E t \in Threads : \/ Step(t)
                          \/ Unanswered(t)
                          \/ \E job \in AllJobs : Start(t, job)
    \/ \E p \in Procs : Killed(p)
    \/ \E k \in Issued : Ages(k)

Spec == Init /\ [][Next]_vars

-----------------------------------------------------------------------------
(* Properties                                                               *)

\* Of every login there is at most one refresh token the server still takes,
\* although requests are lost, repeated by another process, and interrupted
\* between the revocation and the new token.
OneTokenPerGrant == \A j, k \in live : origin[j] = origin[k] => j = k

\* "Global mutex to prevent multiple threads from refreshing simultaneously":
\* no thread presents a refresh token that another one has used up.
NeverRefused == ~refused

\* Credentials that are stored can be used: a refresh token the server no
\* longer takes is in the store only while the thread that used it up is on
\* its way to store the successor.
StoredIsUsable ==
    \A c \in {file, ring} \ {None, Torn} :
        \/ c.tok \in live
        \/ \E t \in Threads : /\ th[t].spent = c.tok
                              /\ th[t].pc \in {"issue", "answer", "store", "write"}

\* After a logout nobody is logged in until the next login.
LogoutHolds == loggedOut => {file, ring} \subseteq {None, Torn}

=============================================================================
