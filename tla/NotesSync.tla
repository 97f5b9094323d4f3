------------------------------ MODULE NotesSync ------------------------------
(***************************************************************************)
(* Authorship notes and their synchronisation (src/src/git/refs.rs,        *)
(* src/src/git/sync_authorship.rs).  Every clone keeps refs/notes/ai and a *)
(* tracking ref for its remote.  An adder (the daemon, after a commit)     *)
(* writes notes with fast-import; a syncer (a push, a fetch, git-ai        *)
(* fetch-notes) fetches the remote's notes into the tracking ref, merges   *)
(* them into refs/notes/ai and pushes without force.                       *)
(*                                                                         *)
(* A notes commit is an id: anc[i] are its ancestors with itself, notes[i] *)
(* maps an annotated commit to the id of the notes commit that wrote the   *)
(* note.  git itself is external: fast-import refuses an update that is    *)
(* not a fast-forward, a push is rejected with "fetch first" when the      *)
(* remote's tip is unknown here and with "non-fast-forward" when it is     *)
(* known but not contained, and the remote's ref is updated only from the  *)
(* value it advertised.                                                    *)
(***************************************************************************)
EXTENDS Naturals, FiniteSets

CONSTANTS
    Clones,
    Commits,        \* annotated commits
    Ids,            \* bound on the notes commits of all clones
    None,           \* no ref, no note
    MaxAdds,        \* bound on the notes a clone adds to a commit
    MaxAttempts,    \* PUSH_NOTES_MAX_ATTEMPTS
    MaxFailures,    \* bound on network failures and on crashes of git notes merge
    Serialised      \* adder and syncer of a clone exclude each other, as two
                    \* side effects of one family do in the daemon

ASSUME NotesAssumption ==
    /\ None \notin Ids
    /\ MaxAttempts \in Nat \ {0} /\ MaxAdds \in [Clones -> [Commits -> Nat]]
    /\ MaxFailures \in Nat
    /\ Serialised \in BOOLEAN

VARIABLES
    used,       \* ids given to a notes commit
    anc, notes, \* what a notes commit contains
    have,       \* notes commits in the object store of a clone
    local,      \* refs/notes/ai of a clone
    tracking,   \* refs/notes/ai-remote/<remote> of a clone
    remote,     \* refs/notes/ai of the remote
    adder,      \* a notes_add_batch under way: the commit and the tip it read
    sync,       \* where the syncer of a clone is
    op,         \* what it does: push or fetch
    attempt,
    reads,      \* what it has read and will use later: the notes and the tip of
                \* refs/notes/ai in a fallback merge; the tip it pushes and the
                \* tip the remote advertised
    result,     \* how the last sync ended
    failures,
    added,      \* history: note commits reported as written, per clone
    pushed      \* history: tips whose push was reported as successful

store    == <<used, anc, notes, have>>
syncVars == <<sync, op, attempt, reads, result>>
vars     == <<used, anc, notes, have, local, tracking, remote, adder, sync, op,
              attempt, reads, result, failures, added, pushed>>

Ref       == Ids \cup {None}
NoNotes   == [k \in Commits |-> None]
Idle      == [commit |-> None, tip |-> None]
NoReads   == [listed |-> None, parent |-> None, sending |-> None, expected |-> None]
NotesOf(r) == IF r = None THEN NoNotes ELSE notes[r]
AncOf(r)   == IF r = None THEN {} ELSE anc[r]

\* r is contained in s: moving a ref from r to s is a fast-forward
Contains(s, r) == r = None \/ r \in AncOf(s)

Init ==
    /\ used = {}
    /\ anc = [i \in Ids |-> {}]
    /\ notes = [i \in Ids |-> NoNotes]
    /\ have = [c \in Clones |-> {}]
    /\ local = [c \in Clones |-> None]
    /\ tracking = [c \in Clones |-> None]
    /\ remote = None
    /\ adder = [c \in Clones |-> Idle]
    /\ sync = [c \in Clones |-> "idle"]
    /\ op = [c \in Clones |-> "fetch"]
    /\ attempt = [c \in Clones |-> 0]
    /\ reads = [c \in Clones |-> NoReads]
    /\ result = [c \in Clones |-> "none"]
    /\ failures = 0
    /\ added = [c \in Clones |-> {}]
    /\ pushed = {}

-----------------------------------------------------------------------------
\* A new notes commit in the object store of c; writes are the commits whose
\* note it writes itself.
NewCommit(c, i, parents, content, writes) ==
    /\ i = CHOOSE j \in Ids \ used : TRUE
    /\ used' = used \cup {i}
    /\ anc' = [anc EXCEPT ![i] = {i} \cup UNION {AncOf(p) : p \in parents}]
    /\ notes' = [notes EXCEPT ![i] = [k \in Commits |-> IF k \in writes THEN i ELSE content[k]]]
    /\ have' = [have EXCEPT ![c] = @ \cup {i}]

\* notes_add_batch reads the tip ...
AddRead(c, k) ==
    /\ adder[c] = Idle
    /\ Cardinality({i \in added[c] : notes[i][k] = i}) < MaxAdds[c][k]
    /\ Serialised => sync[c] = "idle"
    /\ adder' = [adder EXCEPT ![c] = [commit |-> k, tip |-> local[c]]]
    /\ UNCHANGED <<used, anc, notes, have, local, tracking, remote, syncVars, failures, added, pushed>>

\* ... and commits on top of it; fast-import refuses to move the ref when it
\* has changed, and the error goes to the caller.
AddImport(c) ==
    LET k == adder[c].commit
        tip == adder[c].tip
    IN /\ adder[c] # Idle
       /\ adder' = [adder EXCEPT ![c] = Idle]
       /\ \E i \in Ids \ used :
            /\ NewCommit(c, i, {tip}, NotesOf(tip), {k})
            /\ IF local[c] = tip
               THEN /\ local' = [local EXCEPT ![c] = i]
                    /\ added' = [added EXCEPT ![c] = @ \cup {i}]
               ELSE UNCHANGED <<local, added>>
       /\ UNCHANGED <<tracking, remote, syncVars, failures, pushed>>

-----------------------------------------------------------------------------
\* push_authorship_notes, fetch_authorship_notes
Start(c, what) ==
    /\ sync[c] = "idle"
    /\ Serialised => adder[c] = Idle
    /\ sync' = [sync EXCEPT ![c] = "fetching"]
    /\ op' = [op EXCEPT ![c] = what]
    /\ attempt' = [attempt EXCEPT ![c] = 0]
    /\ result' = [result EXCEPT ![c] = "none"]
    /\ UNCHANGED <<store, local, tracking, remote, adder, reads, failures, added, pushed>>

StartPush(c)  == Start(c, "push")
StartFetch(c) == Start(c, "fetch")

\* fetch_missing_notes_for_commits: only when a source commit has no note here
StartFetchMissing(c, k) == NotesOf(local[c])[k] = None /\ Start(c, "fetch")

GoesTo(c, where) == /\ sync' = [sync EXCEPT ![c] = where]
                    /\ UNCHANGED result

Ends(c, how) == /\ sync' = [sync EXCEPT ![c] = "idle"]
                /\ result' = [result EXCEPT ![c] = how]

Remembers(c, what, value) == reads' = [reads EXCEPT ![c][what] = value]
Forgets(c) == reads' = [reads EXCEPT ![c] = NoReads]

\* After the notes are merged, or could not be: a push goes on, a fetch is over.
AfterMerge(c) ==
    /\ \/ op[c] = "push"  /\ GoesTo(c, "pushing")
       \/ op[c] = "fetch" /\ Ends(c, "found")
    /\ Forgets(c)

\* git fetch +refs/notes/ai:<tracking>
Fetch(c) ==
    /\ sync[c] = "fetching" /\ remote # None
    /\ tracking' = [tracking EXCEPT ![c] = remote]
    /\ have' = [have EXCEPT ![c] = @ \cup anc[remote]]
    /\ GoesTo(c, "fetched")
    /\ UNCHANGED <<used, anc, notes, local, remote, adder, op, attempt, reads, failures,
                   added, pushed>>

\* The remote has no notes, or cannot be reached: a fetch says so, a push does
\* without.
FetchFails(c) ==
    /\ sync[c] = "fetching"
    /\ \/ remote = None /\ UNCHANGED failures
       \/ failures < MaxFailures /\ failures' = failures + 1
    /\ \/ op[c] = "push"  /\ GoesTo(c, "pushing")
       \/ op[c] = "fetch" /\ Ends(c, IF failures' = failures THEN "notfound" ELSE "error")
    /\ UNCHANGED <<store, local, tracking, remote, adder, op, attempt, reads, added, pushed>>

\* (mutant) a push merges only into an empty refs/notes/ai
InspectNoMerge(c) ==
    /\ sync[c] = "fetched"
    /\ \/ local[c] = None /\ GoesTo(c, "copying") /\ UNCHANGED reads
       \/ local[c] # None /\ AfterMerge(c)
    /\ UNCHANGED <<store, local, tracking, remote, adder, op, attempt, failures, added, pushed>>

\* ref_exists on refs/notes/ai; the answer is used in the next step
Inspect(c) ==
    /\ sync[c] = "fetched"
    /\ GoesTo(c, IF local[c] = None THEN "copying" ELSE "merging")
    /\ UNCHANGED <<store, local, tracking, remote, adder, op, attempt, reads, failures,
                   added, pushed>>

\* copy_ref: update-ref without an expected old value
CopyRef(c) ==
    /\ sync[c] = "copying"
    /\ local' = [local EXCEPT ![c] = tracking[c]]
    /\ AfterMerge(c)
    /\ UNCHANGED <<store, tracking, remote, adder, op, attempt, failures, added, pushed>>

\* The best common ancestors of two notes commits; None when unrelated
MergeBases(r, s) ==
    LET common == AncOf(r) \cap AncOf(s)
        best == {b \in common : \A d \in common : b \in anc[d] => d = b}
    IN IF best = {} THEN {None} ELSE best

\* (mutant) the local note wins although only the remote one has changed
MergedTwoWay(l, r, b) ==
    [k \in Commits |-> IF NotesOf(l)[k] = None THEN NotesOf(r)[k] ELSE NotesOf(l)[k]]

\* git notes merge -s ours: a three-way merge, conflicts go to the local note
Merged(l, r, b) ==
    [k \in Commits |-> IF NotesOf(l)[k] = NotesOf(b)[k] THEN NotesOf(r)[k] ELSE NotesOf(l)[k]]

\* merge_notes_from_ref: nothing to do, a fast-forward, or a merge commit
MergeNotes(c) ==
    /\ sync[c] = "merging"
    /\ \/ /\ Contains(local[c], tracking[c])
          /\ UNCHANGED <<store, local>>
       \/ /\ ~Contains(local[c], tracking[c]) /\ Contains(tracking[c], local[c])
          /\ local' = [local EXCEPT ![c] = tracking[c]]
          /\ UNCHANGED store
       \/ /\ ~Contains(local[c], tracking[c]) /\ ~Contains(tracking[c], local[c])
          /\ \E i \in Ids \ used, b \in MergeBases(local[c], tracking[c]) :
                /\ NewCommit(c, i, {local[c], tracking[c]}, Merged(local[c], tracking[c], b), {})
                /\ local' = [local EXCEPT ![c] = i]
    /\ AfterMerge(c)
    /\ UNCHANGED <<tracking, remote, adder, op, attempt, failures, added, pushed>>

\* git notes merge crashes on the two trees, and fallback_merge_notes_ours takes
\* over
MergeCrashes(c) ==
    /\ sync[c] = "merging" /\ failures < MaxFailures
    /\ ~Contains(local[c], tracking[c]) /\ ~Contains(tracking[c], local[c])
    /\ failures' = failures + 1
    /\ GoesTo(c, "listing")
    /\ UNCHANGED <<store, local, tracking, remote, adder, op, attempt, reads, added, pushed>>

\* It lists the notes of refs/notes/ai and then resolves the ref: two git processes
FallbackList(c) ==
    /\ sync[c] = "listing"
    /\ Remembers(c, "listed", local[c])
    /\ GoesTo(c, "resolving")
    /\ UNCHANGED <<store, local, tracking, remote, adder, op, attempt, failures, added, pushed>>

FallbackResolve(c) ==
    /\ sync[c] = "resolving"
    /\ \/ local[c] = tracking[c] /\ AfterMerge(c)
       \/ local[c] # tracking[c] /\ Remembers(c, "parent", local[c]) /\ GoesTo(c, "importing")
    /\ UNCHANGED <<store, local, tracking, remote, adder, op, attempt, failures, added, pushed>>

\* (mutant) the local notes are not written again after deleteall
OverlaidSource(l, r) == NotesOf(r)

\* The notes of the tracking ref, overwritten by those listed of the local one
Overlaid(l, r) ==
    [k \in Commits |-> IF NotesOf(l)[k] # None THEN NotesOf(l)[k] ELSE NotesOf(r)[k]]

\* fast-import of the merge commit; refused when the local ref has moved
FallbackImport(c) ==
    /\ sync[c] = "importing"
    /\ \E i \in Ids \ used :
          /\ NewCommit(c, i, {reads[c].parent, tracking[c]},
                       Overlaid(reads[c].listed, tracking[c]), {})
          /\ local' = [local EXCEPT ![c] = IF @ = reads[c].parent THEN i ELSE @]
    /\ AfterMerge(c)
    /\ UNCHANGED <<tracking, remote, adder, op, attempt, failures, added, pushed>>

-----------------------------------------------------------------------------
\* git push: there is nothing to push, or nothing new
PushNothing(c) ==
    /\ sync[c] = "pushing" /\ local[c] = None
    /\ Ends(c, "error")
    /\ UNCHANGED <<store, local, tracking, remote, adder, op, attempt, reads, failures,
                   added, pushed>>

PushUpToDate(c) ==
    /\ sync[c] = "pushing" /\ local[c] # None /\ remote = local[c]
    /\ Ends(c, "ok")
    /\ pushed' = pushed \cup {local[c]}
    /\ UNCHANGED <<store, local, tracking, remote, adder, op, attempt, reads, failures, added>>

\* (mutant) the refspec forces the update
PushForced(c) ==
    /\ sync[c] = "pushing" /\ local[c] # None /\ remote # local[c]
    /\ GoesTo(c, "updating")
    /\ reads' = [reads EXCEPT ![c] = [@ EXCEPT !.sending = local[c], !.expected = remote]]
    /\ UNCHANGED <<store, local, tracking, remote, adder, op, attempt, failures, added, pushed>>

\* The advertised tip is contained in ours: the update is sent.
PushSends(c) ==
    /\ sync[c] = "pushing" /\ local[c] # None /\ remote # local[c]
    /\ Contains(local[c], remote)
    /\ GoesTo(c, "updating")
    /\ reads' = [reads EXCEPT ![c] = [@ EXCEPT !.sending = local[c], !.expected = remote]]
    /\ UNCHANGED <<store, local, tracking, remote, adder, op, attempt, failures, added, pushed>>

\* The loop of push_authorship_notes: another attempt, if there is one left
Retry(c) ==
    \/ /\ attempt[c] + 1 < MaxAttempts
       /\ attempt' = [attempt EXCEPT ![c] = @ + 1]
       /\ GoesTo(c, "fetching")
    \/ /\ attempt[c] + 1 >= MaxAttempts
       /\ Ends(c, "race")
       /\ UNCHANGED attempt

\* is_non_fast_forward_error: of git's two rejections, "fetch first" (the tip of
\* the remote is unknown here) is not one of them
IsNonFastForward(c) == remote \in have[c]

PushRejected(c) ==
    /\ sync[c] = "pushing" /\ local[c] # None /\ ~Contains(local[c], remote)
    /\ \/ IsNonFastForward(c) /\ Retry(c)
       \/ ~IsNonFastForward(c) /\ Ends(c, "race") /\ UNCHANGED attempt
    /\ UNCHANGED <<store, local, tracking, remote, adder, op, reads, failures, added, pushed>>

\* The remote takes the update when its ref still has the advertised value;
\* otherwise it cannot lock the ref, which is retried.
PushUpdates(c) ==
    /\ sync[c] = "updating"
    /\ Forgets(c)
    /\ \/ /\ remote = reads[c].expected
          /\ remote' = reads[c].sending
          /\ pushed' = pushed \cup {reads[c].sending}
          /\ Ends(c, "ok")
          /\ UNCHANGED attempt
       \/ /\ remote # reads[c].expected
          /\ Retry(c)
          /\ UNCHANGED <<remote, pushed>>
    /\ UNCHANGED <<store, local, tracking, adder, op, failures, added>>

\* The network fails during a push, which is not retried.
PushFails(c) ==
    /\ sync[c] \in {"pushing", "updating"} /\ failures < MaxFailures
    /\ failures' = failures + 1
    /\ Ends(c, "error")
    /\ Forgets(c)
    /\ UNCHANGED <<store, local, tracking, remote, adder, op, attempt, added, pushed>>

-----------------------------------------------------------------------------
SyncStep(c) == \/ Fetch(c) \/ FetchFails(c) \/ Inspect(c) \/ CopyRef(c) \/ MergeNotes(c)
               \/ MergeCrashes(c) \/ FallbackList(c) \/ FallbackResolve(c) \/ FallbackImport(c)
               \/ PushNothing(c) \/ PushUpToDate(c) \/ PushSends(c) \/ PushRejected(c)
               \/ PushUpdates(c) \/ PushFails(c)

Next == \E c \in Clones :
            \/ \E k \in Commits : AddRead(c, k)
            \/ AddImport(c)
            \/ StartPush(c)
            \/ StartFetch(c)
            \/ \E k \in Commits : StartFetchMissing(c, k)
            \/ SyncStep(c)

Spec == Init /\ [][Next]_vars

\* The steps of a syncer and of an adder follow each other, and every clone
\* pushes again and again.
FairSpec == /\ Spec
            /\ \A c \in Clones : /\ WF_vars(SyncStep(c)) /\ WF_vars(AddImport(c))
                                  /\ SF_vars(StartPush(c))

-----------------------------------------------------------------------------
TypeOK ==
    /\ used \subseteq Ids
    /\ anc \in [Ids -> SUBSET Ids]
    /\ notes \in [Ids -> [Commits -> Ref]]
    /\ have \in [Clones -> SUBSET Ids]
    /\ local \in [Clones -> Ref]
    /\ tracking \in [Clones -> Ref]
    /\ remote \in Ref
    /\ adder \in [Clones -> [commit : Commits \cup {None}, tip : Ref]]
    /\ sync \in [Clones -> {"idle", "fetching", "fetched", "copying", "merging", "listing",
                            "resolving", "importing", "pushing", "updating"}]
    /\ op \in [Clones -> {"push", "fetch"}]
    /\ attempt \in [Clones -> 0..(MaxAttempts - 1)]
    /\ reads \in [Clones -> [listed : Ref, parent : Ref, sending : Ref, expected : Ref]]
    /\ result \in [Clones -> {"none", "ok", "found", "notfound", "error", "race"}]
    /\ failures \in 0..MaxFailures
    /\ added \in [Clones -> SUBSET Ids]
    /\ pushed \subseteq Ids

\* The commits that have a note in a notes commit
Noted(r) == {k \in Commits : NotesOf(r)[k] # None}

(* A push that was reported as successful stays effective: whatever other  *)
(* clones push afterwards, the remote's history contains what was pushed   *)
(* and every commit that had a note there still has one.                   *)
PushedNotesStay == \A t \in pushed : Contains(remote, t) /\ Noted(t) \subseteq Noted(remote)

(* A note whose writing was reported as successful is not dropped from     *)
(* refs/notes/ai of its clone ("local notes are never overwritten").       *)
AddedNotesKept ==
    \A c \in Clones : \A i \in added[c] :
        /\ Contains(local[c], i)
        /\ \A k \in Commits : notes[i][k] = i => k \in Noted(local[c])

(* No push takes the note of a commit back to an earlier version: a note   *)
(* that replaces another on the remote was not already replaced by it, as  *)
(* long as no merge has crashed into the fallback, which keeps the notes    *)
(* of either side.                                                         *)
NotesNeverRegress ==
    [][\A k \in Commits : LET v == NotesOf(remote)[k]
                              w == NotesOf(remote)'[k]
                          IN failures = 0 /\ v # None => v = w \/ w \notin AncOf(v)]_vars

(* "Another pusher updated remote notes between our merge and push. Retry  *)
(* the full fetch-merge-push cycle": a push loses to other pushers only    *)
(* after all its attempts.                                                 *)
RacesAreRetried == \A c \in Clones : result[c] = "race" => attempt[c] = MaxAttempts - 1

(* The notes of all clones meet: when every clone pushes again and again,  *)
(* a note that was added in one of them arrives on the remote, whoever     *)
(* wins the races.                                                         *)
NotesMeet == \A c \in Clones, i \in Ids : i \in added[c] ~> Contains(remote, i)
=============================================================================
