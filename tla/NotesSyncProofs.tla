--------------------------- MODULE NotesSyncProofs ---------------------------
(***************************************************************************)
(* What NotesSync guarantees for any number of clones, annotated commits   *)
(* and notes commits, as long as the adder and the syncer of a clone       *)
(* exclude each other.                                                     *)
(***************************************************************************)
EXTENDS NotesSync, TLAPS

\* Refs to notes commits that exist.
Known == used \cup {None}

\* A notes commit contains its ancestors with theirs, and has a note for every
\* commit that one of them has a note for.
StoreInv ==
    \A i \in used :
        /\ i \in anc[i] /\ anc[i] \subseteq used
        /\ \A j \in anc[i] : anc[j] \subseteq anc[i] /\ Noted(j) \subseteq Noted(i)

ReadsKnown(rd) == {rd.listed, rd.parent, rd.sending, rd.expected} \subseteq Known

RefsInv ==
    /\ remote \in Known /\ pushed \subseteq used
    /\ \A c \in Clones :
          /\ {local[c], tracking[c], adder[c].tip} \subseteq Known
          /\ ReadsKnown(reads[c])
          /\ added[c] \subseteq used

\* What a syncer has read is still so when it uses it, for the adder of its clone
\* waits; what it has read of the remote need not be.
SyncInv ==
    \A c \in Clones :
        /\ adder[c] # Idle => sync[c] = "idle"
        /\ sync[c] = "copying" => local[c] = None
        /\ sync[c] \in {"resolving", "importing"} => reads[c].listed = local[c]
        /\ sync[c] = "importing" => reads[c].parent = local[c]
        /\ sync[c] = "updating" => /\ reads[c].sending # None
                                   /\ Contains(reads[c].sending, reads[c].expected)

\* What has been reported as written is in the history of the ref.
HistoryInv ==
    /\ \A c \in Clones : \A i \in added[c] : Contains(local[c], i)
    /\ \A t \in pushed : Contains(remote, t)

Inv == TypeOK /\ StoreInv /\ RefsInv /\ SyncInv /\ HistoryInv

-----------------------------------------------------------------------------
(* The store.                                                               *)

\* Notes commits are never changed.
StoreKept == /\ used \subseteq used' /\ used' \subseteq Ids
             /\ anc' \in [Ids -> SUBSET Ids]
             /\ notes' \in [Ids -> [Commits -> Ref]]
             /\ have' \in [Clones -> SUBSET Ids]
             /\ \A i \in used : anc'[i] = anc[i] /\ notes'[i] = notes[i]

LEMMA StoreUnchanged ==
    ASSUME TypeOK, StoreInv, UNCHANGED <<used, anc, notes>>, have' \in [Clones -> SUBSET Ids]
    PROVE  StoreKept /\ StoreInv'
BY DEF TypeOK, StoreKept, StoreInv, Noted, NotesOf

\* What contained what still does, and no note is gone.
LEMMA KnownStays ==
    ASSUME StoreKept
    PROVE  /\ \A r \in Known : r \in Known' /\ Noted(r)' = Noted(r)
           /\ \A r, s \in Known : Contains(r, s) => Contains(r, s)'
<1>1. \A r \in Known : r \in Known'
  BY DEF StoreKept, Known
<1>2. \A r \in Known : AncOf(r)' = AncOf(r) /\ NotesOf(r)' = NotesOf(r)
  BY DEF StoreKept, Known, AncOf, NotesOf, NoNotes
<1> QED
  BY <1>1, <1>2 DEF Contains, Noted

LEMMA ContainsIsTransitive ==
    ASSUME StoreInv, NEW r \in Known, NEW s, NEW t, Contains(r, s), Contains(s, t)
    PROVE  Contains(r, t)
BY NotesAssumption DEF StoreInv, Known, Contains, AncOf

LEMMA ContainsItself ==
    ASSUME StoreInv, NEW r \in Known
    PROVE  Contains(r, r)
BY DEF StoreInv, Known, Contains, AncOf

LEMMA ContainedIsNoted ==
    ASSUME StoreInv, NEW r \in Known, NEW s, Contains(r, s)
    PROVE  Noted(s) \subseteq Noted(r)
BY DEF StoreInv, Known, Contains, AncOf, Noted, NotesOf, NoNotes

\* A new notes commit that has a note wherever one of its parents has.
LEMMA NewCommitKeeps ==
    ASSUME TypeOK, StoreInv, NEW c \in Clones, NEW i \in Ids \ used,
           NEW parents \in SUBSET Known, NEW content \in [Commits -> Ref], NEW writes,
           NewCommit(c, i, parents, content, writes),
           \A p \in parents : \A k \in Noted(p) : content[k] # None
    PROVE  /\ StoreKept /\ StoreInv'
           /\ i \in used'
           /\ \A p \in parents : Contains(i, p)'
           /\ \A k \in writes \cap Commits : notes'[i][k] = i
<1> DEFINE written == [k \in Commits |-> IF k \in writes THEN i ELSE content[k]]
           history == {i} \cup UNION {AncOf(p) : p \in parents}
<1>1. /\ used' = used \cup {i}
      /\ anc' = [anc EXCEPT ![i] = history]
      /\ notes' = [notes EXCEPT ![i] = written]
      /\ have' = [have EXCEPT ![c] = @ \cup {i}]
  BY DEF NewCommit
<1>2. \A p \in parents : AncOf(p) \subseteq used
  BY DEF StoreInv, Known, AncOf
<1>3. history \subseteq used' /\ used' \subseteq Ids /\ written \in [Commits -> Ref]
  BY <1>1, <1>2 DEF TypeOK, Ref
<1>4. anc' \in [Ids -> SUBSET Ids] /\ anc'[i] = history
  BY <1>1, <1>3 DEF TypeOK
<1>5. notes' \in [Ids -> [Commits -> Ref]] /\ notes'[i] = written
  BY <1>1, <1>3 DEF TypeOK
<1>6. have' \in [Clones -> SUBSET Ids]
  BY <1>1 DEF TypeOK
<1>7. \A j \in used : anc'[j] = anc[j] /\ notes'[j] = notes[j]
  BY <1>1 DEF TypeOK
<1>8. StoreKept
  BY <1>1, <1>3, <1>4, <1>5, <1>6, <1>7 DEF StoreKept
<1>9. i # None /\ \A j \in used : j # None
  BY NotesAssumption DEF TypeOK
<1> HIDE DEF history, written
<1>10. \A j \in used : Noted(j)' = Noted(j)
  BY <1>8, KnownStays DEF Known
<1>11. \A j \in history \ {i} : anc[j] \subseteq history /\ Noted(j) \subseteq Noted(i)'
  <2> SUFFICES ASSUME NEW j \in history \ {i} PROVE anc[j] \subseteq history /\ Noted(j) \subseteq Noted(i)'
    OBVIOUS
  <2>1. PICK p \in parents : j \in AncOf(p)
    BY DEF history
  <2>2. p \in used /\ AncOf(p) = anc[p]
    BY <2>1 DEF Known, AncOf
  <2>3. anc[j] \subseteq anc[p] /\ Noted(j) \subseteq Noted(p)
    BY <2>1, <2>2 DEF StoreInv
  <2>4. Noted(p) \subseteq Noted(i)'
    BY <1>5, <1>9 DEF Noted, NotesOf, written
  <2> QED
    BY <2>2, <2>3, <2>4 DEF history
<1>12. StoreInv'
  <2>1. i \in history
    BY DEF history
  <2>2. \A j \in history : j = i \/ j \in used
    BY <1>1, <1>3
  <2>3. \A j \in used : /\ j \in anc'[j] /\ anc'[j] \subseteq used'
                        /\ \A m \in anc'[j] : anc'[m] \subseteq anc'[j] /\ Noted(m)' \subseteq Noted(j)'
    BY <1>1, <1>7, <1>10 DEF StoreInv
  <2>4. \A j \in history : anc'[j] \subseteq anc'[i] /\ Noted(j)' \subseteq Noted(i)'
    BY <1>4, <1>7, <1>10, <1>11, <2>2
  <2> QED
    BY <1>1, <1>3, <1>4, <2>1, <2>3, <2>4 DEF StoreInv
<1>13. \A p \in parents : Contains(i, p)'
  <2>1. \A p \in parents : p = None \/ p \in history
    BY DEF history, StoreInv, Known, AncOf
  <2> QED
    BY <1>4, <1>9, <2>1 DEF Contains, AncOf
<1>14. \A k \in writes \cap Commits : notes'[i][k] = i
  BY <1>5 DEF written
<1> QED
  BY <1>1, <1>8, <1>12, <1>13, <1>14

\* Neither merge loses a note of either side.
LEMMA NotesType ==
    ASSUME TypeOK, NEW r \in Ref
    PROVE  NotesOf(r) \in [Commits -> Ref]
BY DEF TypeOK, NotesOf, NoNotes, Ref

LEMMA MergeKeepsNotes ==
    ASSUME TypeOK, StoreInv, NEW l \in Known, NEW r \in Known, NEW b \in MergeBases(l, r)
    PROVE  /\ Merged(l, r, b) \in [Commits -> Ref]
           /\ \A k \in Noted(l) \cup Noted(r) : Merged(l, r, b)[k] # None
<1>1. l \in Ref /\ r \in Ref
  BY DEF TypeOK, Known, Ref
<1>2. b = None \/ (Contains(l, b) /\ Contains(r, b))
  BY DEF MergeBases, Contains
<1>3. Noted(b) \subseteq Noted(l) /\ Noted(b) \subseteq Noted(r)
  <2>1. Noted(None) = {}
    BY DEF Noted, NotesOf, NoNotes
  <2> QED
    BY <1>2, <2>1, ContainedIsNoted
<1>4. Merged(l, r, b) \in [Commits -> Ref]
  BY <1>1, NotesType DEF Merged
<1>5. \A k \in Noted(l) \cup Noted(r) : Merged(l, r, b)[k] # None
  BY <1>3 DEF Merged, Noted
<1> QED
  BY <1>4, <1>5

LEMMA OverlayKeepsNotes ==
    ASSUME TypeOK, NEW l \in Known, NEW r \in Known
    PROVE  /\ Overlaid(l, r) \in [Commits -> Ref]
           /\ \A k \in Noted(l) \cup Noted(r) : Overlaid(l, r)[k] # None
<1>1. l \in Ref /\ r \in Ref
  BY DEF TypeOK, Known, Ref
<1>2. Overlaid(l, r) \in [Commits -> Ref]
  BY <1>1, NotesType DEF Overlaid
<1>3. \A k \in Noted(l) \cup Noted(r) : Overlaid(l, r)[k] # None
  BY DEF Overlaid, Noted
<1> QED
  BY <1>2, <1>3

-----------------------------------------------------------------------------
(* Refs only move forward.                                                  *)

\* After the step s contains r.
Reaches(s, r) == r = None \/ (s # None /\ r \in anc'[s])

LocalForward ==
    \A c \in Clones : /\ local'[c] \in Known' /\ Reaches(local'[c], local[c])
                      /\ added'[c] \subseteq added[c] \cup ({local'[c]} \ {None})

RemoteForward == /\ remote' \in Known' /\ Reaches(remote', remote)
                 /\ pushed' \subseteq pushed \cup ({remote'} \ {None})

\* A step that creates no notes commit.
LEMMA NoNewCommit ==
    ASSUME TypeOK, StoreInv, RefsInv, UNCHANGED <<used, anc, notes>>, have' \in [Clones -> SUBSET Ids]
    PROVE  /\ StoreKept /\ StoreInv'
           /\ UNCHANGED <<local, added>> => LocalForward
           /\ UNCHANGED <<remote, pushed>> => RemoteForward
<1>1. StoreKept /\ StoreInv'
  BY StoreUnchanged
<1>2. UNCHANGED Known /\ \A r \in Known : Reaches(r, r)
  BY DEF Known, Reaches, StoreInv
<1>3. UNCHANGED <<local, added>> => LocalForward
  BY <1>2 DEF LocalForward, RefsInv
<1>4. UNCHANGED <<remote, pushed>> => RemoteForward
  BY <1>2 DEF RemoteForward, RefsInv
<1> QED
  BY <1>1, <1>3, <1>4

\* A step that creates the notes commit i and moves local to it, or does not.
LEMMA WithNewCommit ==
    ASSUME TypeOK, StoreInv, RefsInv, StoreKept, StoreInv', UNCHANGED <<remote, pushed>>,
           NEW c \in Clones, NEW i \in Ids, i \in used',
           \/ UNCHANGED <<local, added>>
           \/ /\ local' = [local EXCEPT ![c] = i]
              /\ added' = added \/ added' = [added EXCEPT ![c] = @ \cup {i}]
              /\ Reaches(i, local[c])
    PROVE  LocalForward /\ RemoteForward
<1>1. \A r \in Known : r \in Known' /\ Reaches(r, r)
  BY DEF StoreKept, StoreInv, Known, Reaches
<1>2. RemoteForward
  BY <1>1 DEF RemoteForward, RefsInv
<1>0. \A e \in Clones : local[e] \in Known' /\ Reaches(local[e], local[e])
  BY <1>1 DEF RefsInv
<1>3. CASE UNCHANGED <<local, added>>
  BY <1>0, <1>2, <1>3 DEF LocalForward
<1>4. CASE /\ local' = [local EXCEPT ![c] = i]
           /\ added' = added \/ added' = [added EXCEPT ![c] = @ \cup {i}]
           /\ Reaches(i, local[c])
  <2>1. i # None /\ i \in Known'
    BY NotesAssumption DEF Known
  <2>2. \A e \in Clones : e # c => local'[e] = local[e] /\ added'[e] = added[e]
    BY <1>4 DEF TypeOK
  <2>3. local'[c] = i /\ added'[c] \subseteq added[c] \cup {i}
    BY <1>4 DEF TypeOK
  <2> QED
    BY <1>0, <1>2, <1>4, <2>1, <2>2, <2>3 DEF LocalForward
<1> QED
  BY <1>2, <1>3, <1>4

LEMMA Forward ==
    ASSUME Inv, [Next]_vars
    PROVE  StoreKept /\ StoreInv' /\ LocalForward /\ RemoteForward
<1> USE DEF Inv
<1>0. have \in [Clones -> SUBSET Ids]
  BY DEF TypeOK
<1>1. ASSUME NEW c \in Clones, AddImport(c)
      PROVE  StoreKept /\ StoreInv' /\ LocalForward /\ RemoteForward
  <2> DEFINE k == adder[c].commit
             tip == adder[c].tip
  <2>1. PICK i \in Ids \ used :
            /\ NewCommit(c, i, {tip}, NotesOf(tip), {k})
            /\ IF local[c] = tip
               THEN /\ local' = [local EXCEPT ![c] = i]
                    /\ added' = [added EXCEPT ![c] = @ \cup {i}]
               ELSE UNCHANGED <<local, added>>
    BY <1>1 DEF AddImport
  <2>2. PICK t \in Known : t = tip
    BY DEF RefsInv
  <2>3. NotesOf(t) \in [Commits -> Ref] /\ \A m \in Noted(t) : NotesOf(t)[m] # None
    BY NotesType DEF TypeOK, Known, Ref, Noted
  <2>4. StoreKept /\ StoreInv' /\ i \in used' /\ Contains(i, t)'
    BY <2>1, <2>2, <2>3, NewCommitKeeps
  <2>5. Reaches(i, t)
    BY <2>4 DEF Reaches, Contains, AncOf
  <2>6. LocalForward /\ RemoteForward
    BY <1>1, <2>1, <2>2, <2>4, <2>5, WithNewCommit DEF AddImport
  <2> QED
    BY <2>4, <2>6
<1>2. ASSUME NEW c \in Clones, MergeNotes(c)
      PROVE  StoreKept /\ StoreInv' /\ LocalForward /\ RemoteForward
  <2>1. UNCHANGED <<remote, added, pushed>> /\ local[c] \in Known /\ tracking[c] \in Known
    BY <1>2 DEF MergeNotes, RefsInv
  <2>2. CASE UNCHANGED <<store, local>>
    BY <1>0, <2>1, <2>2, NoNewCommit DEF store
  <2>3. CASE /\ Contains(tracking[c], local[c])
             /\ local' = [local EXCEPT ![c] = tracking[c]]
             /\ UNCHANGED store
    <3>1. StoreKept /\ StoreInv' /\ RemoteForward
      BY <1>0, <2>1, <2>3, NoNewCommit DEF store
    <3>2. \A r \in Known : r \in Known' /\ Reaches(r, r)
      BY <2>3 DEF store, Known, Reaches, StoreInv
    <3>3. Reaches(tracking[c], local[c])
      BY <2>3 DEF store, Contains, AncOf, Reaches
    <3>4. LocalForward
      BY <2>1, <2>3, <3>2, <3>3 DEF LocalForward, RefsInv, TypeOK
    <3> QED
      BY <3>1, <3>4
  <2>4. ASSUME NEW i \in Ids \ used, NEW b \in MergeBases(local[c], tracking[c]),
               NewCommit(c, i, {local[c], tracking[c]}, Merged(local[c], tracking[c], b), {}),
               local' = [local EXCEPT ![c] = i]
        PROVE  StoreKept /\ StoreInv' /\ LocalForward /\ RemoteForward
    <3>1. PICK l \in Known, r \in Known : l = local[c] /\ r = tracking[c]
      BY <2>1
    <3>2. PICK content \in [Commits -> Ref] :
              /\ content = Merged(l, r, b)
              /\ \A k \in Noted(l) \cup Noted(r) : content[k] # None
      BY <2>4, <3>1, MergeKeepsNotes
    <3>3. NewCommit(c, i, {l, r}, content, {})
      BY <2>4, <3>1, <3>2
    <3>4. StoreKept /\ StoreInv' /\ i \in used' /\ Contains(i, l)'
      BY <3>2, <3>3, NewCommitKeeps
    <3>5. Reaches(i, l)
      BY <3>4 DEF Reaches, Contains, AncOf
    <3>6. LocalForward /\ RemoteForward
      BY <2>1, <2>4, <3>1, <3>4, <3>5, WithNewCommit
    <3> QED
      BY <3>4, <3>6
  <2> QED
    BY <1>2, <2>2, <2>3, <2>4 DEF MergeNotes
<1>3. ASSUME NEW c \in Clones, FallbackImport(c)
      PROVE  StoreKept /\ StoreInv' /\ LocalForward /\ RemoteForward
  <2>1. /\ UNCHANGED <<remote, added, pushed>> /\ local[c] \in Known /\ tracking[c] \in Known
        /\ reads[c].listed = local[c] /\ reads[c].parent = local[c]
    BY <1>3 DEF FallbackImport, RefsInv, SyncInv
  <2>2. PICK i \in Ids \ used :
            /\ NewCommit(c, i, {local[c], tracking[c]}, Overlaid(local[c], tracking[c]), {})
            /\ local' = [local EXCEPT ![c] = i]
    BY <1>3, <2>1 DEF FallbackImport
  <2>3. PICK l \in Known, r \in Known : l = local[c] /\ r = tracking[c]
    BY <2>1
  <2>4. PICK content \in [Commits -> Ref] :
            /\ content = Overlaid(l, r)
            /\ \A k \in Noted(l) \cup Noted(r) : content[k] # None
    BY OverlayKeepsNotes
  <2>5. NewCommit(c, i, {l, r}, content, {})
    BY <2>2, <2>3, <2>4
  <2>6. StoreKept /\ StoreInv' /\ i \in used' /\ Contains(i, l)'
    BY <2>4, <2>5, NewCommitKeeps
  <2>7. Reaches(i, l)
    BY <2>6 DEF Reaches, Contains, AncOf
  <2>8. LocalForward /\ RemoteForward
    BY <2>1, <2>2, <2>3, <2>6, <2>7, WithNewCommit
  <2> QED
    BY <2>6, <2>8
<1>4. ASSUME NEW c \in Clones, Fetch(c)
      PROVE  StoreKept /\ StoreInv' /\ LocalForward /\ RemoteForward
  <2>1. anc[remote] \in SUBSET Ids
    BY <1>4 DEF Fetch, TypeOK, Ref
  <2>2. have' \in [Clones -> SUBSET Ids]
    BY <1>4, <2>1 DEF Fetch, TypeOK
  <2> QED
    BY <1>4, <2>2, NoNewCommit DEF Fetch
<1>5. ASSUME NEW c \in Clones, CopyRef(c)
      PROVE  StoreKept /\ StoreInv' /\ LocalForward /\ RemoteForward
  <2>1. StoreKept /\ StoreInv' /\ RemoteForward
    BY <1>0, <1>5, NoNewCommit DEF CopyRef, store
  <2>2. \A r \in Known : r \in Known' /\ Reaches(r, r)
    BY <1>5 DEF CopyRef, store, Known, Reaches, StoreInv
  <2>3. local[c] = None
    BY <1>5 DEF CopyRef, SyncInv
  <2>4. LocalForward
    BY <1>5, <2>2, <2>3 DEF CopyRef, LocalForward, RefsInv, TypeOK, Reaches
  <2> QED
    BY <2>1, <2>4
<1>6. ASSUME NEW c \in Clones, PushUpToDate(c)
      PROVE  StoreKept /\ StoreInv' /\ LocalForward /\ RemoteForward
  <2>1. StoreKept /\ StoreInv' /\ LocalForward
    BY <1>0, <1>6, NoNewCommit DEF PushUpToDate, store
  <2>2. RemoteForward
    BY <1>6 DEF PushUpToDate, store, RemoteForward, RefsInv, Reaches, StoreInv, Known
  <2> QED
    BY <2>1, <2>2
<1>7. ASSUME NEW c \in Clones, PushUpdates(c)
      PROVE  StoreKept /\ StoreInv' /\ LocalForward /\ RemoteForward
  <2>1. StoreKept /\ StoreInv' /\ LocalForward
    BY <1>0, <1>7, NoNewCommit DEF PushUpdates, store
  <2>2. CASE UNCHANGED <<remote, pushed>>
    BY <1>0, <1>7, <2>2, NoNewCommit DEF PushUpdates, store
  <2>3. CASE /\ remote = reads[c].expected
             /\ remote' = reads[c].sending
             /\ pushed' = pushed \cup {reads[c].sending}
    <3>1. /\ reads[c].sending # None /\ reads[c].sending \in Known
          /\ Contains(reads[c].sending, remote)
      BY <1>7, <2>3 DEF PushUpdates, SyncInv, RefsInv, ReadsKnown
    <3> QED
      BY <1>7, <2>1, <2>3, <3>1 DEF PushUpdates, store, RemoteForward, Known, Contains, AncOf, Reaches
  <2> QED
    BY <1>7, <2>1, <2>2, <2>3 DEF PushUpdates
<1>8. ASSUME NEW c \in Clones,
             \/ \E k \in Commits : AddRead(c, k)
             \/ StartPush(c) \/ StartFetch(c) \/ \E k \in Commits : StartFetchMissing(c, k)
             \/ FetchFails(c) \/ Inspect(c) \/ MergeCrashes(c) \/ FallbackList(c)
             \/ FallbackResolve(c) \/ PushNothing(c) \/ PushSends(c) \/ PushRejected(c)
             \/ PushFails(c)
      PROVE  UNCHANGED <<used, anc, notes, have, local, remote, added, pushed>>
  BY <1>8 DEF AddRead, StartPush, StartFetch, StartFetchMissing, Start, FetchFails, Inspect,
              MergeCrashes, FallbackList, FallbackResolve, PushNothing, PushSends,
              PushRejected, PushFails, store
<1>9. CASE UNCHANGED <<used, anc, notes, have, local, remote, added, pushed>>
  BY <1>0, <1>9, NoNewCommit
<1>10. CASE UNCHANGED vars
  BY <1>9, <1>10 DEF vars
<1> QED
  BY <1>1, <1>2, <1>3, <1>4, <1>5, <1>6, <1>7, <1>8, <1>9, <1>10 DEF Next, SyncStep

LEMMA HistoryStep ==
    ASSUME Inv, [Next]_vars
    PROVE  HistoryInv'
<1> USE DEF Inv
<1>1. StoreKept /\ StoreInv' /\ LocalForward /\ RemoteForward
  BY Forward
<1>2. ASSUME NEW r \in Known, NEW s \in Known', Reaches(s, r), NEW i \in used, Contains(r, i)
      PROVE  s # None /\ i \in anc'[s]
  <2>1. r \in used /\ i \in anc[r] /\ r # None
    BY <1>2, NotesAssumption DEF Known, Contains, AncOf, TypeOK
  <2>2. s \in used' /\ r \in anc'[s]
    BY <1>2, <2>1 DEF Reaches, Known
  <2>3. anc'[r] \subseteq anc'[s] /\ anc'[r] = anc[r]
    BY <1>1, <2>1, <2>2 DEF StoreInv, StoreKept
  <2> QED
    BY <1>2, <2>1, <2>3 DEF Reaches
<1>3. ASSUME NEW s \in Known' \ {None} PROVE s \in anc'[s]
  BY <1>1, <1>3 DEF StoreInv, Known
<1>4. ASSUME NEW c \in Clones, NEW i \in added'[c] PROVE Contains(local[c], i)'
  <2>1. /\ local[c] \in Known /\ local'[c] \in Known' /\ Reaches(local'[c], local[c])
        /\ i \in added[c] => i \in used /\ Contains(local[c], i)
        /\ i \in added[c] \/ (i = local'[c] /\ i # None)
    BY <1>1, <1>4 DEF LocalForward, RefsInv, HistoryInv
  <2> QED
    BY <1>2, <1>3, <2>1 DEF Contains, AncOf
<1>5. ASSUME NEW t \in pushed' PROVE Contains(remote, t)'
  <2>1. /\ remote \in Known /\ remote' \in Known' /\ Reaches(remote', remote)
        /\ t \in pushed => t \in used /\ Contains(remote, t)
        /\ t \in pushed \/ (t = remote' /\ t # None)
    BY <1>1, <1>5 DEF RemoteForward, RefsInv, HistoryInv
  <2> QED
    BY <1>2, <1>3, <2>1 DEF Contains, AncOf
<1> QED
  BY <1>4, <1>5 DEF HistoryInv

-----------------------------------------------------------------------------
(* What a syncer has read, and types.                                       *)

\* How the reads of a syncer change.
LEMMA ReadsMove ==
    ASSUME [Next]_vars
    PROVE  \/ UNCHANGED reads
           \/ \E c \in Clones : \/ Remembers(c, "listed", local[c])
                                \/ Remembers(c, "parent", local[c])
                                \/ reads' = [reads EXCEPT ![c] =
                                               [@ EXCEPT !.sending = local[c], !.expected = remote]]
                                \/ Forgets(c)
<1>1. ASSUME NEW c \in Clones, \/ (\E k \in Commits : AddRead(c, k)) \/ AddImport(c)
                               \/ StartPush(c) \/ StartFetch(c)
                               \/ (\E k \in Commits : StartFetchMissing(c, k))
      PROVE  UNCHANGED reads
  BY <1>1 DEF AddRead, AddImport, StartPush, StartFetch, StartFetchMissing, Start, syncVars
<1>2. ASSUME NEW c \in Clones, \/ Fetch(c) \/ FetchFails(c) \/ Inspect(c) \/ MergeCrashes(c)
                               \/ PushNothing(c) \/ PushUpToDate(c) \/ PushRejected(c)
      PROVE  UNCHANGED reads
  BY <1>2 DEF Fetch, FetchFails, Inspect, MergeCrashes, PushNothing, PushUpToDate, PushRejected
<1>3. ASSUME NEW c \in Clones, \/ CopyRef(c) \/ MergeNotes(c) \/ FallbackImport(c)
                               \/ PushUpdates(c) \/ PushFails(c)
      PROVE  Forgets(c)
  BY <1>3 DEF CopyRef, MergeNotes, FallbackImport, PushUpdates, PushFails, AfterMerge
<1>4. ASSUME NEW c \in Clones, FallbackResolve(c)
      PROVE  Forgets(c) \/ Remembers(c, "parent", local[c])
  BY <1>4 DEF FallbackResolve, AfterMerge
<1> QED
  BY <1>1, <1>2, <1>3, <1>4 DEF Next, vars, SyncStep, FallbackList, PushSends

LEMMA RefsStep ==
    ASSUME Inv, [Next]_vars
    PROVE  RefsInv'
<1> USE DEF Inv
<1>1. StoreKept /\ LocalForward /\ RemoteForward
  BY Forward
<1>2. Known \subseteq Known' /\ used \subseteq used'
  BY <1>1 DEF StoreKept, Known
<1>3. remote' \in Known' /\ pushed' \subseteq used'
  BY <1>1, <1>2 DEF RemoteForward, RefsInv, Known
<1>4. \A c \in Clones : local'[c] \in Known' /\ added'[c] \subseteq used'
  <2> SUFFICES ASSUME NEW c \in Clones PROVE local'[c] \in Known' /\ added'[c] \subseteq used'
    OBVIOUS
  <2>1. added[c] \subseteq used /\ local'[c] \in Known'
        /\ added'[c] \subseteq added[c] \cup ({local'[c]} \ {None})
    BY <1>1 DEF LocalForward, RefsInv
  <2> QED
    BY <1>2, <2>1 DEF Known
<1>5. \A c \in Clones : tracking'[c] \in Known'
  <2>1. UNCHANGED tracking \/ \E c \in Clones : tracking' = [tracking EXCEPT ![c] = remote]
    BY ZenonT(60) DEF Next, vars, SyncStep, AddRead, AddImport, StartPush, StartFetch, StartFetchMissing,
           Start, Fetch, FetchFails, Inspect, CopyRef, MergeNotes, MergeCrashes, FallbackList,
           FallbackResolve, FallbackImport, PushNothing, PushUpToDate, PushSends, PushRejected,
           PushUpdates, PushFails
  <2>2. \A c \in Clones : tracking[c] \in Known' /\ remote \in Known'
    BY <1>2 DEF RefsInv
  <2> QED
    BY <2>1, <2>2 DEF TypeOK
<1>6. \A c \in Clones : adder'[c].tip \in Known'
  <2>1. \/ UNCHANGED adder
        \/ \E c \in Clones, k \in Commits : adder' = [adder EXCEPT ![c] = [commit |-> k, tip |-> local[c]]]
        \/ \E c \in Clones : adder' = [adder EXCEPT ![c] = Idle]
    BY ZenonT(60) DEF Next, vars, SyncStep, AddRead, AddImport, StartPush, StartFetch, StartFetchMissing,
           Start, Fetch, FetchFails, Inspect, CopyRef, MergeNotes, MergeCrashes, FallbackList,
           FallbackResolve, FallbackImport, PushNothing, PushUpToDate, PushSends, PushRejected,
           PushUpdates, PushFails
  <2>2. \A c \in Clones : adder[c].tip \in Known' /\ local[c] \in Known'
    BY <1>2 DEF RefsInv
  <2>3. Idle.tip \in Known'
    BY DEF Idle, Known
  <2>4. \A c, e \in Clones, k \in Commits :
            adder' = [adder EXCEPT ![c] = [commit |-> k, tip |-> local[c]]]
               => adder'[e].tip \in Known'
    BY <2>2 DEF TypeOK
  <2>5. \A c, e \in Clones : adder' = [adder EXCEPT ![c] = Idle] => adder'[e].tip \in Known'
    BY <2>2, <2>3 DEF TypeOK
  <2> QED
    BY <2>1, <2>2, <2>4, <2>5
<1>7. \A c \in Clones : ReadsKnown(reads[c])'
  <2>1. \/ UNCHANGED reads
        \/ \E c \in Clones : \/ Remembers(c, "listed", local[c])
                             \/ Remembers(c, "parent", local[c])
                             \/ reads' = [reads EXCEPT ![c] =
                                            [@ EXCEPT !.sending = local[c], !.expected = remote]]
                             \/ Forgets(c)
    BY ReadsMove
  <2>2. \A c \in Clones :
           /\ {local[c], remote, None, reads[c].listed, reads[c].parent, reads[c].sending,
               reads[c].expected} \subseteq Known'
    BY <1>2 DEF RefsInv, ReadsKnown, Known
  <2>3. \A c \in Clones : {reads'[c].listed, reads'[c].parent, reads'[c].sending,
                           reads'[c].expected} \subseteq Known'
    <3>1. CASE UNCHANGED reads
      BY <2>2, <3>1
    <3>2. CASE \E c \in Clones : Remembers(c, "listed", local[c])
      BY <2>2, <3>2 DEF Remembers, TypeOK
    <3>3. CASE \E c \in Clones : Remembers(c, "parent", local[c])
      BY <2>2, <3>3 DEF Remembers, TypeOK
    <3>4. CASE \E c \in Clones :
              reads' = [reads EXCEPT ![c] = [@ EXCEPT !.sending = local[c], !.expected = remote]]
      BY <2>2, <3>4 DEF TypeOK
    <3>5. CASE \E c \in Clones : Forgets(c)
      BY <2>2, <3>5 DEF Forgets, NoReads, TypeOK
    <3> QED
      BY <2>1, <3>1, <3>2, <3>3, <3>4, <3>5
  <2> QED
    BY <2>3 DEF ReadsKnown
<1> QED
  BY <1>3, <1>4, <1>5, <1>6, <1>7 DEF RefsInv

\* The steps of one clone leave the others alone.
Elsewhere(c) ==
    \A e \in Clones : e # c => /\ adder'[e] = adder[e] /\ sync'[e] = sync[e]
                               /\ local'[e] = local[e] /\ reads'[e] = reads[e]

SyncOk(c) ==
    /\ adder[c] # Idle => sync[c] = "idle"
    /\ sync[c] = "copying" => local[c] = None
    /\ sync[c] \in {"resolving", "importing"} => reads[c].listed = local[c]
    /\ sync[c] = "importing" => reads[c].parent = local[c]
    /\ sync[c] = "updating" => /\ reads[c].sending # None
                               /\ Contains(reads[c].sending, reads[c].expected)

LEMMA SyncElsewhere ==
    ASSUME Inv, [Next]_vars, NEW c \in Clones, Elsewhere(c), SyncOk(c)'
    PROVE  SyncInv'
<1> USE DEF Inv
<1>1. StoreKept
  BY Forward
<1>2. ASSUME NEW e \in Clones, e # c PROVE SyncOk(e)'
  <2>1. PICK s \in Known, x \in Known : s = reads[e].sending /\ x = reads[e].expected
    BY DEF RefsInv, ReadsKnown
  <2>2. Contains(s, x) => Contains(s, x)'
    BY <1>1, KnownStays
  <2>3. SyncOk(e)
    BY DEF SyncInv, SyncOk
  <2>4. s = reads'[e].sending /\ x = reads'[e].expected
    BY <1>2, <2>1 DEF Elsewhere
  <2>5. sync'[e] = "updating" => s # None /\ Contains(s, x)'
    BY <1>2, <2>1, <2>2, <2>3 DEF SyncOk, Elsewhere
  <2>6. sync'[e] = "updating" => Contains(reads[e].sending, reads[e].expected)'
    BY <2>4, <2>5 DEF Contains, AncOf
  <2> QED
    BY <1>2, <2>3, <2>4, <2>5, <2>6 DEF SyncOk, Elsewhere
<1> QED
  BY <1>2 DEF SyncInv, SyncOk

LEMMA SyncStepKeeps ==
    ASSUME Inv, [Next]_vars, Serialised
    PROVE  SyncInv'
<1> USE DEF Inv
<1>1. ASSUME NEW c \in Clones, NEW k \in Commits, AddRead(c, k) PROVE SyncInv'
  <2>1. SyncOk(c)' /\ Elsewhere(c)
    BY <1>1, Serialised DEF AddRead, syncVars, TypeOK, SyncOk, Elsewhere
  <2> QED
    BY <2>1, SyncElsewhere
<1>2. ASSUME NEW c \in Clones, AddImport(c) PROVE SyncInv'
  <2>1. /\ sync'[c] = "idle" /\ adder'[c] = Idle /\ UNCHANGED syncVars
        /\ \A e \in Clones : e # c => adder'[e] = adder[e]
    BY <1>2 DEF AddImport, syncVars, TypeOK, SyncInv
  <2>2. \A e \in Clones : e # c => local'[e] = local[e]
    BY <1>2 DEF AddImport, TypeOK
  <2>3. SyncOk(c)' /\ Elsewhere(c)
    BY <2>1, <2>2 DEF syncVars, SyncOk, Elsewhere
  <2> QED
    BY <2>3, SyncElsewhere
<1>3. ASSUME NEW c \in Clones, NEW what \in {"push", "fetch"}, Start(c, what) PROVE SyncInv'
  <2>1. adder[c] = Idle /\ sync' = [sync EXCEPT ![c] = "fetching"] /\ UNCHANGED <<adder, local, reads>>
    BY <1>3, Serialised DEF Start
  <2>2. SyncOk(c)' /\ Elsewhere(c)
    BY <2>1 DEF TypeOK, SyncOk, Elsewhere
  <2> QED
    BY <2>2, SyncElsewhere
\* A syncer moves to a place of which nothing is said.
<1>4. ASSUME NEW c \in Clones, sync[c] # "idle", UNCHANGED adder, Elsewhere(c),
             sync'[c] \notin {"copying", "resolving", "importing", "updating"}
      PROVE  SyncInv'
  <2>1. adder[c] = Idle
    BY <1>4 DEF SyncInv
  <2>2. SyncOk(c)'
    BY <1>4, <2>1 DEF SyncOk
  <2> QED
    BY <1>4, <2>2, SyncElsewhere
<1>5. ASSUME NEW c \in Clones,
             \/ Fetch(c) \/ FetchFails(c) \/ CopyRef(c) \/ MergeNotes(c) \/ MergeCrashes(c)
             \/ FallbackImport(c) \/ PushNothing(c) \/ PushUpToDate(c) \/ PushRejected(c)
             \/ PushUpdates(c) \/ PushFails(c)
      PROVE  SyncInv'
  <2>1. sync[c] # "idle" /\ UNCHANGED adder
    BY <1>5 DEF Fetch, FetchFails, CopyRef, MergeNotes, MergeCrashes, FallbackImport,
                PushNothing, PushUpToDate, PushRejected, PushUpdates, PushFails
  <2>2. \E where \in {"idle", "fetching", "fetched", "pushing", "listing"} :
            sync' = [sync EXCEPT ![c] = where]
    BY <1>5 DEF Fetch, FetchFails, CopyRef, MergeNotes, MergeCrashes, FallbackImport,
                PushNothing, PushUpToDate, PushRejected, PushUpdates, PushFails, AfterMerge,
                GoesTo, Ends, Retry
  <2>3. \A e \in Clones : e # c => local'[e] = local[e]
    BY <1>5 DEF TypeOK, Fetch, FetchFails, CopyRef, MergeNotes, MergeCrashes, FallbackImport,
                PushNothing, PushUpToDate, PushRejected, PushUpdates, PushFails
  <2>4. UNCHANGED reads \/ Forgets(c)
    BY <1>5 DEF Fetch, FetchFails, CopyRef, MergeNotes, MergeCrashes, FallbackImport,
                PushNothing, PushUpToDate, PushRejected, PushUpdates, PushFails, AfterMerge
  <2>5. Elsewhere(c) /\ sync'[c] \notin {"copying", "resolving", "importing", "updating"}
    BY <2>1, <2>2, <2>3, <2>4 DEF TypeOK, Forgets, Elsewhere
  <2> QED
    BY <1>4, <2>1, <2>5
<1>6. ASSUME NEW c \in Clones, Inspect(c) PROVE SyncInv'
  <2>1. SyncOk(c)' /\ Elsewhere(c)
    BY <1>6 DEF Inspect, GoesTo, TypeOK, SyncInv, SyncOk, Elsewhere
  <2> QED
    BY <2>1, SyncElsewhere
<1>7. ASSUME NEW c \in Clones, FallbackList(c) PROVE SyncInv'
  <2>1. SyncOk(c)' /\ Elsewhere(c)
    BY <1>7 DEF FallbackList, Remembers, GoesTo, TypeOK, SyncInv, SyncOk, Elsewhere
  <2> QED
    BY <2>1, SyncElsewhere
<1>8. ASSUME NEW c \in Clones, FallbackResolve(c) PROVE SyncInv'
  <2>1. CASE AfterMerge(c)
    <3>1. Elsewhere(c) /\ sync'[c] \notin {"copying", "resolving", "importing", "updating"}
      BY <1>8, <2>1 DEF FallbackResolve, AfterMerge, GoesTo, Ends, Forgets, TypeOK, Elsewhere
    <3> QED
      BY <1>4, <1>8, <3>1 DEF FallbackResolve
  <2>2. CASE Remembers(c, "parent", local[c]) /\ GoesTo(c, "importing")
    <3>1. SyncOk(c)' /\ Elsewhere(c)
      BY <1>8, <2>2 DEF FallbackResolve, Remembers, GoesTo, TypeOK, SyncInv, SyncOk, Elsewhere
    <3> QED
      BY <3>1, SyncElsewhere
  <2> QED
    BY <1>8, <2>1, <2>2 DEF FallbackResolve
<1>9. ASSUME NEW c \in Clones, PushSends(c) PROVE SyncInv'
  <2>1. /\ reads'[c].sending = local[c] /\ reads'[c].expected = remote
        /\ local[c] # None /\ Contains(local[c], remote) /\ UNCHANGED <<anc, adder, local>>
        /\ sync[c] # "idle" /\ sync'[c] = "updating"
    BY <1>9 DEF PushSends, GoesTo, store, TypeOK
  <2>2. SyncOk(c)'
    BY <2>1 DEF SyncOk, SyncInv, Contains, AncOf
  <2>3. Elsewhere(c)
    BY <1>9 DEF PushSends, GoesTo, TypeOK, Elsewhere
  <2> QED
    BY <2>2, <2>3, SyncElsewhere
<1>10. CASE UNCHANGED vars
  BY <1>10 DEF vars, SyncInv, Contains, AncOf
<1> QED
  BY <1>1, <1>2, <1>3, <1>5, <1>6, <1>7, <1>8, <1>9, <1>10
  DEF Next, SyncStep, StartPush, StartFetch, StartFetchMissing

\* Where a syncer goes, and how a sync ends.
SyncPlaces == {"idle", "fetching", "fetched", "copying", "merging", "listing", "resolving",
               "importing", "pushing", "updating"}
Results == {"none", "ok", "found", "notfound", "error", "race"}

SyncTypes == /\ sync' \in [Clones -> SyncPlaces]
             /\ result' \in [Clones -> Results]
             /\ op' \in [Clones -> {"push", "fetch"}]
             /\ attempt' \in [Clones -> 0..(MaxAttempts - 1)]

LEMMA SyncTypesStep ==
    ASSUME TypeOK, [Next]_vars
    PROVE  SyncTypes
<1>0. /\ sync \in [Clones -> SyncPlaces]
      /\ result \in [Clones -> Results]
      /\ op \in [Clones -> {"push", "fetch"}]
      /\ attempt \in [Clones -> 0..(MaxAttempts - 1)]
  BY DEF TypeOK, SyncPlaces, Results
<1>1. CASE UNCHANGED <<sync, result, op, attempt>>
  BY <1>0, <1>1 DEF SyncTypes
<1>2. ASSUME NEW c \in Clones, NEW what \in {"push", "fetch"}, Start(c, what) PROVE SyncTypes
  <2>1. 0 \in 0..(MaxAttempts - 1)
    BY NotesAssumption
  <2> QED
    BY <1>0, <1>2, <2>1 DEF Start, SyncTypes, SyncPlaces, Results
<1>3. ASSUME NEW c \in Clones, NEW where \in SyncPlaces, GoesTo(c, where), UNCHANGED <<op, attempt>>
      PROVE  SyncTypes
  BY <1>0, <1>3 DEF GoesTo, SyncTypes
<1>4. ASSUME NEW c \in Clones, NEW how \in Results, Ends(c, how), UNCHANGED <<op, attempt>>
      PROVE  SyncTypes
  BY <1>0, <1>4 DEF Ends, SyncTypes, SyncPlaces
<1>5. ASSUME NEW c \in Clones, AfterMerge(c), UNCHANGED <<op, attempt>> PROVE SyncTypes
  BY <1>3, <1>4, <1>5 DEF AfterMerge, SyncPlaces, Results
<1>6. ASSUME NEW c \in Clones, Retry(c), UNCHANGED op PROVE SyncTypes
  <2>1. CASE /\ attempt[c] + 1 < MaxAttempts
             /\ attempt' = [attempt EXCEPT ![c] = @ + 1]
             /\ GoesTo(c, "fetching")
    <3>1. attempt[c] + 1 \in 0..(MaxAttempts - 1)
      BY <1>0, <2>1, NotesAssumption
    <3> QED
      BY <1>0, <1>6, <2>1, <3>1 DEF GoesTo, SyncTypes, SyncPlaces
  <2>2. CASE Ends(c, "race") /\ UNCHANGED attempt
    BY <1>4, <1>6, <2>2 DEF Results
  <2> QED
    BY <1>6, <2>1, <2>2 DEF Retry
<1>7. ASSUME NEW c \in Clones,
             \/ Fetch(c) \/ Inspect(c) \/ MergeCrashes(c) \/ FallbackList(c) \/ PushSends(c)
      PROVE  SyncTypes
  BY <1>3, <1>7 DEF Fetch, Inspect, MergeCrashes, FallbackList, PushSends, SyncPlaces
<1>8. ASSUME NEW c \in Clones, FetchFails(c) PROVE SyncTypes
  BY <1>3, <1>4, <1>8 DEF FetchFails, SyncPlaces, Results
<1>9. ASSUME NEW c \in Clones, CopyRef(c) \/ MergeNotes(c) \/ FallbackImport(c) PROVE SyncTypes
  BY <1>5, <1>9 DEF CopyRef, MergeNotes, FallbackImport
<1>10. ASSUME NEW c \in Clones, FallbackResolve(c) PROVE SyncTypes
  BY <1>3, <1>5, <1>10 DEF FallbackResolve, SyncPlaces
<1>11. ASSUME NEW c \in Clones, PushNothing(c) \/ PushUpToDate(c) \/ PushFails(c) PROVE SyncTypes
  BY <1>4, <1>11 DEF PushNothing, PushUpToDate, PushFails, Results
<1>12. ASSUME NEW c \in Clones, PushRejected(c) PROVE SyncTypes
  BY <1>4, <1>6, <1>12 DEF PushRejected, Results
<1>13. ASSUME NEW c \in Clones, PushUpdates(c) PROVE SyncTypes
  BY <1>4, <1>6, <1>13 DEF PushUpdates, Results
<1>14. ASSUME NEW c \in Clones, AddImport(c) \/ \E k \in Commits : AddRead(c, k) PROVE SyncTypes
  BY <1>1, <1>14 DEF AddImport, AddRead, syncVars
<1>15. CASE UNCHANGED vars
  BY <1>1, <1>15 DEF vars
<1> QED
  BY <1>2, <1>7, <1>8, <1>9, <1>10, <1>11, <1>12, <1>13, <1>14, <1>15
  DEF Next, SyncStep, StartPush, StartFetch, StartFetchMissing

LEMMA TypeStep ==
    ASSUME Inv, [Next]_vars
    PROVE  TypeOK'
<1> USE DEF Inv
<1>1. /\ used' \subseteq Ids
      /\ anc' \in [Ids -> SUBSET Ids]
      /\ notes' \in [Ids -> [Commits -> Ref]]
      /\ have' \in [Clones -> SUBSET Ids]
  BY Forward DEF StoreKept
<1>2. remote' \in Ref /\ pushed' \subseteq Ids
  BY <1>1, RefsStep DEF RefsInv, Known, Ref
<1>3. local' \in [Clones -> Ref] /\ added' \in [Clones -> SUBSET Ids]
  <2>1. ASSUME NEW c \in Clones, AddImport(c)
        PROVE  local' \in [Clones -> Ref] /\ added' \in [Clones -> SUBSET Ids]
    <3>1. PICK i \in Ids : \/ /\ local' = [local EXCEPT ![c] = i]
                             /\ added' = [added EXCEPT ![c] = @ \cup {i}]
                          \/ UNCHANGED <<local, added>>
      BY <2>1 DEF AddImport
    <3>2. local \in [Clones -> Ref] /\ i \in Ref
      BY DEF TypeOK, Ref
    <3>3. added \in [Clones -> SUBSET Ids] /\ added[c] \cup {i} \subseteq Ids
      BY DEF TypeOK
    <3>4. local' \in [Clones -> Ref]
      BY <3>1, <3>2
    <3>5. added' \in [Clones -> SUBSET Ids]
      BY <3>1, <3>3
    <3> QED
      BY <3>4, <3>5
  <2>2. ASSUME NEW c \in Clones, CopyRef(c) \/ MergeNotes(c) \/ FallbackImport(c)
        PROVE  local' \in [Clones -> Ref] /\ UNCHANGED added
    <3>1. /\ local \in [Clones -> Ref]
          /\ tracking[c] \in Ref
          /\ Ids \subseteq Ref
      BY DEF TypeOK, Ref
    <3>2. local' = local \/ \E r \in Ref : local' = [local EXCEPT ![c] = r]
      <4>1. CASE CopyRef(c)
        BY <3>1, <4>1 DEF CopyRef
      <4>2. CASE MergeNotes(c)
        BY <3>1, <4>2 DEF MergeNotes
      <4>3. CASE FallbackImport(c)
        <5>1. PICK i \in Ids :
                local' = [local EXCEPT ![c] = IF @ = reads[c].parent THEN i ELSE @]
          BY <4>3 DEF FallbackImport
        <5>2. (IF local[c] = reads[c].parent THEN i ELSE local[c]) \in Ref
          BY <3>1
        <5> QED
          BY <5>1, <5>2
      <4> QED
        BY <2>2, <4>1, <4>2, <4>3
    <3>3. UNCHANGED added
      BY <2>2 DEF CopyRef, MergeNotes, FallbackImport
    <3> QED
      BY <3>1, <3>2, <3>3
  <2>3. \/ \E c \in Clones : AddImport(c) \/ CopyRef(c) \/ MergeNotes(c) \/ FallbackImport(c)
        \/ UNCHANGED <<local, added>>
    BY ZenonT(60) DEF Next, vars, SyncStep, AddRead, StartPush, StartFetch, StartFetchMissing, Start, Fetch,
           FetchFails, Inspect, MergeCrashes, FallbackList, FallbackResolve, PushNothing,
           PushUpToDate, PushSends, PushRejected, PushUpdates, PushFails
  <2> QED
    BY <2>1, <2>2, <2>3 DEF TypeOK
<1>4. tracking' \in [Clones -> Ref]
  <2>1. UNCHANGED tracking \/ \E c \in Clones : tracking' = [tracking EXCEPT ![c] = remote]
    BY ZenonT(60) DEF Next, vars, SyncStep, AddRead, AddImport, StartPush, StartFetch, StartFetchMissing,
           Start, Fetch, FetchFails, Inspect, CopyRef, MergeNotes, MergeCrashes, FallbackList,
           FallbackResolve, FallbackImport, PushNothing, PushUpToDate, PushSends, PushRejected,
           PushUpdates, PushFails
  <2> QED
    BY <2>1 DEF TypeOK
<1>5. adder' \in [Clones -> [commit : Commits \cup {None}, tip : Ref]]
  <2>1. \/ UNCHANGED adder
        \/ \E c \in Clones, k \in Commits : adder' = [adder EXCEPT ![c] = [commit |-> k, tip |-> local[c]]]
        \/ \E c \in Clones : adder' = [adder EXCEPT ![c] = Idle]
    BY ZenonT(60) DEF Next, vars, SyncStep, AddRead, AddImport, StartPush, StartFetch, StartFetchMissing,
           Start, Fetch, FetchFails, Inspect, CopyRef, MergeNotes, MergeCrashes, FallbackList,
           FallbackResolve, FallbackImport, PushNothing, PushUpToDate, PushSends, PushRejected,
           PushUpdates, PushFails
  <2> DEFINE Adders == [commit : Commits \cup {None}, tip : Ref]
  <2>2. Idle \in Adders
    BY DEF Idle, Ref
  <2>3. adder \in [Clones -> Adders]
    BY DEF TypeOK
  <2>4. ASSUME NEW c \in Clones, NEW k \in Commits
        PROVE  [commit |-> k, tip |-> local[c]] \in Adders
    BY DEF TypeOK
  <2> HIDE DEF Adders
  <2>5. adder' \in [Clones -> Adders]
    BY <2>1, <2>2, <2>3, <2>4
  <2> QED
    BY <2>5 DEF Adders
<1>6. reads' \in [Clones -> [listed : Ref, parent : Ref, sending : Ref, expected : Ref]]
  <2> DEFINE Reads == [listed : Ref, parent : Ref, sending : Ref, expected : Ref]
  <2>1. \/ UNCHANGED reads
        \/ \E c \in Clones : \/ Remembers(c, "listed", local[c])
                             \/ Remembers(c, "parent", local[c])
                             \/ reads' = [reads EXCEPT ![c] =
                                            [@ EXCEPT !.sending = local[c], !.expected = remote]]
                             \/ Forgets(c)
    BY ReadsMove
  <2>2. NoReads \in Reads
    BY DEF NoReads, Ref
  <2>3. ASSUME NEW c \in Clones, NEW r \in Ref, NEW s \in Ref
        PROVE  /\ [reads[c] EXCEPT !["listed"] = r] \in Reads
               /\ [reads[c] EXCEPT !["parent"] = r] \in Reads
               /\ [reads[c] EXCEPT !.sending = r, !.expected = s] \in Reads
    BY ZenonT(60) DEF TypeOK
  <2>4. reads \in [Clones -> Reads] /\ \A c \in Clones : local[c] \in Ref /\ remote \in Ref
    BY DEF TypeOK
  <2>5. \/ UNCHANGED reads
        \/ \E c \in Clones, x \in Reads : reads' = [reads EXCEPT ![c] = x]
    <3>1. ASSUME NEW c \in Clones, Remembers(c, "listed", local[c])
          PROVE  \E x \in Reads : reads' = [reads EXCEPT ![c] = x]
      <4>1. reads' = [reads EXCEPT ![c] = [reads[c] EXCEPT !["listed"] = local[c]]]
        BY <3>1 DEF Remembers
      <4> QED
        BY <2>3, <2>4, <4>1
    <3>2. ASSUME NEW c \in Clones, Remembers(c, "parent", local[c])
          PROVE  \E x \in Reads : reads' = [reads EXCEPT ![c] = x]
      <4>1. reads' = [reads EXCEPT ![c] = [reads[c] EXCEPT !["parent"] = local[c]]]
        BY <3>2 DEF Remembers
      <4> QED
        BY <2>3, <2>4, <4>1
    <3>3. ASSUME NEW c \in Clones,
                 reads' = [reads EXCEPT ![c] = [@ EXCEPT !.sending = local[c], !.expected = remote]]
          PROVE  \E x \in Reads : reads' = [reads EXCEPT ![c] = x]
      <4>1. reads' = [reads EXCEPT ![c] =
                        [reads[c] EXCEPT !.sending = local[c], !.expected = remote]]
        BY <3>3
      <4> QED
        BY <2>3, <2>4, <4>1
    <3>4. ASSUME NEW c \in Clones, Forgets(c)
          PROVE  \E x \in Reads : reads' = [reads EXCEPT ![c] = x]
      BY <2>2, <3>4 DEF Forgets
    <3> HIDE DEF Reads
    <3> QED
      BY <2>1, <3>1, <3>2, <3>3, <3>4
  <2> HIDE DEF Reads
  <2>6. reads' \in [Clones -> Reads]
    BY <2>4, <2>5
  <2> QED
    BY <2>6 DEF Reads
<1>7. failures' \in 0..MaxFailures
  <2>1. UNCHANGED failures \/ (failures < MaxFailures /\ failures' = failures + 1)
    <3>1. CASE UNCHANGED vars
      BY <3>1 DEF vars
    <3>2. ASSUME NEW c \in Clones, FetchFails(c) \/ MergeCrashes(c) \/ PushFails(c)
          PROVE  UNCHANGED failures \/ (failures < MaxFailures /\ failures' = failures + 1)
      BY <3>2 DEF FetchFails, MergeCrashes, PushFails
    <3>3. ASSUME NEW c \in Clones,
                 \/ \E k \in Commits : AddRead(c, k) \/ StartFetchMissing(c, k)
                 \/ AddImport(c) \/ StartPush(c) \/ StartFetch(c) \/ Fetch(c) \/ Inspect(c)
          PROVE  UNCHANGED failures
      BY <3>3 DEF AddRead, StartFetchMissing, AddImport, StartPush, StartFetch, Start, Fetch, Inspect
    <3>4. ASSUME NEW c \in Clones,
                 \/ CopyRef(c) \/ MergeNotes(c) \/ FallbackList(c) \/ FallbackResolve(c)
                 \/ FallbackImport(c) \/ PushNothing(c) \/ PushUpToDate(c) \/ PushSends(c)
                 \/ PushRejected(c) \/ PushUpdates(c)
          PROVE  UNCHANGED failures
      BY <3>4 DEF CopyRef, MergeNotes, FallbackList, FallbackResolve, FallbackImport, PushNothing,
                  PushUpToDate, PushSends, PushRejected, PushUpdates
    <3> QED
      BY <3>1, <3>2, <3>3, <3>4 DEF Next, SyncStep
  <2> QED
    BY <2>1, NotesAssumption DEF TypeOK
<1>8. SyncTypes
  BY SyncTypesStep
<1> QED
  BY <1>1, <1>2, <1>3, <1>4, <1>5, <1>6, <1>7, <1>8 DEF TypeOK, SyncTypes, SyncPlaces, Results

LEMMA InvHolds ==
    ASSUME Serialised
    PROVE  Spec => []Inv
<1>1. Init => Inv
  <2> SUFFICES ASSUME Init PROVE Inv
    OBVIOUS
  <2>1. 0 \in 0..(MaxAttempts - 1) /\ 0 \in 0..MaxFailures
    BY NotesAssumption
  <2>2. /\ NoNotes \in [Commits -> Ref] /\ Idle \in [commit : Commits \cup {None}, tip : Ref]
        /\ NoReads \in [listed : Ref, parent : Ref, sending : Ref, expected : Ref]
    BY DEF NoNotes, Idle, NoReads, Ref
  <2>3. TypeOK
    BY <2>1, <2>2 DEF Init, TypeOK, Ref
  <2>4. StoreInv /\ SyncInv /\ HistoryInv
    BY DEF Init, StoreInv, SyncInv, HistoryInv
  <2>5. RefsInv
    BY DEF Init, RefsInv, ReadsKnown, NoReads, Idle, Known
  <2> QED
    BY <2>3, <2>4, <2>5 DEF Inv
<1>2. Inv /\ [Next]_vars => Inv'
  BY Serialised, TypeStep, Forward, RefsStep, SyncStepKeeps, HistoryStep DEF Inv
<1> QED
  BY <1>1, <1>2, PTL DEF Spec

-----------------------------------------------------------------------------

(* A push that was reported as successful stays effective, whoever pushes   *)
(* afterwards and however merges, crashes of git notes merge and lost races *)
(* interleave: the remote keeps what was pushed, and a note for every       *)
(* commit that had one.                                                     *)
THEOREM PushedNotesAreKept ==
    ASSUME Serialised
    PROVE  Spec => []PushedNotesStay
<1>1. Inv => PushedNotesStay
  <2> SUFFICES ASSUME Inv, NEW t \in pushed
               PROVE  Contains(remote, t) /\ Noted(t) \subseteq Noted(remote)
    BY DEF PushedNotesStay
  <2> QED
    BY ContainedIsNoted DEF Inv, HistoryInv, RefsInv
<1> QED
  BY <1>1, InvHolds, Serialised, PTL

(* A note whose writing was reported as successful stays in refs/notes/ai   *)
(* of its clone, through every fetch, copy, merge and fallback merge.       *)
THEOREM AddedNotesAreKept ==
    ASSUME Serialised
    PROVE  Spec => []AddedNotesKept
<1>1. Inv => AddedNotesKept
  <2> SUFFICES ASSUME Inv, NEW c \in Clones, NEW i \in added[c]
               PROVE  /\ Contains(local[c], i)
                      /\ \A k \in Commits : notes[i][k] = i => k \in Noted(local[c])
    BY DEF AddedNotesKept
  <2>1. Contains(local[c], i) /\ local[c] \in Known /\ i \in Ids
    BY DEF Inv, TypeOK, HistoryInv, RefsInv
  <2>2. Noted(i) \subseteq Noted(local[c])
    BY <2>1, ContainedIsNoted DEF Inv
  <2>3. i # None
    BY <2>1, NotesAssumption
  <2> QED
    BY <2>1, <2>2, <2>3 DEF Noted, NotesOf
<1> QED
  BY <1>1, InvHolds, Serialised, PTL

(* Notes are well typed in every reachable state, and every ref names a     *)
(* notes commit that exists.                                                *)
THEOREM NotesTypeCorrect ==
    ASSUME Serialised
    PROVE  Spec => []TypeOK
<1>1. Inv => TypeOK
  BY DEF Inv
<1> QED
  BY <1>1, InvHolds, Serialised, PTL

==============================================================================
