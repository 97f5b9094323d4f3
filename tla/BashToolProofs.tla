---------------------------- MODULE BashToolProofs ----------------------------
(***************************************************************************)
(* What the hooks of BashTool promise about authorship, for any number of  *)
(* worktrees, files and calls, whatever fails and whoever is stopped: every *)
(* write of a call is reported, no write of a call becomes the user's, no   *)
(* write of the user is hidden by a watermark or becomes an agent's.        *)
(***************************************************************************)
EXTENDS BashTool, TLAPS

\* Each call has an id of its own, and nobody writes within the grace period of
\* a watermark.
Distinct == Unnamed = {} /\ ~Quick

MarkSet == [perFile : [Files -> Int], tree : Int]
SnapSet == [tree : Trees, entries : [Files -> Int], wm : MarkSet, at : Nat]
CallSet == [pc : Phases, wm : MarkSet, snap : Seq(SnapSet), used : Ids \cup {None}]

Types ==
    /\ now \in Nat
    /\ mtime \in [Trees -> [Files -> Nat]] /\ stat \in [Trees -> [Files -> Nat]]
    /\ \A t \in Trees, f \in Files : mtime[t][f] <= now
    /\ index \in [Trees -> Nat]
    /\ unread \in [Trees -> [Files -> SUBSET Authors]]
    /\ perFile \in [Files -> Int] /\ perTree \in [Trees -> Int]
    /\ \A f \in Files : NoTime <= perFile[f]
    /\ DOMAIN snaps \subseteq Calls /\ \A c \in DOMAIN snaps : snaps[c] \in SnapSet
    /\ call \in [Calls -> CallSet]
    /\ queue \in Seq(Requests) /\ job \in Seq(Requests)

\* A live request is one that a hook waits for.
Waits(r) ==
    /\ r.by \in Calls /\ r.tree = Home[r.by] /\ r.paths = {}
    /\ \A f \in Files : r.text[f] = {}
    /\ \/ r.kind = "human" /\ call[r.by].pc = "pre"
       \/ r.kind = "ai" /\ call[r.by].pc = "post"

\* A hook waits for one request at a time; what the one under way has read is
\* not written again by its own call.
WaitInv ==
    /\ \A i \in 1..Len(queue) : queue[i].live => Waits(queue[i])
    /\ \A i, j \in 1..Len(queue) :
          queue[i].live /\ queue[j].live /\ queue[i].by = queue[j].by => i = j
    /\ job # <<>> /\ job[1].live =>
          /\ Waits(job[1])
          /\ \A i \in 1..Len(queue) : queue[i].live => queue[i].by # job[1].by
          /\ \A f \in Files : job[1].by \notin unread[job[1].tree][f]

\* A snapshot is of the worktree of its call, and no stat goes back.
SnapInv ==
    \A c \in Calls :
        /\ c \in DOMAIN snaps =>
              /\ call[c].pc \in {"pre", "running", "stopped"} /\ snaps[c].tree = Home[c]
              /\ \A f \in Files : snaps[c].entries[f] <= stat[Home[c]][f]
        /\ call[c].snap # <<>> =>
              \A f \in Files : call[c].snap[1].entries[f] <= stat[Home[c]][f]

\* The comparison with snapshot s shows that f has changed when it was written at
\* m and has stat n.
Shows(s, f, m, n) == ~Covered(m, s.wm, f) /\ s.entries[f] < n

\* What a call has written and no checkpoint has read is shown by its snapshot,
\* if it has one.
WriteOf(c) ==
    \A t \in Trees, f \in Files : c \in unread[t][f] =>
        /\ t = Home[c]
        /\ call[c].pc \in {"running", "loaded", "post", "stopped"}
        /\ call[c].pc = "running" /\ c \in DOMAIN snaps =>
              Shows(snaps[c], f, mtime[t][f], stat[t][f])
        /\ call[c].pc = "loaded" /\ call[c].snap # <<>> =>
              Shows(call[c].snap[1], f, mtime[t][f], stat[t][f])

WriteInv == \A c \in Calls : WriteOf(c)

EditInv == Types /\ WaitInv /\ SnapInv /\ WriteInv

-----------------------------------------------------------------------------
\* One call at a time in a worktree, and only the user commits.
Alone == ~Overlap /\ Committers \subseteq {User}

SoloInv == \A c, d \in Calls : Home[c] = Home[d] /\ InFlight(c) /\ InFlight(d) => c = d

\* What a human checkpoint or the user's commit carries of a call is of one that
\* was stopped.
TextInv ==
    \A i \in 1..Len(queue) : queue[i].kind # "ai" =>
        \A f \in Files, c \in Calls : c \in queue[i].text[f] => call[c].pc = "stopped"

AgentInv == SoloInv /\ TextInv /\ AgentStaysAi

-----------------------------------------------------------------------------
\* One worktree, in which the user does not write while the daemon works.
Patient == (\E t : Trees = {t}) /\ ~Typing

\* What is under way has read what the user wrote.
ReadInv ==
    /\ \A i \in 1..Len(queue) : \A f \in queue[i].paths : User \notin unread[queue[i].tree][f]
    /\ job # <<>> => /\ \A f \in job[1].paths : User \notin unread[job[1].tree][f]
                     /\ job[1].live => \A f \in Files : User \notin unread[job[1].tree][f]

CoverInv == ReadInv /\ CoveredIsRead

\* The watermarks a hook was given hide nothing of the user, and when its command
\* runs everything of the user has been read.
BeforeInv ==
    \A c \in Calls :
        /\ call[c].pc = "queried" => \/ call[c].wm = NoMarks
                                     \/ /\ call[c].wm.tree # NoTime
                                        /\ \A f \in Files : User \in unread[Home[c]][f] =>
                                              ~Covered(mtime[Home[c]][f], call[c].wm, f)
        /\ call[c].pc \in {"running", "loaded", "post"} =>
              \A f \in Files : User \notin unread[Home[c]][f]

\* No agent's checkpoint carries a change of the user; a commit that does waits
\* for its replay while no command runs.
UserTextInv ==
    \A i \in 1..Len(queue) : \A f \in Files : User \in queue[i].text[f] =>
        /\ queue[i].kind # "ai"
        /\ queue[i].kind = "commit" =>
              \A c \in Calls : Home[c] = queue[i].tree => ~InFlight(c)

UserInv == BeforeInv /\ UserTextInv /\ UserStaysHuman

-----------------------------------------------------------------------------
(* Requests that come and go, and what is read.                             *)

LEMMA AppendedQueue ==
    ASSUME Types, NEW r \in Requests, queue' = Append(queue, r)
    PROVE  /\ queue' \in Seq(Requests) /\ Len(queue') = Len(queue) + 1
           /\ queue'[Len(queue) + 1] = r
           /\ \A i \in 1..Len(queue) : i \in 1..Len(queue') /\ queue'[i] = queue[i]
           /\ \A i \in 1..Len(queue') : i \in 1..Len(queue) \/ i = Len(queue) + 1
BY DEF Types

LEMMA PoppedQueue ==
    ASSUME Types, queue # <<>>, queue' = Tail(queue)
    PROVE  /\ queue' \in Seq(Requests) /\ queue[1] \in Requests /\ 1 \in 1..Len(queue)
           /\ \A i \in 1..Len(queue') : i + 1 \in 1..Len(queue) /\ queue'[i] = queue[i + 1]
BY DEF Types

LEMMA ReadIs ==
    ASSUME Types, NEW t \in Trees, NEW ps \in SUBSET Files, unread' = Read(t, ps)
    PROVE  /\ unread' \in [Trees -> [Files -> SUBSET Authors]]
           /\ \A f \in Files : unread'[t][f] = IF f \in ps THEN {} ELSE unread[t][f]
           /\ \A u \in Trees : u # t => unread'[u] = unread[u]
           /\ \A u \in Trees, f \in Files : unread'[u][f] \subseteq unread[u][f]
<1>1. unread' = [unread EXCEPT ![t] = [f \in Files |-> IF f \in ps THEN {} ELSE unread[t][f]]]
  BY DEF Read
<1>2. [f \in Files |-> IF f \in ps THEN {} ELSE unread[t][f]] \in [Files -> SUBSET Authors]
  BY DEF Types
<1>3. /\ unread' \in [Trees -> [Files -> SUBSET Authors]]
      /\ unread'[t] = [f \in Files |-> IF f \in ps THEN {} ELSE unread[t][f]]
      /\ \A u \in Trees : u # t => unread'[u] = unread[u]
  BY <1>1, <1>2 DEF Types
<1> QED
  BY <1>3

Kinds == {"human", "ai", "commit"}

UnreadOf(t, ps) == [f \in Files |-> IF f \in ps THEN unread[t][f] ELSE {}]

LEMMA RequestIs ==
    ASSUME Types, NEW t \in Trees, NEW k \in Kinds, NEW ps \in SUBSET Files, NEW a \in Authors
    PROVE  Request(t, k, FALSE, ps, a) \in Requests
<1>1. UnreadOf(t, ps) \in [Files -> SUBSET Authors]
  BY DEF Types, UnreadOf
<1> QED
  BY <1>1 DEF Request, UnreadOf, Requests, Kinds

LEMMA LiveIs ==
    ASSUME NEW t, NEW k, NEW ps, NEW a
    PROVE  Request(t, k, TRUE, ps, a).live /\ ~Request(t, k, FALSE, ps, a).live
BY DEF Request

-----------------------------------------------------------------------------
(* What a step does to a call.                                              *)

\* Call c goes to phase p, with the watermarks and the snapshot it has.
Goes(c, p) ==
    /\ call' \in [Calls -> CallSet]
    /\ call'[c].pc = p /\ call'[c].wm = call[c].wm /\ call'[c].snap = call[c].snap
    /\ \A d \in Calls : d # c => call'[d] = call[d]

LEMMA PhaseIs ==
    ASSUME Types, NEW c \in Calls, NEW p \in Phases, call' = [call EXCEPT ![c].pc = p]
    PROVE  Goes(c, p)
<1>1. call[c] \in CallSet
  BY DEF Types
<1>2. [call[c] EXCEPT !.pc = p] \in CallSet
  BY <1>1 DEF CallSet
<1> QED
  BY <1>1, <1>2 DEF Types, Goes, CallSet

\* The call is over: it forgets its snapshot.
Ends(c) ==
    /\ call' \in [Calls -> CallSet]
    /\ call'[c].pc = "done" /\ call'[c].snap = <<>>
    /\ \A d \in Calls : d # c => call'[d] = call[d]

LEMMA EndIs ==
    ASSUME Types, NEW c \in Calls, NEW x \in CallSet,
           x = [call[c] EXCEPT !.pc = "done", !.snap = <<>>, !.wm = NoMarks],
           call' = [call EXCEPT ![c] = x]
    PROVE  Ends(c)
<1>1. x.pc = "done" /\ x.snap = <<>>
  BY DEF Types, CallSet
<1> QED
  BY <1>1 DEF Types, Ends

LEMMA NoMarksType == NoMarks \in MarkSet
  BY DEF NoMarks, MarkSet, NoTime

LEMMA EndType ==
    ASSUME Types, NEW c \in Calls
    PROVE  [call[c] EXCEPT !.pc = "done", !.snap = <<>>, !.wm = NoMarks] \in CallSet
<1>1. call[c] \in CallSet /\ "done" \in Phases /\ <<>> \in Seq(SnapSet)
  BY DEF Types, Phases
<1> QED
  BY <1>1, NoMarksType DEF CallSet

-----------------------------------------------------------------------------
(* Snapshots.                                                               *)

LEMMA WatermarksType ==
    ASSUME Types, NEW t \in Trees
    PROVE  WatermarksFor(t) \in MarkSet
BY DEF Types, WatermarksFor, MarkSet

LEMMA EntriesIs ==
    ASSUME Types, NEW t \in Trees, NEW wm \in MarkSet
    PROVE  /\ Entries(t, wm) \in [Files -> Int]
           /\ \A f \in Files : Entries(t, wm)[f] = IF Covered(mtime[t][f], wm, f) THEN NoTime
                                                   ELSE stat[t][f]
           /\ \A f \in Files : Entries(t, wm)[f] <= stat[t][f]
<1>1. \A f \in Files : stat[t][f] \in Nat
  BY DEF Types
<1> QED
  BY <1>1 DEF Entries, NoTime

\* What is not covered is not covered when it is written later.
LEMMA CoveredLater ==
    ASSUME NEW f \in Files, NEW wm \in MarkSet, NEW m \in Nat, NEW n \in Nat,
           m <= n, Covered(n, wm, f)
    PROVE  Covered(m, wm, f)
BY TimesAssumption DEF Covered, MarkSet

-----------------------------------------------------------------------------
(* How the parts of EditInv are kept.                                       *)

\* Files are written later and later.
Grows == \A t \in Trees, f \in Files :
            /\ mtime[t][f] \in Nat /\ mtime'[t][f] \in Nat /\ mtime[t][f] <= mtime'[t][f]
            /\ stat[t][f] \in Nat /\ stat'[t][f] \in Nat /\ stat[t][f] <= stat'[t][f]

Unread(c, t, f) == c \in unread[t][f]

LEMMA FilesStay ==
    ASSUME Types, UNCHANGED <<mtime, stat>>
    PROVE  Grows
BY DEF Types, Grows

\* Nothing happens to a hook that waits, and nothing new is written by its call.
Steady == \A c \in Calls : call[c].pc \in {"pre", "post"} =>
             /\ call'[c] = call[c]
             /\ \A t \in Trees, f \in Files : Unread(c, t, f)' => Unread(c, t, f)

LEMMA WaitKept ==
    ASSUME Types, Types', WaitInv, Steady, UNCHANGED job,
           \/ UNCHANGED queue
           \/ \E r \in Requests : queue' = Append(queue, r) /\ ~r.live
    PROVE  WaitInv'
<1>1. \A r \in Requests : Waits(r) => Waits(r)'
  BY DEF Waits, Steady
<1>2. \A i \in 1..Len(queue') : queue'[i].live => i \in 1..Len(queue) /\ queue'[i] = queue[i]
  BY AppendedQueue
<1>3. \A i \in 1..Len(queue) : queue[i] \in Requests
  BY DEF Types
<1>4. \A i \in 1..Len(queue') : queue'[i].live => Waits(queue[i])'
  BY <1>1, <1>2, <1>3 DEF WaitInv, Waits
<1>5. \A i, j \in 1..Len(queue') :
          queue'[i].live /\ queue'[j].live /\ queue'[i].by = queue'[j].by => i = j
  BY <1>2 DEF WaitInv
<1>6. ASSUME job # <<>>, job[1].live
      PROVE  /\ Waits(job[1])'
             /\ \A i \in 1..Len(queue') : queue'[i].live => queue'[i].by # job[1].by
             /\ \A f \in Files : job[1].by \notin unread'[job[1].tree][f]
  <2>1. Waits(job[1]) /\ job[1] \in Requests
    BY <1>6 DEF WaitInv, Types
  <2>2. Waits(job[1])'
    BY <1>1, <2>1 DEF Waits
  <2>3. \A f \in Files : job[1].by \notin unread'[job[1].tree][f]
    BY <1>6, <2>1 DEF Waits, WaitInv, Steady, Unread, Requests
  <2> QED
    BY <1>2, <1>6, <2>2, <2>3 DEF WaitInv
<1> QED
  BY <1>4, <1>5, <1>6 DEF WaitInv

LEMMA WaitAsked ==
    ASSUME Types, Types', WaitInv, UNCHANGED job, UNCHANGED unread,
           NEW c \in Calls, NEW p \in Phases, call[c].pc \notin {"pre", "post"}, Goes(c, p),
           NEW r \in Requests, queue' = Append(queue, r), r.by = c, Waits(r)'
    PROVE  WaitInv'
<1>1. \A x \in Requests : Waits(x) => Waits(x)' /\ x.by # c
  BY DEF Waits, Goes
<1>2. /\ \A i \in 1..Len(queue') :
            \/ i \in 1..Len(queue) /\ queue'[i] = queue[i] /\ queue[i] \in Requests
            \/ i = Len(queue) + 1 /\ queue'[i] = r
  BY AppendedQueue DEF Types
<1>3. \A i \in 1..Len(queue) : queue[i].live => queue[i].by # c
  BY <1>1 DEF WaitInv, Types
<1>4. \A i \in 1..Len(queue') : queue'[i].live => Waits(queue[i])'
  <2> TAKE i \in 1..Len(queue')
  <2>1. CASE i \in 1..Len(queue) /\ queue'[i] = queue[i] /\ queue[i] \in Requests
    BY <1>1, <2>1 DEF WaitInv, Waits
  <2>2. CASE queue'[i] = r
    BY <2>2 DEF Waits
  <2> QED
    BY <1>2, <2>1, <2>2
<1>5. \A i, j \in 1..Len(queue') :
          queue'[i].live /\ queue'[j].live /\ queue'[i].by = queue'[j].by => i = j
  BY <1>2, <1>3 DEF WaitInv
<1>6. ASSUME job # <<>>, job[1].live
      PROVE  /\ Waits(job[1])'
             /\ \A i \in 1..Len(queue') : queue'[i].live => queue'[i].by # job[1].by
             /\ \A f \in Files : job[1].by \notin unread'[job[1].tree][f]
  <2>1. Waits(job[1]) /\ job[1] \in Requests
    BY <1>6 DEF WaitInv, Types
  <2>2. Waits(job[1])' /\ job[1].by # c
    BY <1>1, <2>1 DEF Waits
  <2> QED
    BY <1>2, <1>6, <2>2 DEF WaitInv
<1> QED
  BY <1>4, <1>5, <1>6 DEF WaitInv

LEMMA SnapKept ==
    ASSUME Types, SnapInv, Grows,
           \A c \in Calls :
              /\ c \in DOMAIN snaps' => /\ c \in DOMAIN snaps /\ snaps'[c] = snaps[c]
                                        /\ call'[c].pc \in {"pre", "running", "stopped"}
              /\ call'[c].snap # <<>> => call'[c].snap = call[c].snap
    PROVE  SnapInv'
<1> SUFFICES ASSUME NEW c \in Calls
             PROVE  /\ c \in DOMAIN snaps' =>
                          /\ call'[c].pc \in {"pre", "running", "stopped"}
                          /\ snaps'[c].tree = Home[c]
                          /\ \A f \in Files : snaps'[c].entries[f] <= stat'[Home[c]][f]
                    /\ call'[c].snap # <<>> =>
                          \A f \in Files : call'[c].snap[1].entries[f] <= stat'[Home[c]][f]
  BY DEF SnapInv
<1>1. Home[c] \in Trees
  BY HomeAssumption
<1>2. c \in DOMAIN snaps => \A f \in Files : snaps[c].entries[f] \in Int
  BY DEF Types, SnapSet
<1>3. call[c].snap # <<>> => \A f \in Files : call[c].snap[1].entries[f] \in Int
  <2>1. call[c].snap \in Seq(SnapSet)
    BY DEF Types, CallSet
  <2> QED
    <3>1. \A s \in Seq(SnapSet) : s # <<>> => s[1] \in SnapSet
      OBVIOUS
    <3> QED
      BY <2>1, <3>1 DEF SnapSet
<1>4. \A f \in Files : \A e \in Int : e <= stat[Home[c]][f] => e <= stat'[Home[c]][f]
  BY <1>1 DEF Grows
<1> QED
  BY <1>2, <1>3, <1>4 DEF SnapInv

LEMMA ShowsLater ==
    ASSUME NEW s \in SnapSet, NEW f \in Files, NEW m \in Nat, NEW m1 \in Nat, NEW n \in Nat,
           NEW n1 \in Nat, m <= m1, n <= n1, Shows(s, f, m, n)
    PROVE  Shows(s, f, m1, n1)
<1>1. s.wm \in MarkSet /\ s.entries[f] \in Int
  BY DEF SnapSet
<1>2. ~Covered(m1, s.wm, f)
  BY <1>1, CoveredLater DEF Shows
<1> QED
  BY <1>1, <1>2 DEF Shows

\* A call that stays where it is, or goes where its snapshot does not count, and
\* writes nothing new.
LEMMA WriteKept ==
    ASSUME Types, Grows, NEW c \in Calls, WriteOf(c),
           \A t \in Trees, f \in Files : Unread(c, t, f)' => Unread(c, t, f),
           \/ call'[c].pc \in {"post", "stopped"}
           \/ /\ call'[c].pc = call[c].pc /\ call'[c].snap = call[c].snap
              /\ c \in DOMAIN snaps' => c \in DOMAIN snaps /\ snaps'[c] = snaps[c]
    PROVE  WriteOf(c)'
<1> SUFFICES ASSUME NEW t \in Trees, NEW f \in Files, c \in unread'[t][f]
             PROVE  /\ t = Home[c]
                    /\ call'[c].pc \in {"running", "loaded", "post", "stopped"}
                    /\ call'[c].pc = "running" /\ c \in DOMAIN snaps' =>
                          Shows(snaps'[c], f, mtime'[t][f], stat'[t][f])
                    /\ call'[c].pc = "loaded" /\ call'[c].snap # <<>> =>
                          Shows(call'[c].snap[1], f, mtime'[t][f], stat'[t][f])
  BY DEF WriteOf
<1>1. c \in unread[t][f]
  BY DEF Unread
<1>2. /\ mtime[t][f] \in Nat /\ mtime'[t][f] \in Nat /\ mtime[t][f] <= mtime'[t][f]
      /\ stat[t][f] \in Nat /\ stat'[t][f] \in Nat /\ stat[t][f] <= stat'[t][f]
  BY DEF Grows
<1>3. CASE call'[c].pc \in {"post", "stopped"}
  BY <1>1, <1>3 DEF WriteOf
<1>4. CASE /\ call'[c].pc = call[c].pc /\ call'[c].snap = call[c].snap
           /\ c \in DOMAIN snaps' => c \in DOMAIN snaps /\ snaps'[c] = snaps[c]
  <2>1. ASSUME call'[c].pc = "running", c \in DOMAIN snaps'
        PROVE  Shows(snaps'[c], f, mtime'[t][f], stat'[t][f])
    <3>1. snaps[c] \in SnapSet /\ snaps'[c] = snaps[c]
      BY <1>4, <2>1 DEF Types
    <3>2. Shows(snaps[c], f, mtime[t][f], stat[t][f])
      BY <1>1, <1>4, <2>1 DEF WriteOf
    <3> QED
      BY <1>2, <3>1, <3>2, ShowsLater
  <2>2. ASSUME call'[c].pc = "loaded", call'[c].snap # <<>>
        PROVE  Shows(call'[c].snap[1], f, mtime'[t][f], stat'[t][f])
    <3>1. call[c].snap \in Seq(SnapSet)
      BY DEF Types, CallSet
    <3>2. call[c].snap[1] \in SnapSet /\ call'[c].snap[1] = call[c].snap[1]
      BY <1>4, <2>2, <3>1
    <3>3. Shows(call[c].snap[1], f, mtime[t][f], stat[t][f])
      BY <1>1, <1>4, <2>2 DEF WriteOf
    <3> QED
      BY <1>2, <3>2, <3>3, ShowsLater
  <2> QED
    BY <1>1, <1>4, <2>1, <2>2 DEF WriteOf
<1> QED
  BY <1>3, <1>4

-----------------------------------------------------------------------------
(* Writing files.                                                           *)

LEMMA WriteIs ==
    ASSUME Types, NEW a \in Authors, NEW t \in Trees, NEW f \in Files, Write(a, t, f)
    PROVE  /\ Types' /\ Grows
           /\ mtime'[t][f] = now /\ stat'[t][f] = stat[t][f] + 1
           /\ \A u \in Trees, g \in Files : u # t \/ g # f => mtime'[u][g] = mtime[u][g]
           /\ \A u \in Trees, g \in Files :
                 unread'[u][g] = IF u = t /\ g = f THEN unread[u][g] \cup {a} ELSE unread[u][g]
           /\ UNCHANGED <<now, index, perFile, perTree, snaps, call, queue, job, credited>>
<1>1. /\ mtime' = [mtime EXCEPT ![t][f] = now]
      /\ stat' = [stat EXCEPT ![t][f] = stat[t][f] + 1]
      /\ unread' = [unread EXCEPT ![t][f] = unread[t][f] \cup {a}]
      /\ UNCHANGED <<now, index, perFile, perTree, snaps, call, queue, job, credited>>
  BY DEF Write, actorVars, hookVars, daemonVars
<1>2. /\ mtime' \in [Trees -> [Files -> Nat]] /\ mtime'[t][f] = now
      /\ \A u \in Trees, g \in Files : u # t \/ g # f => mtime'[u][g] = mtime[u][g]
  BY <1>1 DEF Types
<1>3. /\ stat' \in [Trees -> [Files -> Nat]] /\ stat'[t][f] = stat[t][f] + 1
      /\ \A u \in Trees, g \in Files : u # t \/ g # f => stat'[u][g] = stat[u][g]
  BY <1>1 DEF Types
<1>4. /\ unread' \in [Trees -> [Files -> SUBSET Authors]]
      /\ \A u \in Trees, g \in Files :
            unread'[u][g] = IF u = t /\ g = f THEN unread[u][g] \cup {a} ELSE unread[u][g]
  BY <1>1 DEF Types
<1>5. \A u \in Trees, g \in Files :
        /\ mtime[u][g] \in Nat /\ mtime'[u][g] \in Nat /\ mtime[u][g] <= now /\ now \in Nat
        /\ stat[u][g] \in Nat /\ stat'[u][g] \in Nat
  BY <1>2, <1>3 DEF Types
<1>6. Grows /\ \A u \in Trees, g \in Files : mtime'[u][g] <= now
  <2> SUFFICES ASSUME NEW u \in Trees, NEW g \in Files
               PROVE  /\ mtime[u][g] <= mtime'[u][g] /\ mtime'[u][g] <= now
                      /\ stat[u][g] <= stat'[u][g]
    BY <1>5 DEF Grows
  <2>1. CASE u = t /\ g = f
    BY <1>2, <1>3, <1>5, <2>1
  <2>2. CASE u # t \/ g # f
    BY <1>2, <1>3, <1>5, <2>2
  <2> QED
    BY <2>1, <2>2
<1>7. Types'
  BY <1>1, <1>2, <1>3, <1>4, <1>6 DEF Types
<1> QED
  BY <1>1, <1>2, <1>3, <1>4, <1>6, <1>7

LEMMA UserWritesKeeps ==
    ASSUME EditInv, NEW t \in Trees, NEW f \in Files, UserWrites(t, f)
    PROVE  EditInv'
<1> USE DEF EditInv
<1>1. PICK a \in Authors : a = User /\ Write(a, t, f) /\ a \notin Calls
  BY CallsAssumption DEF UserWrites, Authors
<1>2. Types' /\ Grows
  BY <1>1, WriteIs
<1>8. \A u \in Trees, g \in Files :
         unread'[u][g] = IF u = t /\ g = f THEN unread[u][g] \cup {a} ELSE unread[u][g]
  BY <1>1, WriteIs
<1>3. \A c \in Calls, u \in Trees, g \in Files : Unread(c, u, g)' => Unread(c, u, g)
  BY <1>1, <1>8 DEF Unread
<1>4. UNCHANGED <<snaps, call, queue, job>>
  BY <1>1, WriteIs
<1>5. WaitInv'
  BY <1>2, <1>3, <1>4, WaitKept DEF Steady
<1>6. SnapInv'
  BY <1>2, <1>4, SnapKept DEF SnapInv
<1>7. \A c \in Calls : WriteOf(c)'
  BY <1>2, <1>3, <1>4, WriteKept DEF WriteInv
<1> QED
  BY <1>2, <1>5, <1>6, <1>7 DEF WriteInv

LEMMA CallWritesKeeps ==
    ASSUME Distinct, EditInv, NEW c \in Calls, NEW f \in Files, CallWrites(c, f)
    PROVE  EditInv'
<1> USE DEF EditInv
<1> DEFINE t == Home[c]
<1>1. /\ t \in Trees /\ c \in Authors
      /\ Write(c, t, f) /\ call[c].pc = "running"
      /\ c \in DOMAIN snaps => ~Covered(now, snaps[c].wm, f)
  BY HomeAssumption DEF CallWrites, Distinct, Authors
<1> HIDE DEF t
<1>2. Types' /\ Grows
  BY <1>1, WriteIs
<1>3. UNCHANGED <<snaps, call, queue, job>>
  BY <1>1, WriteIs
<1>9. \A u \in Trees, g \in Files :
         unread'[u][g] = IF u = t /\ g = f THEN unread[u][g] \cup {c} ELSE unread[u][g]
  BY <1>1, WriteIs
<1>4. \A d \in Calls : d # c =>
         \A u \in Trees, g \in Files : Unread(d, u, g)' => Unread(d, u, g)
  BY <1>9 DEF Unread
<1>5. WaitInv'
  BY <1>1, <1>2, <1>3, <1>4, WaitKept DEF Steady
<1>6. SnapInv'
  BY <1>2, <1>3, SnapKept DEF SnapInv
<1>7. \A d \in Calls : d # c => WriteOf(d)'
  BY <1>2, <1>3, <1>4, WriteKept DEF WriteInv
<1>8. WriteOf(c)'
  <2> SUFFICES ASSUME NEW u \in Trees, NEW g \in Files, c \in unread'[u][g]
               PROVE  /\ u = Home[c]
                      /\ c \in DOMAIN snaps => Shows(snaps[c], g, mtime'[u][g], stat'[u][g])
    BY <1>1, <1>3 DEF WriteOf
  <2>1. CASE u = t /\ g = f
    <3>1. mtime'[u][g] = now /\ stat'[u][g] = stat[u][g] + 1 /\ stat[u][g] \in Nat
      BY <1>1, <2>1, WriteIs DEF Types
    <3>2. c \in DOMAIN snaps => snaps[c].entries[g] <= stat[u][g] /\ snaps[c].entries[g] \in Int
      BY <2>1 DEF t, SnapInv, Types, SnapSet
    <3> QED
      BY <1>1, <2>1, <3>1, <3>2 DEF Shows, t
  <2>2. CASE ~(u = t /\ g = f)
    <3>1. c \in unread[u][g]
      BY <1>9, <2>2
    <3>2. u = Home[c] /\ (c \in DOMAIN snaps => Shows(snaps[c], g, mtime[u][g], stat[u][g]))
      BY <1>1, <3>1 DEF WriteInv, WriteOf
    <3>3. c \in DOMAIN snaps => snaps[c] \in SnapSet
      BY DEF Types
    <3> QED
      BY <1>2, <3>2, <3>3, ShowsLater DEF Grows
  <2> QED
    BY <2>1, <2>2
<1> QED
  BY <1>2, <1>5, <1>6, <1>7, <1>8 DEF WriteInv

LEMMA TickKeeps ==
    ASSUME EditInv, Tick \/ UNCHANGED vars
    PROVE  EditInv'
<1> USE DEF EditInv
<1>1. /\ UNCHANGED <<mtime, stat, index, unread, perFile, perTree, snaps, call, queue, job>>
      /\ now' \in Nat /\ now <= now'
  BY DEF Tick, vars, fileVars, actorVars, hookVars, daemonVars, Types
<1>2. Types'
  BY <1>1 DEF Types
<1>3. WaitInv'
  BY <1>1 DEF WaitInv, Waits
<1> QED
  BY <1>1, <1>2, <1>3 DEF SnapInv, WriteInv, WriteOf

\* Reading and asking: what the steps of commits and hooks have in common.
LEMMA CommitIs ==
    ASSUME Types, NEW a \in Authors, NEW t \in Trees, Commit(a, t)
    PROVE  \E ps \in SUBSET Files :
              /\ \A f \in Files \ ps : unread[t][f] = {}
              /\ queue' = Append(queue, Request(t, "commit", FALSE, ps, a))
              /\ unread' = Read(t, ps)
              /\ index' \in [Trees -> Nat]
              /\ UNCHANGED <<now, mtime, stat, perFile, perTree, snaps, call, job, credited>>
<1>1. index' \in [Trees -> Nat]
  BY DEF Commit, Types
<1> QED
  BY <1>1 DEF Commit, actorVars, hookVars

LEMMA CommitKeeps ==
    ASSUME EditInv, NEW a \in Authors, NEW t \in Trees, Commit(a, t)
    PROVE  EditInv'
<1> USE DEF EditInv
<1>1. PICK ps \in SUBSET Files :
         /\ queue' = Append(queue, Request(t, "commit", FALSE, ps, a))
         /\ unread' = Read(t, ps)
         /\ index' \in [Trees -> Nat]
         /\ UNCHANGED <<now, mtime, stat, perFile, perTree, snaps, call, job>>
  BY CommitIs
<1>2. PICK r \in Requests : queue' = Append(queue, r) /\ ~r.live
  <2>1. Request(t, "commit", FALSE, ps, a) \in Requests
    BY RequestIs DEF Kinds
  <2> QED
    BY <1>1, <2>1, LiveIs
<1>3. Types'
  BY <1>1, <1>2, ReadIs, AppendedQueue DEF Types
<1>4. Grows
  BY <1>1, FilesStay
<1>5. \A c \in Calls, u \in Trees, g \in Files : Unread(c, u, g)' => Unread(c, u, g)
  BY <1>1, ReadIs DEF Unread
<1>6. WaitInv'
  BY <1>1, <1>2, <1>3, <1>5, WaitKept DEF Steady
<1>7. SnapInv'
  BY <1>1, <1>4, SnapKept DEF SnapInv
<1>8. \A c \in Calls : WriteOf(c)'
  BY <1>1, <1>4, <1>5, WriteKept DEF WriteInv
<1> QED
  BY <1>3, <1>6, <1>7, <1>8 DEF WriteInv

-----------------------------------------------------------------------------
(* The hook before a command.                                               *)

LEMMA QueryIs ==
    ASSUME Types, NEW c \in Calls, PreQuery(c)
    PROVE  /\ call[c].pc = "idle" /\ Quiet(Home[c])
           /\ Overlap \/ \A d \in Calls : Home[d] = Home[c] => ~InFlight(d)
           /\ call' \in [Calls -> CallSet]
           /\ call'[c].pc = "queried" /\ call'[c].snap = call[c].snap
           /\ call'[c].wm = WatermarksFor(Home[c]) \/ call'[c].wm = NoMarks
           /\ \A d \in Calls : d # c => call'[d] = call[d]
           /\ DOMAIN snaps' \subseteq DOMAIN snaps
           /\ \A d \in DOMAIN snaps' : snaps'[d] = snaps[d]
           /\ UNCHANGED <<now, mtime, stat, index, unread, perFile, perTree, queue, job, credited>>
<1> DEFINE t == Home[c]
           kept == {i \in DOMAIN snaps : snaps[i].tree = t => ~Expired(snaps[i])}
<1>1. PICK wm \in {WatermarksFor(t), NoMarks} : call' = [call EXCEPT ![c].pc = "queried", ![c].wm = wm]
  BY DEF PreQuery
<1>2. wm \in MarkSet
  BY HomeAssumption, WatermarksType, NoMarksType
<1>3. call[c] \in CallSet /\ "queried" \in Phases
  BY DEF Types, Phases
<1>4. PICK x \in CallSet : x = [call[c] EXCEPT !.pc = "queried", !.wm = wm]
  BY <1>2, <1>3 DEF CallSet
<1>5. x.pc = "queried" /\ x.wm = wm /\ x.snap = call[c].snap
  BY <1>3, <1>4 DEF CallSet
<1>6. call' = [call EXCEPT ![c] = x]
  BY <1>1, <1>4
<1>7. snaps' = [i \in kept |-> snaps[i]]
  BY DEF PreQuery
<1>8. DOMAIN snaps' \subseteq DOMAIN snaps /\ \A d \in DOMAIN snaps' : snaps'[d] = snaps[d]
  BY <1>7
<1>9. /\ call[c].pc = "idle" /\ Quiet(t)
      /\ Overlap \/ \A d \in Calls : Home[d] = t => ~InFlight(d)
      /\ UNCHANGED <<now, mtime, stat, index, unread, perFile, perTree, queue, job, credited>>
  BY DEF PreQuery, fileVars, actorVars, daemonVars
<1>10. /\ call' \in [Calls -> CallSet] /\ call'[c] = x
       /\ \A d \in Calls : d # c => call'[d] = call[d]
  BY <1>6 DEF Types
<1> QED
  BY <1>1, <1>5, <1>8, <1>9, <1>10

LEMMA QueryKeeps ==
    ASSUME EditInv, NEW c \in Calls, PreQuery(c)
    PROVE  EditInv'
<1> USE DEF EditInv
<1>1. Types'
  BY QueryIs DEF Types
<1>2. Grows
  BY QueryIs, FilesStay
<1>3. WaitInv'
  BY <1>1, QueryIs, WaitKept DEF Steady, Unread
<1>4. SnapInv'
  <2>1. c \notin DOMAIN snaps
    BY QueryIs DEF SnapInv
  <2> QED
    BY <1>2, <2>1, QueryIs, SnapKept DEF SnapInv
<1>5. \A d \in Calls : d # c => WriteOf(d)'
  BY <1>2, QueryIs, WriteKept DEF WriteInv, Unread
<1>6. WriteOf(c)'
  BY QueryIs DEF WriteInv, WriteOf
<1> QED
  BY <1>1, <1>3, <1>4, <1>5, <1>6 DEF WriteInv

\* A call captures the files ps with a checkpoint of kind k.
Captures(c, k, ps) ==
    /\ unread' = Read(Home[c], ps)
    /\ \E r \in Requests :
          /\ queue' = Append(queue, r) /\ ~r.live /\ r.kind = k /\ r.tree = Home[c] /\ r.paths = ps
          /\ \A f \in Files : r.text[f] = IF f \in ps THEN unread[Home[c]][f] ELSE {}

\* A call asks for a live checkpoint of kind k.
Asks(c, k) ==
    /\ UNCHANGED unread
    /\ \E r \in Requests :
          /\ queue' = Append(queue, r) /\ r.live /\ r.kind = k /\ r.by = c /\ r.tree = Home[c]
          /\ r.paths = {} /\ \A f \in Files : r.text[f] = {}

LEMMA CaptureRequest ==
    ASSUME Types, NEW c \in Calls, NEW k \in {"human", "ai"}, NEW ps \in SUBSET Files,
           queue' = Append(queue, Request(Home[c], k, FALSE, ps, c)), unread' = Read(Home[c], ps)
    PROVE  Captures(c, k, ps)
<1>1. PICK t \in Trees : t = Home[c]
  BY HomeAssumption
<1>2. c \in Authors
  BY DEF Authors
<1>3. PICK r : r = Request(t, k, FALSE, ps, c)
  OBVIOUS
<1>4. r.live = FALSE /\ r.kind = k /\ r.tree = t /\ r.paths = ps /\ r.by = c
  BY <1>3 DEF Request
<1>5. \A f \in Files : r.text[f] = IF f \in ps THEN unread[t][f] ELSE {}
  BY <1>3 DEF Request
<1>6. r \in Requests
  <2>1. UnreadOf(t, ps) \in [Files -> SUBSET Authors]
    BY DEF Types, UnreadOf
  <2> QED
    BY <1>2, <1>3, <2>1 DEF Request, Requests, UnreadOf
<1> QED
  BY <1>1, <1>3, <1>4, <1>5, <1>6 DEF Captures

LEMMA AskRequest ==
    ASSUME Types, NEW c \in Calls, NEW k \in {"human", "ai"},
           queue' = Append(queue, Request(Home[c], k, TRUE, {}, c)), UNCHANGED unread
    PROVE  Asks(c, k)
<1>1. PICK t \in Trees : t = Home[c]
  BY HomeAssumption
<1>2. c \in Authors
  BY DEF Authors
<1>3. PICK r : r = Request(t, k, TRUE, {}, c)
  OBVIOUS
<1>4. r.live = TRUE /\ r.kind = k /\ r.tree = t /\ r.paths = {} /\ r.by = c
  BY <1>3 DEF Request
<1>5. \A f \in Files : r.text[f] = IF f \in {} THEN unread[t][f] ELSE {}
  BY <1>3 DEF Request
<1>6. r \in Requests
  <2>1. UnreadOf(t, {}) \in [Files -> SUBSET Authors]
    BY DEF Types, UnreadOf
  <2> QED
    BY <1>2, <1>3, <2>1 DEF Request, Requests, UnreadOf
<1> QED
  BY <1>1, <1>3, <1>4, <1>5, <1>6 DEF Asks

LEMMA PreSnapshotIs ==
    ASSUME Types, NEW c \in Calls, PreSnapshot(c)
    PROVE  /\ call[c].pc = "queried"
           /\ \E s \in SnapSet :
                 /\ s.tree = Home[c] /\ s.wm = call[c].wm /\ s.entries = Entries(Home[c], call[c].wm)
                 /\ DOMAIN snaps' \subseteq DOMAIN snaps \cup {c}
                 /\ \A d \in DOMAIN snaps' : IF d = c /\ c \notin DOMAIN snaps THEN snaps'[d] = s
                                             ELSE snaps'[d] = snaps[d] \/ (d = c /\ snaps'[d] = s)
                 /\ \/ StaleFiles(s) # {} /\ Goes(c, "running")
                       /\ Captures(c, "human", StaleFiles(s))
                    \/ Goes(c, "pre") /\ Asks(c, "human")
           /\ UNCHANGED <<now, mtime, stat, index, perFile, perTree, job, credited>>
<1> DEFINE t == Home[c]
           s == [tree |-> t, entries |-> Entries(t, call[c].wm), wm |-> call[c].wm, at |-> now]
<1>1. /\ t \in Trees /\ call[c].wm \in MarkSet /\ now \in Nat
      /\ "running" \in Phases /\ "pre" \in Phases
  BY HomeAssumption DEF Types, CallSet, Phases
<1>2. s \in SnapSet /\ s.tree = t /\ s.wm = call[c].wm /\ s.entries = Entries(t, call[c].wm)
  BY <1>1, EntriesIs DEF SnapSet
<1>3. /\ call[c].pc = "queried" /\ snaps' \in {snaps, Saved(c, s)}
      /\ (StaleFiles(s) # {} /\ CaptureHuman(c, StaleFiles(s))) \/ AskHuman(c)
      /\ UNCHANGED <<now, mtime, stat, index, perFile, perTree, job, credited>>
  BY DEF PreSnapshot, actorVars
<1> HIDE DEF s
<1>4. /\ DOMAIN snaps' \subseteq DOMAIN snaps \cup {c}
      /\ \A d \in DOMAIN snaps' : IF d = c /\ c \notin DOMAIN snaps THEN snaps'[d] = s
                                  ELSE snaps'[d] = snaps[d] \/ (d = c /\ snaps'[d] = s)
  BY <1>3 DEF Saved
<1>5. StaleFiles(s) \in SUBSET Files
  BY DEF StaleFiles
<1>6. CASE StaleFiles(s) # {} /\ CaptureHuman(c, StaleFiles(s))
  <2>1. Goes(c, "running")
    BY <1>1, <1>6, PhaseIs DEF CaptureHuman
  <2>2. Captures(c, "human", StaleFiles(s))
    BY <1>5, <1>6, CaptureRequest DEF CaptureHuman
  <2> QED
    BY <1>2, <1>3, <1>4, <1>6, <2>1, <2>2
<1>7. CASE AskHuman(c)
  <2>1. Goes(c, "pre")
    BY <1>1, <1>7, PhaseIs DEF AskHuman
  <2>2. Asks(c, "human")
    BY <1>7, AskRequest DEF AskHuman
  <2> QED
    BY <1>2, <1>3, <1>4, <2>1, <2>2
<1> QED
  BY <1>3, <1>6, <1>7

LEMMA CapturesReads ==
    ASSUME Types, NEW c \in Calls, NEW k, NEW ps \in SUBSET Files, Captures(c, k, ps)
    PROVE  /\ queue' \in Seq(Requests) /\ unread' \in [Trees -> [Files -> SUBSET Authors]]
           /\ \A d \in Calls, u \in Trees, g \in Files : Unread(d, u, g)' => Unread(d, u, g)
           /\ \A f \in ps : unread'[Home[c]][f] = {}
<1>1. PICK t \in Trees : t = Home[c]
  BY HomeAssumption
<1>2. queue' \in Seq(Requests)
  BY AppendedQueue DEF Captures
<1>3. unread' = Read(t, ps)
  BY <1>1 DEF Captures
<1>4. /\ unread' \in [Trees -> [Files -> SUBSET Authors]]
      /\ \A f \in Files : unread'[t][f] = IF f \in ps THEN {} ELSE unread[t][f]
      /\ \A u \in Trees, f \in Files : unread'[u][f] \subseteq unread[u][f]
  BY <1>3, ReadIs
<1> QED
  BY <1>1, <1>2, <1>4 DEF Unread

LEMMA PreSnapshotKeeps ==
    ASSUME EditInv, NEW c \in Calls, PreSnapshot(c)
    PROVE  EditInv'
<1> USE DEF EditInv
<1>1. PICK s \in SnapSet :
         /\ s.tree = Home[c] /\ s.wm = call[c].wm /\ s.entries = Entries(Home[c], call[c].wm)
         /\ DOMAIN snaps' \subseteq DOMAIN snaps \cup {c}
         /\ \A d \in DOMAIN snaps' : IF d = c /\ c \notin DOMAIN snaps THEN snaps'[d] = s
                                     ELSE snaps'[d] = snaps[d] \/ (d = c /\ snaps'[d] = s)
         /\ \/ StaleFiles(s) # {} /\ Goes(c, "running")
               /\ Captures(c, "human", StaleFiles(s))
            \/ Goes(c, "pre") /\ Asks(c, "human")
  BY PreSnapshotIs
<1>2. /\ call[c].pc = "queried"
      /\ UNCHANGED <<now, mtime, stat, index, perFile, perTree, job, credited>>
  BY PreSnapshotIs
<1>3. c \notin DOMAIN snaps
  BY <1>2 DEF SnapInv
<1>4. /\ call' \in [Calls -> CallSet] /\ call'[c].pc \in {"pre", "running"}
      /\ call'[c].wm = call[c].wm /\ call'[c].snap = call[c].snap
      /\ \A d \in Calls : d # c => call'[d] = call[d]
  BY <1>1 DEF Goes
<1>5. StaleFiles(s) \in SUBSET Files
  BY DEF StaleFiles
<1>6. /\ queue' \in Seq(Requests) /\ unread' \in [Trees -> [Files -> SUBSET Authors]]
      /\ \A d \in Calls, u \in Trees, g \in Files : Unread(d, u, g)' => Unread(d, u, g)
  <2>1. CASE Captures(c, "human", StaleFiles(s))
    BY <1>5, <2>1, CapturesReads
  <2>2. CASE Asks(c, "human")
    <3>1. queue' \in Seq(Requests)
      BY <2>2, AppendedQueue DEF Asks
    <3> QED
      BY <2>2, <3>1 DEF Asks, Types, Unread
  <2> QED
    BY <1>1, <2>1, <2>2
<1>7. DOMAIN snaps' \subseteq Calls /\ \A d \in DOMAIN snaps' : snaps'[d] \in SnapSet
  BY <1>1, <1>3 DEF Types
<1>8. Types'
  BY <1>2, <1>4, <1>6, <1>7 DEF Types
<1>9. Grows
  BY <1>2, FilesStay
<1>10. WaitInv'
  <2>1. CASE Captures(c, "human", StaleFiles(s))
    <3>1. \E r \in Requests : queue' = Append(queue, r) /\ ~r.live
      BY <2>1 DEF Captures
    <3> QED
      BY <1>2, <1>4, <1>6, <1>8, <3>1, WaitKept DEF Steady
  <2>2. CASE Goes(c, "pre") /\ Asks(c, "human")
    <3>1. PICK r \in Requests :
             /\ queue' = Append(queue, r) /\ r.kind = "human" /\ r.by = c /\ r.tree = Home[c]
             /\ r.paths = {} /\ \A f \in Files : r.text[f] = {}
      BY <2>2 DEF Asks
    <3>2. Waits(r)'
      BY <2>2, <3>1 DEF Waits, Goes
    <3>3. UNCHANGED unread /\ "pre" \in Phases
      BY <2>2 DEF Asks, Phases
    <3> QED
      BY <1>2, <1>8, <2>2, <3>1, <3>2, <3>3, WaitAsked
  <2> QED
    BY <1>1, <2>1, <2>2
<1>11. SnapInv'
  <2>1. \A f \in Files : s.entries[f] <= stat[Home[c]][f]
    <3>1. PICK t \in Trees : t = Home[c]
      BY HomeAssumption
    <3>2. call[c].wm \in MarkSet
      BY DEF Types, CallSet
    <3> QED
      BY <1>1, <3>1, <3>2, EntriesIs
  <2>2. \A d \in Calls : d # c /\ d \in DOMAIN snaps' => d \in DOMAIN snaps /\ snaps'[d] = snaps[d]
    BY <1>1
  <2>3. c \in DOMAIN snaps' => snaps'[c] = s
    BY <1>1, <1>3
  <2> QED
    BY <1>1, <1>2, <1>4, <2>1, <2>2, <2>3 DEF SnapInv
<1>12. \A d \in Calls : d # c => WriteOf(d)'
  <2> SUFFICES ASSUME NEW d \in Calls, d # c PROVE WriteOf(d)'
    OBVIOUS
  <2>1. d \in DOMAIN snaps' => d \in DOMAIN snaps /\ snaps'[d] = snaps[d]
    BY <1>1
  <2> QED
    BY <1>4, <1>6, <1>9, <2>1, WriteKept DEF WriteInv
<1>13. WriteOf(c)'
  BY <1>2, <1>6 DEF WriteInv, WriteOf, Unread
<1> QED
  BY <1>8, <1>10, <1>11, <1>12, <1>13 DEF WriteInv

-----------------------------------------------------------------------------
(* The hook after a command.                                                *)

LEMMA LoadIs ==
    ASSUME Distinct, Types, NEW c \in Calls, PostLoad(c)
    PROVE  /\ call[c].pc = "running" /\ Quiet(Home[c])
           /\ call' \in [Calls -> CallSet]
           /\ call'[c].pc = "loaded" /\ call'[c].wm = call[c].wm
           /\ IF c \in DOMAIN snaps THEN call'[c].snap = <<snaps[c]>> ELSE call'[c].snap = <<>>
           /\ \A d \in Calls : d # c => call'[d] = call[d]
           /\ DOMAIN snaps' = DOMAIN snaps \ {c}
           /\ \A d \in DOMAIN snaps' : snaps'[d] = snaps[d]
           /\ UNCHANGED <<now, mtime, stat, index, unread, perFile, perTree, queue, job, credited>>
<1>1. SnapshotId(c) = c
  BY DEF SnapshotId, Distinct
<1>2. /\ call[c].pc = "running" /\ Quiet(Home[c])
      /\ snaps' = [i \in DOMAIN snaps \ {c} |-> snaps[i]]
      /\ UNCHANGED <<now, mtime, stat, index, unread, perFile, perTree, queue, job, credited>>
  BY <1>1 DEF PostLoad, fileVars, actorVars, daemonVars
<1>3. call[c] \in CallSet /\ "loaded" \in Phases /\ c \in Ids \cup {None} /\ None \in Ids \cup {None}
  BY DEF Types, Phases, Ids
<1>4. PICK sn : sn = IF c \in DOMAIN snaps THEN <<snaps[c]>> ELSE <<>>
  OBVIOUS
<1>5. sn \in Seq(SnapSet)
  BY <1>4 DEF Types
<1>6. PICK u \in Ids \cup {None} : u = IF c \in DOMAIN snaps THEN c ELSE None
  BY <1>3
<1>7. call' = [call EXCEPT ![c].pc = "loaded", ![c].used = u, ![c].snap = sn]
  BY <1>1, <1>4, <1>6 DEF PostLoad
<1>8. PICK x \in CallSet : x = [call[c] EXCEPT !.pc = "loaded", !.used = u, !.snap = sn]
  BY <1>3, <1>5 DEF CallSet
<1>9. x.pc = "loaded" /\ x.wm = call[c].wm /\ x.snap = sn
  BY <1>3, <1>8 DEF CallSet
<1>10. call' = [call EXCEPT ![c] = x]
  BY <1>7, <1>8
<1>11. /\ call' \in [Calls -> CallSet] /\ call'[c] = x
       /\ \A d \in Calls : d # c => call'[d] = call[d]
  BY <1>10 DEF Types
<1> QED
  BY <1>2, <1>4, <1>9, <1>11

LEMMA LoadKeeps ==
    ASSUME Distinct, EditInv, NEW c \in Calls, PostLoad(c)
    PROVE  EditInv'
<1> USE DEF EditInv
<1>1. /\ call[c].pc = "running" /\ call' \in [Calls -> CallSet] /\ call'[c].pc = "loaded"
      /\ \A d \in Calls : d # c => call'[d] = call[d]
      /\ DOMAIN snaps' = DOMAIN snaps \ {c} /\ \A d \in DOMAIN snaps' : snaps'[d] = snaps[d]
      /\ UNCHANGED <<now, mtime, stat, index, unread, perFile, perTree, queue, job>>
  BY LoadIs
<1>2. DOMAIN snaps' \subseteq Calls /\ \A d \in DOMAIN snaps' : snaps'[d] \in SnapSet
  BY <1>1 DEF Types
<1>3. Types'
  BY <1>1, <1>2 DEF Types
<1>4. Grows
  BY <1>1, FilesStay
<1>5. WaitInv'
  BY <1>1, <1>3, WaitKept DEF Steady, Unread
<1>6. call'[c].snap # <<>> => c \in DOMAIN snaps /\ call'[c].snap[1] = snaps[c]
  <2>1. IF c \in DOMAIN snaps THEN call'[c].snap = <<snaps[c]>> ELSE call'[c].snap = <<>>
    BY LoadIs
  <2> QED
    BY <2>1
<1>7. SnapInv'
  <2> SUFFICES ASSUME NEW d \in Calls
               PROVE  /\ d \in DOMAIN snaps' =>
                            /\ call'[d].pc \in {"pre", "running", "stopped"}
                            /\ snaps'[d].tree = Home[d]
                            /\ \A f \in Files : snaps'[d].entries[f] <= stat'[Home[d]][f]
                      /\ call'[d].snap # <<>> =>
                            \A f \in Files : call'[d].snap[1].entries[f] <= stat'[Home[d]][f]
    BY DEF SnapInv
  <2>1. CASE d = c
    BY <1>1, <1>6, <2>1 DEF SnapInv
  <2>2. CASE d # c
    BY <1>1, <2>2 DEF SnapInv
  <2> QED
    BY <2>1, <2>2
<1>8. \A d \in Calls : d # c => WriteOf(d)'
  BY <1>1, <1>4, WriteKept DEF WriteInv, Unread
<1>9. WriteOf(c)'
  BY <1>1, <1>6 DEF WriteInv, WriteOf
<1> QED
  BY <1>3, <1>5, <1>7, <1>8, <1>9 DEF WriteInv

\* What the second hook finds changed.
ChangedOf(c) ==
    IF call[c].snap = <<>> THEN {}
    ELSE Changed(call[c].snap[1].entries, Entries(Home[c], call[c].snap[1].wm))

LEMMA PostSnapshotIs ==
    ASSUME Types, NEW c \in Calls, PostSnapshot(c)
    PROVE  /\ call[c].pc = "loaded"
           /\ \/ ChangedOf(c) # {} /\ Ends(c) /\ Captures(c, "ai", ChangedOf(c))
              \/ Goes(c, "post") /\ Asks(c, "ai")
           /\ UNCHANGED <<now, mtime, stat, index, perFile, perTree, snaps, job, credited>>
<1>1. /\ call[c].pc = "loaded"
      /\ (ChangedOf(c) # {} /\ CaptureAi(c, ChangedOf(c))) \/ AskAi(c)
      /\ UNCHANGED <<now, mtime, stat, index, perFile, perTree, snaps, job, credited>>
  BY DEF PostSnapshot, ChangedOf, actorVars
<1>2. ChangedOf(c) \in SUBSET Files
  BY DEF ChangedOf, Changed
<1>3. CASE ChangedOf(c) # {} /\ CaptureAi(c, ChangedOf(c))
  <2>1. call' = [call EXCEPT ![c].pc = "done", ![c].snap = <<>>, ![c].wm = NoMarks]
    BY <1>3 DEF CaptureAi
  <2>2. PICK x \in CallSet : x = [call[c] EXCEPT !.pc = "done", !.snap = <<>>, !.wm = NoMarks]
    BY EndType
  <2>3. call' = [call EXCEPT ![c] = x]
    BY <2>1, <2>2
  <2>4. Ends(c)
    BY <2>2, <2>3, EndIs
  <2>5. Captures(c, "ai", ChangedOf(c))
    BY <1>2, <1>3, CaptureRequest DEF CaptureAi
  <2> QED
    BY <1>1, <1>3, <2>4, <2>5
<1>4. CASE AskAi(c)
  <2>1. Goes(c, "post")
    BY <1>4, PhaseIs DEF AskAi, Phases
  <2>2. Asks(c, "ai")
    BY <1>4, AskRequest DEF AskAi
  <2> QED
    BY <1>1, <2>1, <2>2
<1> QED
  BY <1>1, <1>3, <1>4

\* The comparison misses nothing that the snapshot shows.
LEMMA ShownIsChanged ==
    ASSUME Types, NEW c \in Calls, NEW f \in Files, call[c].snap # <<>>,
           Shows(call[c].snap[1], f, mtime[Home[c]][f], stat[Home[c]][f])
    PROVE  f \in ChangedOf(c)
<1>1. PICK t \in Trees : t = Home[c]
  BY HomeAssumption
<1>2. call[c].snap \in Seq(SnapSet)
  BY DEF Types, CallSet
<1>3. PICK s \in SnapSet : s = call[c].snap[1]
  BY <1>2
<1>4. s.wm \in MarkSet /\ s.entries[f] \in Int
  BY DEF SnapSet
<1>5. PICK wm \in MarkSet : wm = s.wm
  BY <1>4
<1>6. Entries(t, wm)[f] = stat[t][f] /\ stat[t][f] \in Nat /\ s.entries[f] < stat[t][f]
  BY <1>1, <1>3, <1>5, EntriesIs DEF Shows, Types
<1> QED
  BY <1>1, <1>3, <1>4, <1>5, <1>6 DEF ChangedOf, Changed, NoTime

LEMMA PostSnapshotKeeps ==
    ASSUME EditInv, NEW c \in Calls, PostSnapshot(c)
    PROVE  EditInv'
<1> USE DEF EditInv
<1>1. /\ call[c].pc = "loaded"
      /\ \/ ChangedOf(c) # {} /\ Ends(c) /\ Captures(c, "ai", ChangedOf(c))
         \/ Goes(c, "post") /\ Asks(c, "ai")
      /\ UNCHANGED <<now, mtime, stat, index, perFile, perTree, snaps, job, credited>>
  BY PostSnapshotIs
<1>2. ChangedOf(c) \in SUBSET Files
  BY DEF ChangedOf, Changed
<1>3. /\ call' \in [Calls -> CallSet] /\ call'[c].pc \in {"done", "post"}
      /\ call'[c].snap # <<>> => call'[c].snap = call[c].snap
      /\ \A d \in Calls : d # c => call'[d] = call[d]
  BY <1>1 DEF Goes, Ends
<1>4. /\ queue' \in Seq(Requests) /\ unread' \in [Trees -> [Files -> SUBSET Authors]]
      /\ \A d \in Calls, u \in Trees, g \in Files : Unread(d, u, g)' => Unread(d, u, g)
  <2>1. CASE Captures(c, "ai", ChangedOf(c))
    BY <1>2, <2>1, CapturesReads
  <2>2. CASE Asks(c, "ai")
    <3>1. queue' \in Seq(Requests)
      BY <2>2, AppendedQueue DEF Asks
    <3> QED
      BY <2>2, <3>1 DEF Asks, Types, Unread
  <2> QED
    BY <1>1, <2>1, <2>2
<1>5. Types'
  BY <1>1, <1>3, <1>4 DEF Types
<1>6. Grows
  BY <1>1, FilesStay
<1>7. c \notin DOMAIN snaps
  BY <1>1 DEF SnapInv
<1>8. WaitInv'
  <2>1. CASE Captures(c, "ai", ChangedOf(c))
    <3>1. \E r \in Requests : queue' = Append(queue, r) /\ ~r.live
      BY <2>1 DEF Captures
    <3> QED
      BY <1>1, <1>3, <1>4, <1>5, <3>1, WaitKept DEF Steady
  <2>2. CASE Goes(c, "post") /\ Asks(c, "ai")
    <3>1. PICK r \in Requests :
             /\ queue' = Append(queue, r) /\ r.kind = "ai" /\ r.by = c /\ r.tree = Home[c]
             /\ r.paths = {} /\ \A f \in Files : r.text[f] = {}
      BY <2>2 DEF Asks
    <3>2. Waits(r)'
      BY <2>2, <3>1 DEF Waits, Goes
    <3>3. UNCHANGED unread /\ "post" \in Phases
      BY <2>2 DEF Asks, Phases
    <3> QED
      BY <1>1, <1>5, <2>2, <3>1, <3>2, <3>3, WaitAsked
  <2> QED
    BY <1>1, <2>1, <2>2
<1>9. SnapInv'
  BY <1>1, <1>3, <1>6, <1>7, SnapKept DEF SnapInv
<1>10. \A d \in Calls : d # c => WriteOf(d)'
  BY <1>1, <1>3, <1>4, <1>6, WriteKept DEF WriteInv
<1>11. WriteOf(c)'
  <2>1. CASE Goes(c, "post")
    BY <1>4, <1>6, <2>1, WriteKept DEF WriteInv, Goes
  <2>2. CASE Ends(c) /\ ChangedOf(c) # {} /\ Captures(c, "ai", ChangedOf(c))
    <3> SUFFICES ASSUME NEW t \in Trees, NEW f \in Files, Unread(c, t, f)' PROVE FALSE
      BY DEF WriteOf, Unread
    <3>1. Unread(c, t, f)
      BY <1>4
    <3>2. t = Home[c] /\ (call[c].snap # <<>> => Shows(call[c].snap[1], f, mtime[t][f], stat[t][f]))
      BY <1>1, <3>1 DEF WriteInv, WriteOf, Unread
    <3>3. call[c].snap # <<>>
      BY <2>2 DEF ChangedOf
    <3>4. f \in ChangedOf(c)
      BY <3>2, <3>3, ShownIsChanged
    <3>5. \A g \in ChangedOf(c) : unread'[Home[c]][g] = {}
      BY <1>2, <2>2, CapturesReads
    <3> QED
      BY <3>2, <3>4, <3>5 DEF Unread
  <2> QED
    BY <1>1, <2>1, <2>2
<1> QED
  BY <1>5, <1>8, <1>9, <1>10, <1>11 DEF WriteInv

LEMMA AbortKeeps ==
    ASSUME EditInv, NEW c \in Calls, Abort(c)
    PROVE  EditInv'
<1> USE DEF EditInv
<1>1. /\ call[c].pc = "running" /\ Goes(c, "stopped")
      /\ UNCHANGED <<now, mtime, stat, index, unread, perFile, perTree, snaps, queue, job>>
  BY PhaseIs DEF Abort, Phases, fileVars, actorVars, daemonVars
<1>2. Types'
  BY <1>1 DEF Types, Goes
<1>3. Grows
  BY <1>1, FilesStay
<1>4. WaitInv'
  BY <1>1, <1>2, WaitKept DEF Steady, Unread, Goes
<1>5. SnapInv'
  BY <1>1 DEF SnapInv, Goes
<1>6. \A d \in Calls : WriteOf(d)'
  BY <1>1, <1>3, WriteKept DEF WriteInv, Unread, Goes
<1> QED
  BY <1>2, <1>4, <1>5, <1>6 DEF WriteInv

-----------------------------------------------------------------------------
(* The daemon.                                                              *)

LEMMA ApplyIs ==
    ASSUME Types, WaitInv, Apply
    PROVE  \E r \in Requests :
              /\ queue # <<>> /\ job = <<>> /\ r = queue[1]
              /\ queue' = Tail(queue)
              /\ IF r.kind = "commit" THEN job' = <<>> ELSE job' = <<r>>
              /\ IF r.live THEN unread' = Read(r.tree, Files) ELSE unread' = unread
              /\ credited' = credited \cup {<<a, Kind(r)>> : a \in UNION {TextOf(r)[f] : f \in Files}}
              /\ UNCHANGED <<now, mtime, stat, index, perFile, perTree, snaps, call>>
<1>1. queue # <<>> /\ queue[1] \in Requests
  BY DEF Apply, Types
<1>2. PICK r \in Requests : r = queue[1]
  BY <1>1
<1>3. r.live => FilesOf(r) = Files
  BY DEF FilesOf
<1>4. /\ queue # <<>> /\ job = <<>>
      /\ queue' = Tail(queue)
      /\ IF r.kind = "commit" THEN job' = <<>> ELSE job' = <<r>>
      /\ unread' = IF r.live THEN Read(r.tree, FilesOf(r)) ELSE unread
      /\ credited' = credited \cup {<<a, Kind(r)>> : a \in UNION {TextOf(r)[f] : f \in Files}}
      /\ UNCHANGED <<now, mtime, stat, index, perFile, perTree, snaps, call>>
  BY <1>2 DEF Apply, actorVars, hookVars
<1> QED
  BY <1>2, <1>3, <1>4

LEMMA ApplyKeeps ==
    ASSUME EditInv, Apply
    PROVE  EditInv'
<1> USE DEF EditInv
<1>1. PICK r \in Requests :
         /\ queue # <<>> /\ job = <<>> /\ r = queue[1]
         /\ queue' = Tail(queue)
         /\ IF r.kind = "commit" THEN job' = <<>> ELSE job' = <<r>>
         /\ IF r.live THEN unread' = Read(r.tree, Files) ELSE unread' = unread
         /\ UNCHANGED <<now, mtime, stat, index, perFile, perTree, snaps, call>>
  BY ApplyIs
<1>2. PICK t \in Trees : t = r.tree
  BY DEF Requests
<1>3. /\ unread' \in [Trees -> [Files -> SUBSET Authors]]
      /\ \A d \in Calls, u \in Trees, g \in Files : Unread(d, u, g)' => Unread(d, u, g)
      /\ r.live => \A f \in Files : unread'[t][f] = {}
  <2>1. CASE r.live
    <3>1. unread' = Read(t, Files) /\ Files \in SUBSET Files
      BY <1>1, <1>2, <2>1
    <3> QED
      BY <3>1, ReadIs DEF Unread
  <2>2. CASE ~r.live
    BY <1>1, <2>2 DEF Unread, Types
  <2> QED
    BY <2>1, <2>2
<1>4. /\ queue' \in Seq(Requests) /\ 1 \in 1..Len(queue)
      /\ \A i \in 1..Len(queue') : i + 1 \in 1..Len(queue) /\ queue'[i] = queue[i + 1]
  BY <1>1, PoppedQueue
<1>5. job' \in Seq(Requests) /\ (job' # <<>> => job'[1] = r)
  <2>1. \A x \in Requests : <<x>> \in Seq(Requests) /\ <<x>>[1] = x
    OBVIOUS
  <2>2. <<>> \in Seq(Requests)
    OBVIOUS
  <2>3. CASE r.kind = "commit"
    BY <1>1, <2>2, <2>3
  <2>4. CASE r.kind # "commit"
    <3>1. job' = <<r>>
      BY <1>1, <2>4
    <3> QED
      BY <2>1, <3>1
  <2> QED
    BY <2>3, <2>4
<1>6. Types'
  BY <1>1, <1>3, <1>4, <1>5 DEF Types
<1>7. Grows
  BY <1>1, FilesStay
<1>8. WaitInv'
  <2>1. \A x \in Requests : Waits(x) => Waits(x)'
    BY <1>1 DEF Waits
  <2>2. \A i \in 1..Len(queue') : queue'[i] \in Requests
    BY <1>4
  <2>3. \A i \in 1..Len(queue') : queue'[i].live => Waits(queue[i])'
    BY <1>1, <1>4 DEF WaitInv, Waits
  <2>4. \A i, j \in 1..Len(queue') :
           queue'[i].live /\ queue'[j].live /\ queue'[i].by = queue'[j].by => i = j
    <3> SUFFICES ASSUME NEW i \in 1..Len(queue'), NEW j \in 1..Len(queue'),
                        queue'[i].live, queue'[j].live, queue'[i].by = queue'[j].by
                 PROVE  i = j
      OBVIOUS
    <3>1. PICK m \in 1..Len(queue) : m = i + 1 /\ queue[m] = queue'[i]
      BY <1>4
    <3>2. PICK n \in 1..Len(queue) : n = j + 1 /\ queue[n] = queue'[j]
      BY <1>4
    <3>3. m = n
      BY <3>1, <3>2 DEF WaitInv
    <3> QED
      BY <3>1, <3>2, <3>3
  <2>5. ASSUME job' # <<>>, job'[1].live
        PROVE  /\ Waits(job[1])'
               /\ \A i \in 1..Len(queue') : queue'[i].live => queue'[i].by # job'[1].by
               /\ \A f \in Files : job'[1].by \notin unread'[job'[1].tree][f]
    <3>1. job'[1] = r /\ r.live
      BY <1>5, <2>5
    <3>2. Waits(r)
      BY <1>1, <1>4, <3>1 DEF WaitInv
    <3>3. Waits(job[1])'
      BY <2>1, <3>1, <3>2 DEF Waits
    <3>4. \A i \in 1..Len(queue') : queue'[i].live => queue'[i].by # r.by
      <4> SUFFICES ASSUME NEW i \in 1..Len(queue'), queue'[i].live, queue'[i].by = r.by
                   PROVE  FALSE
        OBVIOUS
      <4>1. i + 1 = 1
        BY <1>1, <1>4, <3>1 DEF WaitInv
      <4> QED
        BY <4>1
    <3>5. \A f \in Files : r.by \notin unread'[r.tree][f]
      BY <1>2, <1>3, <3>1
    <3> QED
      BY <3>1, <3>3, <3>4, <3>5
  <2> QED
    BY <2>3, <2>4, <2>5 DEF WaitInv
<1>9. SnapInv'
  BY <1>1 DEF SnapInv
<1>10. \A d \in Calls : WriteOf(d)'
  BY <1>1, <1>3, <1>7, WriteKept DEF WriteInv
<1> QED
  BY <1>6, <1>8, <1>9, <1>10 DEF WriteInv

LEMMA MarksKeep ==
    ASSUME Types, NEW r \in Requests, UpdateWatermarks(r)
    PROVE  /\ perFile' \in [Files -> Int] /\ perTree' \in [Trees -> Int]
           /\ \A f \in Files : NoTime <= perFile'[f]
<1> DEFINE marks == MarkFiles(StatMarks(r))
<1>1. r.tree \in Trees
  BY DEF Requests
<1>2. StatMarks(r) \in [Files -> Int]
  BY <1>1 DEF StatMarks, NoTime, Types
<1>3. PICK st \in [Files -> Int] : st = StatMarks(r)
  BY <1>2
<1>4. MarkFiles(st) \in [Files -> Int] /\ \A f \in Files : NoTime <= MarkFiles(st)[f]
  BY DEF MarkFiles, Types, NoTime
<1>5. PICK m \in [Files -> Int] : m = marks /\ \A f \in Files : NoTime <= m[f]
  BY <1>3, <1>4
<1>6. Prune(m, now) \in [Files -> Int] /\ \A f \in Files : NoTime <= Prune(m, now)[f]
  BY <1>5 DEF Prune, NoTime
<1>7. /\ perFile' = m \/ perFile' = Prune(m, now)
      /\ perTree' = [perTree EXCEPT ![r.tree] = now] \/ UNCHANGED perTree
  BY <1>5 DEF UpdateWatermarks
<1>8. perTree' \in [Trees -> Int]
  BY <1>7 DEF Types
<1> QED
  BY <1>5, <1>6, <1>7, <1>8

\* The call that waits for the checkpoint goes on, and no other.
LEMMA AnsweredIs ==
    ASSUME Types, WaitInv, job # <<>>, call' = Answered(job[1])
    PROVE  \/ job[1].live /\ job[1].kind = "human" /\ job[1].by \in Calls /\ Goes(job[1].by, "running")
              /\ call[job[1].by].pc = "pre"
           \/ job[1].live /\ job[1].kind = "ai" /\ job[1].by \in Calls /\ Ends(job[1].by)
              /\ call[job[1].by].pc = "post"
           \/ ~job[1].live /\ \A d \in Calls : call'[d] = call[d]
<1>1. PICK r \in Requests : r = job[1] /\ call' = Answered(r) /\ (r.live => Waits(r))
  BY DEF Types, WaitInv
<1>2. CASE ~r.live
  <2>1. \A d \in Calls : call'[d] = call[d]
    BY <1>1, <1>2 DEF Answered
  <2> QED
    BY <1>1, <1>2, <2>1
<1>3. CASE r.live /\ r.kind = "human"
  <2>1. PICK c \in Calls : c = r.by /\ call[c].pc = "pre"
    BY <1>1, <1>3 DEF Waits
  <2>2. PICK x \in CallSet : x = [call[c] EXCEPT !.pc = "running"]
    BY DEF Types, CallSet, Phases
  <2>3. call' = [call EXCEPT ![c] = x]
    <3>1. DOMAIN call' = Calls /\ call'[c] = x /\ \A d \in Calls : d # c => call'[d] = call[d]
      BY <1>1, <1>3, <2>1, <2>2 DEF Answered
    <3>2. call \in [Calls -> CallSet]
      BY DEF Types
    <3>3. call' = [d \in Calls |-> call'[d]]
      BY <1>1 DEF Answered
    <3> QED
      BY <3>1, <3>2, <3>3
  <2>4. x.pc = "running" /\ x.wm = call[c].wm /\ x.snap = call[c].snap
    BY <2>2 DEF Types, CallSet
  <2>5. Goes(c, "running")
    BY <2>3, <2>4 DEF Goes, Types
  <2> QED
    BY <1>1, <1>3, <2>1, <2>5
<1>4. CASE r.live /\ r.kind = "ai"
  <2>1. PICK c \in Calls : c = r.by /\ call[c].pc = "post"
    BY <1>1, <1>4 DEF Waits
  <2>2. PICK x \in CallSet : x = [call[c] EXCEPT !.pc = "done", !.snap = <<>>, !.wm = NoMarks]
    BY EndType
  <2>3. call' = [call EXCEPT ![c] = x]
    <3>1. DOMAIN call' = Calls /\ call'[c] = x /\ \A d \in Calls : d # c => call'[d] = call[d]
      BY <1>1, <1>4, <2>1, <2>2 DEF Answered
    <3>2. call \in [Calls -> CallSet]
      BY DEF Types
    <3>3. call' = [d \in Calls |-> call'[d]]
      BY <1>1 DEF Answered
    <3> QED
      BY <3>1, <3>2, <3>3
  <2>4. Ends(c)
    BY <2>2, <2>3, EndIs
  <2> QED
    BY <1>1, <1>4, <2>1, <2>4
<1> QED
  BY <1>1, <1>2, <1>3, <1>4 DEF Waits

LEMMA CompleteIs ==
    ASSUME Types, WaitInv, Complete
    PROVE  /\ Types' /\ Grows
           /\ job # <<>> /\ job' = <<>>
           /\ UpdateWatermarks(job[1]) /\ call' = Answered(job[1])
           /\ UNCHANGED <<now, mtime, stat, index, unread, snaps, queue, credited>>
<1>1. /\ job # <<>> /\ job' = <<>>
      /\ UpdateWatermarks(job[1]) /\ call' = Answered(job[1])
      /\ UNCHANGED <<now, mtime, stat, index, unread, snaps, queue, credited>>
  BY DEF Complete, fileVars
<1>2. PICK r \in Requests : r = job[1]
  BY <1>1 DEF Types
<1>3. call' \in [Calls -> CallSet]
  <2>1. CASE ~r.live
    <3>1. call' = [d \in Calls |-> call[d]]
      BY <1>1, <1>2, <2>1 DEF Answered
    <3> QED
      BY <3>1 DEF Types
  <2>2. CASE r.live
    BY <1>1, <1>2, <2>2, AnsweredIs DEF Goes, Ends
  <2> QED
    BY <2>1, <2>2
<1>4. /\ perFile' \in [Files -> Int] /\ perTree' \in [Trees -> Int]
      /\ \A f \in Files : NoTime <= perFile'[f]
  BY <1>1, <1>2, MarksKeep
<1>5. Types'
  BY <1>1, <1>3, <1>4 DEF Types
<1> QED
  BY <1>1, <1>5, FilesStay

LEMMA CompleteKeeps ==
    ASSUME EditInv, Complete
    PROVE  EditInv'
<1> USE DEF EditInv
<1>1. /\ Types' /\ Grows /\ job # <<>> /\ job' = <<>>
      /\ call' = Answered(job[1])
      /\ UNCHANGED <<mtime, stat, unread, snaps, queue>>
  BY CompleteIs
<1>2. PICK r \in Requests : r = job[1]
  BY <1>1 DEF Types
<1>3. \/ r.live /\ r.kind = "human" /\ r.by \in Calls /\ Goes(r.by, "running") /\ call[r.by].pc = "pre"
      \/ r.live /\ r.kind = "ai" /\ r.by \in Calls /\ Ends(r.by) /\ call[r.by].pc = "post"
      \/ ~r.live /\ \A d \in Calls : call'[d] = call[d]
  BY <1>1, <1>2, AnsweredIs
<1>4. \A d \in Calls : (r.live => d # r.by) => call'[d] = call[d]
  BY <1>3 DEF Goes, Ends
<1>5. r.live => \A i \in 1..Len(queue) : queue[i].live => queue[i].by # r.by
  BY <1>1, <1>2 DEF WaitInv
<1>6. \A i \in 1..Len(queue') : queue'[i].live => Waits(queue[i])'
  <2> SUFFICES ASSUME NEW i \in 1..Len(queue'), queue'[i].live
               PROVE  Waits(queue[i])'
    OBVIOUS
  <2>1. Waits(queue[i])
    BY <1>1 DEF WaitInv
  <2>2. call'[queue[i].by] = call[queue[i].by]
    BY <1>1, <1>4, <1>5, <2>1 DEF Waits
  <2> QED
    BY <1>1, <2>1, <2>2 DEF Waits
<1>7. WaitInv'
  BY <1>1, <1>6 DEF WaitInv
<1>8. \A d \in Calls : d \in DOMAIN snaps => call'[d].pc \in {"pre", "running", "stopped"}
  BY <1>3, <1>4 DEF SnapInv, Goes, Ends
<1>9. \A d \in Calls : call'[d].snap # <<>> => call'[d].snap = call[d].snap
  BY <1>3, <1>4 DEF Goes, Ends
<1>10. SnapInv'
  BY <1>1, <1>8, <1>9, SnapKept
<1>11. \A d \in Calls : (r.live => d # r.by) => WriteOf(d)'
  BY <1>1, <1>4, WriteKept DEF WriteInv, Unread
<1>12. r.live => WriteOf(r.by)'
  <2> SUFFICES ASSUME r.live PROVE WriteOf(r.by)'
    OBVIOUS
  <2>1. Waits(r) /\ \A f \in Files : r.by \notin unread[r.tree][f]
    BY <1>1, <1>2 DEF WaitInv
  <2>2. \A t \in Trees, f \in Files : r.by \notin unread'[t][f]
    BY <1>1, <2>1 DEF Waits, WriteInv, WriteOf
  <2> QED
    BY <2>2 DEF WriteOf
<1>13. \A d \in Calls : WriteOf(d)'
  BY <1>11, <1>12
<1> QED
  BY <1>1, <1>7, <1>10, <1>13 DEF WriteInv

-----------------------------------------------------------------------------
(* What the comparison of stats reports.                                    *)

LEMMA InitEdit ==
    ASSUME Init
    PROVE  EditInv
<1>1. Types
  BY NoMarksType DEF Init, Types, Idle, CallSet, Phases, NoTime, SnapSet
<1>2. WaitInv
  BY DEF Init, WaitInv
<1>3. SnapInv
  BY DEF Init, SnapInv, Idle
<1>4. WriteInv
  BY DEF Init, WriteInv, WriteOf
<1> QED
  BY <1>1, <1>2, <1>3, <1>4 DEF EditInv

LEMMA StepKeepsEdit ==
    ASSUME Distinct, EditInv, [Next]_vars
    PROVE  EditInv'
<1>1. CASE Tick \/ UNCHANGED vars
  BY <1>1, TickKeeps
<1>2. CASE Apply
  BY <1>2, ApplyKeeps
<1>3. CASE Complete
  BY <1>3, CompleteKeeps
<1>4. CASE \E t \in Trees, f \in Files : UserWrites(t, f)
  BY <1>4, UserWritesKeeps
<1>5. CASE \E a \in Authors, t \in Trees : Commit(a, t)
  BY <1>5, CommitKeeps
<1>6. ASSUME NEW c \in Calls, HookStep(c) \/ Abort(c) \/ \E f \in Files : CallWrites(c, f)
      PROVE  EditInv'
  <2>1. CASE PreQuery(c) \/ PreSnapshot(c)
    BY <2>1, QueryKeeps, PreSnapshotKeeps
  <2>2. CASE PostLoad(c) \/ PostSnapshot(c)
    BY <2>2, LoadKeeps, PostSnapshotKeeps
  <2>3. CASE Abort(c)
    BY <2>3, AbortKeeps
  <2>4. CASE \E f \in Files : CallWrites(c, f)
    BY <2>4, CallWritesKeeps
  <2> QED
    BY <1>6, <2>1, <2>2, <2>3, <2>4 DEF HookStep
<1> QED
  BY <1>1, <1>2, <1>3, <1>4, <1>5, <1>6 DEF Next

LEMMA EditsHold ==
    ASSUME Distinct
    PROVE  Spec => []EditInv
<1>1. Init => EditInv
  BY InitEdit
<1>2. EditInv /\ [Next]_vars => EditInv'
  BY StepKeepsEdit
<1> QED
  BY <1>1, <1>2, PTL DEF Spec

\* When the hook after a command is over, the comparison of stats has missed
\* nothing that the command wrote: with every walk, query and capture that runs
\* out of time, any calls at once in a worktree, and any commits and edits of the
\* user in between (post_tool_use).
THEOREM EditsAreReported ==
    ASSUME Distinct
    PROVE  Spec => []EditsReported
<1>1. EditInv => EditsReported
  <2> SUFFICES ASSUME EditInv, NEW c \in Calls, call[c].pc = "done", NEW f \in Files
               PROVE  c \notin unread[Home[c]][f]
    BY DEF EditsReported
  <2>1. Home[c] \in Trees
    BY HomeAssumption
  <2> QED
    BY <2>1 DEF EditInv, WriteInv, WriteOf
<1> QED
  BY <1>1, EditsHold, PTL

-----------------------------------------------------------------------------
(* What a human checkpoint carries of the calls.                            *)

\* A call that was stopped stays so, and no call starts.
Moves == \A c \in Calls : /\ call[c].pc = "stopped" => call'[c].pc = "stopped"
                          /\ InFlight(c)' => InFlight(c)

LEMMA GoesMoves ==
    ASSUME NEW c \in Calls, InFlight(c),
           Ends(c) \/ \E p \in Phases : Goes(c, p)
    PROVE  Moves
BY DEF Moves, Goes, Ends, InFlight

LEMMA SoloKept ==
    ASSUME SoloInv, Moves
    PROVE  SoloInv'
BY DEF SoloInv, Moves

\* A step after which nothing is asked of the daemon or credited.
LEMMA AgentStill ==
    ASSUME AgentInv, Moves, UNCHANGED <<queue, credited>>
    PROVE  AgentInv'
<1>1. SoloInv'
  BY SoloKept DEF AgentInv
<1>2. TextInv'
  BY DEF AgentInv, TextInv, Moves
<1> QED
  BY <1>1, <1>2 DEF AgentInv, AgentStaysAi, Moves

\* A step that asks for a checkpoint, or commits.
LEMMA AgentAsked ==
    ASSUME Types, AgentInv, Moves, UNCHANGED credited, NEW r \in Requests,
           queue' = Append(queue, r),
           r.kind # "ai" => \A f \in Files, d \in Calls : d \in r.text[f] => call[d].pc = "stopped"
    PROVE  AgentInv'
<1>1. SoloInv'
  BY SoloKept DEF AgentInv
<1>2. \A i \in 1..Len(queue') : (i \in 1..Len(queue) /\ queue'[i] = queue[i]) \/ queue'[i] = r
  BY AppendedQueue
<1>3. TextInv'
  BY <1>2 DEF AgentInv, TextInv, Moves
<1> QED
  BY <1>1, <1>3 DEF AgentInv, AgentStaysAi, Moves

\* In a worktree where no command runs, only stopped calls have something unread.
LEMMA OnlyStopped ==
    ASSUME EditInv, SoloInv, NEW t \in Trees,
           \A c \in Calls : Home[c] = t /\ InFlight(c) => call[c].pc \in {"queried", "pre"}
    PROVE  \A f \in Files, d \in Calls : d \in unread[t][f] => call[d].pc = "stopped"
BY DEF EditInv, WriteInv, WriteOf, InFlight

\* So while a call waits for its first checkpoint, or takes its first snapshot.
LEMMA OnlyStoppedBefore ==
    ASSUME EditInv, SoloInv, NEW c \in Calls, call[c].pc \in {"queried", "pre"}
    PROVE  \A f \in Files, d \in Calls : d \in unread[Home[c]][f] => call[d].pc = "stopped"
<1>1. PICK t \in Trees : t = Home[c]
  BY HomeAssumption
<1>2. \A d \in Calls : Home[d] = t /\ InFlight(d) => call[d].pc \in {"queried", "pre"}
  BY <1>1 DEF SoloInv, InFlight
<1> QED
  BY <1>1, <1>2, OnlyStopped

LEMMA CommitKeepsAgent ==
    ASSUME Alone, EditInv, AgentInv, NEW a \in Authors, NEW t \in Trees, Commit(a, t)
    PROVE  AgentInv'
<1>1. PICK ps \in SUBSET Files :
         /\ queue' = Append(queue, Request(t, "commit", FALSE, ps, a))
         /\ UNCHANGED <<call, credited>>
  BY CommitIs DEF EditInv
<1>2. PICK r \in Requests : r = Request(t, "commit", FALSE, ps, a)
  BY RequestIs DEF Kinds, EditInv
<1>3. \A f \in Files : r.text[f] \subseteq unread[t][f]
  BY <1>2 DEF Request
<1>4. \A c \in Calls : Home[c] = t => ~InFlight(c)
  BY DEF Commit, Alone
<1>5. \A f \in Files, d \in Calls : d \in unread[t][f] => call[d].pc = "stopped"
  BY <1>4, OnlyStopped DEF AgentInv
<1>6. Moves
  BY <1>1 DEF Moves, InFlight
<1> QED
  BY <1>1, <1>2, <1>3, <1>5, <1>6, AgentAsked DEF EditInv

LEMMA QueryKeepsAgent ==
    ASSUME Alone, Types, AgentInv, NEW c \in Calls, PreQuery(c)
    PROVE  AgentInv'
<1>1. /\ call[c].pc = "idle" /\ \A d \in Calls : Home[d] = Home[c] => ~InFlight(d)
      /\ \A d \in Calls : d # c => call'[d] = call[d]
      /\ UNCHANGED <<queue, credited>>
  BY QueryIs DEF Alone
<1>2. SoloInv'
  <2> SUFFICES ASSUME NEW x \in Calls, NEW y \in Calls, Home[x] = Home[y],
                      InFlight(x)', InFlight(y)'
               PROVE  x = y
    BY DEF SoloInv
  <2> QED
    BY <1>1 DEF AgentInv, SoloInv, InFlight
<1>3. \A d \in Calls : call[d].pc = "stopped" => call'[d].pc = "stopped"
  BY <1>1
<1> QED
  BY <1>1, <1>2, <1>3 DEF AgentInv, TextInv, AgentStaysAi

LEMMA PreSnapshotKeepsAgent ==
    ASSUME EditInv, AgentInv, NEW c \in Calls, PreSnapshot(c)
    PROVE  AgentInv'
<1>1. PICK s \in SnapSet :
         \/ Goes(c, "running") /\ Captures(c, "human", StaleFiles(s))
         \/ Goes(c, "pre") /\ Asks(c, "human")
  BY PreSnapshotIs DEF EditInv
<1>2. call[c].pc = "queried" /\ UNCHANGED credited
  BY PreSnapshotIs DEF EditInv
<1>3. Moves
  BY <1>1, <1>2, GoesMoves DEF Phases, InFlight
<1>4. \A f \in Files, d \in Calls : d \in unread[Home[c]][f] => call[d].pc = "stopped"
  BY <1>2, OnlyStoppedBefore DEF AgentInv
<1>5. CASE Captures(c, "human", StaleFiles(s))
  <2>1. PICK r \in Requests :
           /\ queue' = Append(queue, r)
           /\ \A f \in Files : r.text[f] \subseteq unread[Home[c]][f]
    BY <1>5 DEF Captures
  <2> QED
    BY <1>2, <1>3, <1>4, <2>1, AgentAsked DEF EditInv
<1>6. CASE Asks(c, "human")
  <2>1. PICK r \in Requests : queue' = Append(queue, r) /\ \A f \in Files : r.text[f] = {}
    BY <1>6 DEF Asks
  <2> QED
    BY <1>2, <1>3, <2>1, AgentAsked DEF EditInv
<1> QED
  BY <1>1, <1>5, <1>6

LEMMA PostSnapshotKeepsAgent ==
    ASSUME Types, AgentInv, NEW c \in Calls, PostSnapshot(c)
    PROVE  AgentInv'
<1>1. /\ call[c].pc = "loaded" /\ UNCHANGED credited
      /\ \/ Ends(c) /\ Captures(c, "ai", ChangedOf(c))
         \/ Goes(c, "post") /\ Asks(c, "ai")
  BY PostSnapshotIs
<1>2. Moves
  BY <1>1, GoesMoves DEF Phases, InFlight
<1>3. PICK r \in Requests : queue' = Append(queue, r) /\ r.kind = "ai"
  BY <1>1 DEF Captures, Asks
<1> QED
  BY <1>1, <1>2, <1>3, AgentAsked

LEMMA ApplyKeepsAgent ==
    ASSUME EditInv, AgentInv, Apply
    PROVE  AgentInv'
<1>1. PICK r \in Requests :
         /\ queue # <<>> /\ r = queue[1] /\ queue' = Tail(queue)
         /\ credited' = credited \cup {<<a, Kind(r)>> : a \in UNION {TextOf(r)[f] : f \in Files}}
         /\ UNCHANGED call
  BY ApplyIs DEF EditInv
<1>2. /\ 1 \in 1..Len(queue)
      /\ \A i \in 1..Len(queue') : i + 1 \in 1..Len(queue) /\ queue'[i] = queue[i + 1]
  BY <1>1, PoppedQueue DEF EditInv
<1>3. SoloInv'
  BY <1>1 DEF AgentInv, SoloInv, InFlight
<1>4. TextInv'
  BY <1>1, <1>2 DEF AgentInv, TextInv
<1>5. ASSUME NEW c \in Calls, NEW f \in Files, c \in TextOf(r)[f], Kind(r) = "human"
      PROVE  call[c].pc = "stopped"
  <2>1. r.kind # "ai"
    BY <1>5 DEF Kind
  <2>2. CASE r.live
    <3>1. PICK d \in Calls : d = r.by /\ call[d].pc = "pre" /\ r.tree = Home[d]
      BY <1>1, <1>2, <2>1, <2>2 DEF EditInv, WaitInv, Waits
    <3>2. c \in unread[Home[d]][f]
      BY <1>5, <2>2, <3>1 DEF TextOf, FilesOf
    <3> QED
      BY <3>1, <3>2, OnlyStoppedBefore DEF AgentInv
  <2>3. CASE ~r.live
    <3>1. c \in r.text[f]
      BY <1>5, <2>3 DEF TextOf
    <3> QED
      BY <1>1, <1>2, <2>1, <3>1 DEF AgentInv, TextInv
  <2> QED
    BY <2>2, <2>3
<1>6. AgentStaysAi'
  <2> SUFFICES ASSUME NEW c \in Calls, <<c, "human">> \in credited'
               PROVE  call[c].pc = "stopped"
    BY <1>1 DEF AgentStaysAi
  <2>1. CASE <<c, "human">> \in credited
    BY <2>1 DEF AgentInv, AgentStaysAi
  <2>2. CASE Kind(r) = "human" /\ \E f \in Files : c \in TextOf(r)[f]
    BY <1>5, <2>2
  <2> QED
    BY <1>1, <2>1, <2>2
<1> QED
  BY <1>3, <1>4, <1>6 DEF AgentInv

LEMMA StepKeepsAgent ==
    ASSUME Distinct, Alone, EditInv, AgentInv, [Next]_vars
    PROVE  AgentInv'
<1> USE DEF EditInv
<1>1. CASE Tick \/ UNCHANGED vars
  <2>1. UNCHANGED <<queue, credited, call>>
    BY <1>1 DEF Tick, vars, hookVars, daemonVars
  <2> QED
    BY <2>1, AgentStill DEF Moves, InFlight
<1>2. CASE Apply
  BY <1>2, ApplyKeepsAgent
<1>3. CASE Complete
  <2>1. /\ UNCHANGED <<queue, credited>> /\ job # <<>> /\ call' = Answered(job[1])
    BY <1>3, CompleteIs
  <2>2. Moves
    <3>1. CASE job[1].live
      BY <2>1, <3>1, AnsweredIs, GoesMoves DEF InFlight, Phases
    <3>2. CASE ~job[1].live
      BY <2>1, <3>2, AnsweredIs DEF Moves, InFlight
    <3> QED
      BY <3>1, <3>2
  <2> QED
    BY <2>1, <2>2, AgentStill
<1>4. ASSUME NEW t \in Trees, NEW f \in Files, UserWrites(t, f)
      PROVE  AgentInv'
  <2>1. UNCHANGED <<queue, credited, call>>
    BY <1>4 DEF UserWrites, Write, hookVars, daemonVars
  <2> QED
    BY <2>1, AgentStill DEF Moves, InFlight
<1>5. CASE \E a \in Authors, t \in Trees : Commit(a, t)
  BY <1>5, CommitKeepsAgent
<1>6. ASSUME NEW c \in Calls, NEW f \in Files, CallWrites(c, f)
      PROVE  AgentInv'
  <2>1. UNCHANGED <<queue, credited, call>>
    BY <1>6 DEF CallWrites, Write, hookVars, daemonVars
  <2> QED
    BY <2>1, AgentStill DEF Moves, InFlight
<1>7. ASSUME NEW c \in Calls, HookStep(c) \/ Abort(c)
      PROVE  AgentInv'
  <2>1. CASE PreQuery(c)
    BY <2>1, QueryKeepsAgent
  <2>2. CASE PreSnapshot(c)
    BY <2>2, PreSnapshotKeepsAgent
  <2>3. CASE PostLoad(c)
    <3>1. Moves /\ UNCHANGED <<queue, credited>>
      BY <2>3, LoadIs DEF Moves, InFlight
    <3> QED
      BY <3>1, AgentStill
  <2>4. CASE PostSnapshot(c)
    BY <2>4, PostSnapshotKeepsAgent
  <2>5. CASE Abort(c)
    <3>1. Goes(c, "stopped") /\ call[c].pc = "running" /\ UNCHANGED <<queue, credited>>
      BY <2>5, PhaseIs DEF Abort, Phases, daemonVars
    <3>2. Moves
      BY <3>1, GoesMoves DEF InFlight, Phases
    <3> QED
      BY <3>1, <3>2, AgentStill
  <2> QED
    BY <1>7, <2>1, <2>2, <2>3, <2>4, <2>5 DEF HookStep
<1> QED
  BY <1>1, <1>2, <1>3, <1>4, <1>5, <1>6, <1>7 DEF Next

\* What a command wrote is credited to the user neither by a checkpoint of the
\* hooks nor by the replay of a commit of the user, unless the agent was stopped
\* before its second hook: when one command at a time runs in a worktree.
THEOREM AgentsKeepTheirs ==
    ASSUME Distinct, Alone
    PROVE  Spec => []AgentStaysAi
<1>1. Init => AgentInv
  <2> SUFFICES ASSUME Init PROVE AgentInv
    OBVIOUS
  <2>1. SoloInv
    BY DEF Init, SoloInv, InFlight, Idle
  <2> QED
    BY <2>1 DEF Init, AgentInv, TextInv, AgentStaysAi
<1>2. EditInv /\ AgentInv /\ [Next]_vars => AgentInv'
  BY StepKeepsAgent
<1>3. AgentInv => AgentStaysAi
  BY DEF AgentInv
<1> QED
  BY <1>1, <1>2, <1>3, EditsHold, PTL DEF Spec

-----------------------------------------------------------------------------
(* What the watermarks hide.                                                *)

\* Nothing of the user is written or becomes unread.
Calm == \A t \in Trees, f \in Files : User \in unread'[t][f] => User \in unread[t][f]

\* A step that leaves the watermarks alone, and may append a request that has
\* read its paths.
LEMMA CoverKept ==
    ASSUME Types, Types', CoverInv, Calm, Grows, UNCHANGED <<index, perFile, perTree, job>>,
           \/ UNCHANGED queue
           \/ \E r \in Requests : /\ queue' = Append(queue, r)
                                  /\ \A f \in r.paths : User \notin unread'[r.tree][f]
    PROVE  CoverInv'
<1> USE DEF CoverInv
<1>1. \A x \in Requests : x.tree \in Trees /\ x.paths \subseteq Files
  BY DEF Requests
<1>2. \A i \in 1..Len(queue') : \A f \in queue'[i].paths : User \notin unread'[queue'[i].tree][f]
  <2>1. \A i \in 1..Len(queue) : queue[i] \in Requests
    BY DEF Types
  <2>2. CASE UNCHANGED queue
    BY <1>1, <2>1, <2>2 DEF ReadInv, Calm
  <2>3. ASSUME NEW r \in Requests, queue' = Append(queue, r),
               \A f \in r.paths : User \notin unread'[r.tree][f]
        PROVE  \A i \in 1..Len(queue') : \A f \in queue'[i].paths :
                  User \notin unread'[queue'[i].tree][f]
    <3>1. \A i \in 1..Len(queue') : (i \in 1..Len(queue) /\ queue'[i] = queue[i]) \/ queue'[i] = r
      BY <2>3, AppendedQueue
    <3> QED
      BY <1>1, <2>1, <2>3, <3>1 DEF ReadInv, Calm
  <2> QED
    BY <2>2, <2>3
<1>3. job # <<>> => job[1] \in Requests
  BY DEF Types
<1>4. ReadInv'
  BY <1>1, <1>2, <1>3 DEF ReadInv, Calm
<1>5. CoveredIsRead'
  <2> SUFFICES ASSUME NEW t \in Trees, NEW f \in Files, User \in unread'[t][f]
               PROVE  ~Covered(mtime'[t][f], WatermarksFor(t)', f)
    BY DEF CoveredIsRead
  <2>1. PICK wm \in MarkSet : wm = WatermarksFor(t) /\ wm = WatermarksFor(t)'
    BY WatermarksType DEF WatermarksFor
  <2>2. ~Covered(mtime[t][f], wm, f)
    BY <2>1 DEF CoveredIsRead, Calm
  <2> QED
    BY <2>1, <2>2, CoveredLater DEF Grows
<1> QED
  BY <1>4, <1>5

LEMMA UserWritesKeepsCover ==
    ASSUME Distinct, Patient, EditInv, CoverInv, NEW t \in Trees, NEW f \in Files, UserWrites(t, f)
    PROVE  CoverInv'
<1>1. PICK a \in Authors : a = User /\ Write(a, t, f)
  BY DEF UserWrites, Authors
<1>2. /\ Types' /\ mtime'[t][f] = now
      /\ \A u \in Trees, g \in Files : u # t \/ g # f => mtime'[u][g] = mtime[u][g]
      /\ \A u \in Trees, g \in Files :
            unread'[u][g] = IF u = t /\ g = f THEN unread[u][g] \cup {a} ELSE unread[u][g]
      /\ UNCHANGED <<index, perFile, perTree, queue, job>>
  BY <1>1, WriteIs DEF EditInv
<1>3. queue = <<>> /\ job = <<>> /\ ~Covered(now, WatermarksFor(t), f)
  BY DEF UserWrites, Patient, Distinct
<1>4. ReadInv'
  BY <1>2, <1>3 DEF ReadInv
<1>5. CoveredIsRead'
  <2> SUFFICES ASSUME NEW u \in Trees, NEW g \in Files, User \in unread'[u][g]
               PROVE  ~Covered(mtime'[u][g], WatermarksFor(u)', g)
    BY DEF CoveredIsRead
  <2>1. WatermarksFor(u)' = WatermarksFor(u)
    BY <1>2 DEF WatermarksFor
  <2>2. CASE u = t /\ g = f
    BY <1>2, <1>3, <2>1, <2>2
  <2>3. CASE u # t \/ g # f
    BY <1>2, <2>1, <2>3 DEF CoverInv, CoveredIsRead
  <2> QED
    BY <2>2, <2>3
<1> QED
  BY <1>4, <1>5 DEF CoverInv

LEMMA CallWritesCalm ==
    ASSUME Types, NEW c \in Calls, NEW f \in Files, CallWrites(c, f)
    PROVE  /\ Calm /\ Grows
           /\ UNCHANGED <<now, index, perFile, perTree, snaps, call, queue, job, credited>>
<1>1. PICK t \in Trees, a \in Authors : t = Home[c] /\ a = c /\ a # User /\ Write(a, t, f)
  BY HomeAssumption, CallsAssumption DEF CallWrites, Authors
<1>2. Write(a, t, f)
  BY <1>1
<1>3. \A u \in Trees, g \in Files :
         unread'[u][g] = IF u = t /\ g = f THEN unread[u][g] \cup {a} ELSE unread[u][g]
  BY <1>2, WriteIs
<1>4. Grows /\ UNCHANGED <<now, index, perFile, perTree, snaps, call, queue, job, credited>>
  BY <1>2, WriteIs
<1>5. \A u \in Trees, g \in Files : User \in unread'[u][g] => User \in unread[u][g]
  <2> SUFFICES ASSUME NEW u \in Trees, NEW g \in Files, User \in unread'[u][g]
               PROVE  User \in unread[u][g]
    OBVIOUS
  <2>1. unread'[u][g] \subseteq unread[u][g] \cup {a}
    BY <1>3
  <2> QED
    BY <1>1, <2>1
<1> QED
  BY <1>4, <1>5 DEF Calm

\* A commit has read all of the one worktree.
LEMMA CommitReads ==
    ASSUME Patient, Types, NEW a \in Authors, NEW t \in Trees, Commit(a, t)
    PROVE  \A u \in Trees, f \in Files : unread'[u][f] = {}
<1>1. PICK ps \in SUBSET Files :
         (\A f \in Files \ ps : unread[t][f] = {}) /\ unread' = Read(t, ps)
  BY CommitIs
<1>2. \A f \in Files : unread'[t][f] = IF f \in ps THEN {} ELSE unread[t][f]
  BY <1>1, ReadIs
<1> QED
  BY <1>1, <1>2 DEF Patient

LEMMA CommitKeepsCover ==
    ASSUME Patient, EditInv, CoverInv, NEW a \in Authors, NEW t \in Trees, Commit(a, t)
    PROVE  CoverInv'
<1>1. \A u \in Trees, f \in Files : unread'[u][f] = {}
  BY CommitReads DEF EditInv
<1>2. Types'
  BY CommitKeeps DEF EditInv
<1>3. ReadInv'
  <2>1. \A i \in 1..Len(queue') : queue'[i] \in Requests
    BY <1>2 DEF Types
  <2>2. job' # <<>> => job'[1] \in Requests
    BY <1>2 DEF Types
  <2>3. \A x \in Requests : x.tree \in Trees /\ x.paths \subseteq Files
    BY DEF Requests
  <2> QED
    BY <1>1, <2>1, <2>2, <2>3 DEF ReadInv
<1> QED
  BY <1>1, <1>3 DEF CoverInv, CoveredIsRead

\* What a hook captures is read, and what it asks for has no paths.
LEMMA CapturesCalm ==
    ASSUME Types, NEW c \in Calls, NEW k, NEW ps \in SUBSET Files,
           Captures(c, k, ps) \/ Asks(c, k)
    PROVE  /\ Calm
           /\ \E r \in Requests : /\ queue' = Append(queue, r)
                                  /\ \A f \in r.paths : User \notin unread'[r.tree][f]
<1>1. PICK t \in Trees : t = Home[c]
  BY HomeAssumption
<1>2. CASE Captures(c, k, ps)
  <2>1. \A f \in ps : unread'[Home[c]][f] = {}
    BY <1>2, CapturesReads
  <2>2. unread' = Read(t, ps)
    BY <1>1, <1>2 DEF Captures
  <2>3. \A u \in Trees, f \in Files : unread'[u][f] \subseteq unread[u][f]
    BY <2>2, ReadIs
  <2> QED
    BY <1>2, <2>1, <2>3 DEF Calm, Captures
<1>3. CASE Asks(c, k)
  BY <1>3 DEF Calm, Asks
<1> QED
  BY <1>2, <1>3

LEMMA ApplyCalm ==
    ASSUME Types, WaitInv, Apply
    PROVE  Calm
<1>1. PICK r \in Requests : IF r.live THEN unread' = Read(r.tree, Files) ELSE unread' = unread
  BY ApplyIs
<1>2. PICK t \in Trees : t = r.tree
  BY DEF Requests
<1>3. CASE r.live
  <2>1. unread' = Read(t, Files) /\ Files \in SUBSET Files
    BY <1>1, <1>2, <1>3
  <2> QED
    BY <2>1, ReadIs DEF Calm
<1>4. CASE ~r.live
  BY <1>1, <1>4 DEF Calm
<1> QED
  BY <1>3, <1>4

LEMMA ApplyKeepsCover ==
    ASSUME EditInv, CoverInv, Apply
    PROVE  CoverInv'
<1> USE DEF EditInv, CoverInv
<1>1. PICK r \in Requests :
         /\ queue # <<>> /\ r = queue[1] /\ queue' = Tail(queue)
         /\ IF r.kind = "commit" THEN job' = <<>> ELSE job' = <<r>>
         /\ IF r.live THEN unread' = Read(r.tree, Files) ELSE unread' = unread
         /\ UNCHANGED <<mtime, index, perFile, perTree>>
  BY ApplyIs
<1>2. /\ 1 \in 1..Len(queue)
      /\ \A i \in 1..Len(queue') : i + 1 \in 1..Len(queue) /\ queue'[i] = queue[i + 1]
  BY <1>1, PoppedQueue
<1>3. Calm
  BY ApplyCalm
<1>4. \A x \in Requests : x.tree \in Trees /\ x.paths \subseteq Files
  BY DEF Requests
<1>5. \A i \in 1..Len(queue) : queue[i] \in Requests
  BY DEF Types
<1>6. \A i \in 1..Len(queue') : \A f \in queue'[i].paths : User \notin unread'[queue'[i].tree][f]
  <2> SUFFICES ASSUME NEW i \in 1..Len(queue'), NEW f \in queue'[i].paths
               PROVE  User \notin unread'[queue'[i].tree][f]
    OBVIOUS
  <2>1. PICK n \in 1..Len(queue) : queue[n] = queue'[i]
    BY <1>2
  <2>2. queue[n].tree \in Trees /\ f \in Files
    BY <1>4, <1>5, <2>1
  <2> QED
    BY <1>3, <2>1, <2>2 DEF ReadInv, Calm
<1>7. \A f \in r.paths : User \notin unread'[r.tree][f]
  BY <1>1, <1>2, <1>3, <1>4 DEF ReadInv, Calm
<1>8. r.live => \A f \in Files : User \notin unread'[r.tree][f]
  <2>1. PICK t \in Trees : t = r.tree
    BY <1>4
  <2>2. Files \in SUBSET Files
    OBVIOUS
  <2> QED
    BY <1>1, <2>1, <2>2, ReadIs
<1>9. job' # <<>> => job'[1] = r
  BY <1>1
<1>10. ReadInv'
  BY <1>6, <1>7, <1>8, <1>9 DEF ReadInv
<1>11. CoveredIsRead'
  BY <1>1, <1>3 DEF CoveredIsRead, WatermarksFor, Calm
<1> QED
  BY <1>10, <1>11

\* The watermarks of a checkpoint are of files that it has read.
LEMMA CompleteKeepsCover ==
    ASSUME Patient, EditInv, CoverInv, Complete
    PROVE  CoverInv'
<1> USE DEF EditInv, CoverInv
<1>1. /\ job # <<>> /\ job' = <<>> /\ UpdateWatermarks(job[1])
      /\ UNCHANGED <<now, mtime, index, unread, queue>>
  BY CompleteIs
<1>2. PICK r \in Requests : r = job[1]
  BY <1>1 DEF Types
<1>3. ReadInv'
  BY <1>1 DEF ReadInv
<1>4. CoveredIsRead'
  <2> SUFFICES ASSUME NEW t \in Trees, NEW f \in Files, User \in unread[t][f]
               PROVE  ~Covered(mtime[t][f], WatermarksFor(t)', f)
    BY <1>1 DEF CoveredIsRead
  <2>1. r.tree = t
    BY DEF Patient, Requests
  <2>2. f \notin r.paths /\ ~r.live
    BY <1>1, <1>2, <2>1 DEF ReadInv
  <2>3. perFile' = MarkFiles(StatMarks(r)) /\ UNCHANGED perTree
    BY <1>1, <1>2, <2>2 DEF UpdateWatermarks
  <2>4. StatMarks(r)[f] = NoTime /\ NoTime <= perFile[f] /\ perFile[f] \in Int
    BY <2>2 DEF StatMarks, Types
  <2>5. perFile'[f] = perFile[f]
    BY <2>3, <2>4 DEF MarkFiles, NoTime
  <2>6. ~Covered(mtime[t][f], WatermarksFor(t), f)
    BY DEF CoveredIsRead
  <2> QED
    BY <1>1, <2>3, <2>5, <2>6 DEF Covered, WatermarksFor
<1> QED
  BY <1>3, <1>4

LEMMA StepKeepsCover ==
    ASSUME Distinct, Patient, EditInv, EditInv', CoverInv, [Next]_vars
    PROVE  CoverInv'
<1> USE DEF EditInv
<1>1. CASE Tick \/ UNCHANGED vars
  <2>1. UNCHANGED <<mtime, stat, index, perFile, perTree, unread, queue, job>>
    BY <1>1 DEF Tick, vars, fileVars, actorVars, daemonVars
  <2> QED
    BY <2>1, FilesStay, CoverKept DEF Calm
<1>2. CASE Apply
  BY <1>2, ApplyKeepsCover
<1>3. CASE Complete
  BY <1>3, CompleteKeepsCover
<1>4. CASE \E t \in Trees, f \in Files : UserWrites(t, f)
  BY <1>4, UserWritesKeepsCover
<1>5. CASE \E a \in Authors, t \in Trees : Commit(a, t)
  BY <1>5, CommitKeepsCover
<1>6. ASSUME NEW c \in Calls, NEW f \in Files, CallWrites(c, f)
      PROVE  CoverInv'
  BY <1>6, CallWritesCalm, CoverKept
<1>7. ASSUME NEW c \in Calls, HookStep(c) \/ Abort(c)
      PROVE  CoverInv'
  <2>1. CASE PreQuery(c) \/ PostLoad(c)
    <3>1. UNCHANGED <<mtime, stat, index, perFile, perTree, unread, queue, job>>
      BY <2>1, QueryIs, LoadIs
    <3> QED
      BY <3>1, FilesStay, CoverKept DEF Calm
  <2>2. CASE PreSnapshot(c)
    <3>1. PICK s \in SnapSet : Captures(c, "human", StaleFiles(s)) \/ Asks(c, "human")
      BY <2>2, PreSnapshotIs
    <3>2. PICK ps \in SUBSET Files : ps = StaleFiles(s)
      BY DEF StaleFiles
    <3>3. UNCHANGED <<mtime, stat, index, perFile, perTree, job>>
      BY <2>2, PreSnapshotIs
    <3> QED
      BY <3>1, <3>2, <3>3, CapturesCalm, FilesStay, CoverKept
  <2>3. CASE PostSnapshot(c)
    <3>1. Captures(c, "ai", ChangedOf(c)) \/ Asks(c, "ai")
      BY <2>3, PostSnapshotIs
    <3>2. PICK ps \in SUBSET Files : ps = ChangedOf(c)
      BY DEF ChangedOf, Changed
    <3>3. UNCHANGED <<mtime, stat, index, perFile, perTree, job>>
      BY <2>3, PostSnapshotIs
    <3> QED
      BY <3>1, <3>2, <3>3, CapturesCalm, FilesStay, CoverKept
  <2>4. CASE Abort(c)
    <3>1. UNCHANGED <<mtime, stat, index, perFile, perTree, unread, queue, job>>
      BY <2>4 DEF Abort, fileVars, actorVars, daemonVars
    <3> QED
      BY <3>1, FilesStay, CoverKept DEF Calm
  <2> QED
    BY <1>7, <2>1, <2>2, <2>3, <2>4 DEF HookStep
<1> QED
  BY <1>1, <1>2, <1>3, <1>4, <1>5, <1>6, <1>7 DEF Next

LEMMA CoverHolds ==
    ASSUME Distinct, Patient
    PROVE  Spec => [](EditInv /\ CoverInv)
<1>1. Init => EditInv /\ CoverInv
  BY InitEdit DEF Init, CoverInv, ReadInv, CoveredIsRead
<1>2. EditInv /\ CoverInv /\ [Next]_vars => (EditInv /\ CoverInv)'
  BY StepKeepsEdit, StepKeepsCover
<1> QED
  BY <1>1, <1>2, PTL DEF Spec

\* In one worktree, where the user does not write while the daemon works, no
\* change of the user that no checkpoint has read is hidden by the watermarks
\* that the next hook is given, whatever fails (is_wm_covered).
THEOREM NothingIsHidden ==
    ASSUME Distinct, Patient
    PROVE  Spec => []CoveredIsRead
<1>1. CoverInv => CoveredIsRead
  BY DEF CoverInv
<1> QED
  BY <1>1, CoverHolds, PTL

-----------------------------------------------------------------------------
(* What the user wrote before a command.                                    *)

\* A step after which the calls have what they were given, and where a command
\* runs now everything of the user has been read.
LEMMA BeforeKept ==
    ASSUME Types, BeforeInv, Calm, Grows,
           \A c \in Calls :
              \/ call'[c].pc = call[c].pc /\ call'[c].wm = call[c].wm
              \/ call'[c].pc \in {"pre", "done", "stopped"}
              \/ /\ call'[c].pc \in {"running", "loaded", "post"}
                 /\ \A f \in Files : User \notin unread'[Home[c]][f]
    PROVE  BeforeInv'
<1> SUFFICES ASSUME NEW c \in Calls
             PROVE  /\ call'[c].pc = "queried" =>
                          \/ call'[c].wm = NoMarks
                          \/ /\ call'[c].wm.tree # NoTime
                             /\ \A f \in Files : User \in unread'[Home[c]][f] =>
                                   ~Covered(mtime'[Home[c]][f], call'[c].wm, f)
                    /\ call'[c].pc \in {"running", "loaded", "post"} =>
                          \A f \in Files : User \notin unread'[Home[c]][f]
  BY DEF BeforeInv, NoMarks
<1>1. PICK t \in Trees : t = Home[c]
  BY HomeAssumption
<1>2. PICK wm \in MarkSet : wm = call[c].wm
  BY DEF Types, CallSet
<1>3. CASE call'[c].pc = call[c].pc /\ call'[c].wm = call[c].wm
  <2>1. \A f \in Files : Covered(mtime'[t][f], wm, f) => Covered(mtime[t][f], wm, f)
    BY CoveredLater DEF Grows
  <2> QED
    BY <1>1, <1>2, <1>3, <2>1 DEF BeforeInv, Calm
<1>4. CASE call'[c].pc \in {"pre", "done", "stopped"}
  BY <1>4
<1>5. CASE /\ call'[c].pc \in {"running", "loaded", "post"}
           /\ \A f \in Files : User \notin unread'[Home[c]][f]
  BY <1>5
<1> QED
  BY <1>3, <1>4, <1>5

\* A step that asks the daemon for nothing.
LEMMA UserStill ==
    ASSUME UserInv, BeforeInv', Moves, UNCHANGED <<queue, credited>>
    PROVE  UserInv'
<1>1. UserTextInv'
  BY DEF UserInv, UserTextInv, Moves
<1> QED
  BY <1>1 DEF UserInv, UserStaysHuman, Moves

LEMMA UserAsked ==
    ASSUME Types, UserInv, BeforeInv', Moves, UNCHANGED credited, NEW r \in Requests,
           queue' = Append(queue, r),
           \A f \in Files : User \in r.text[f] =>
              /\ r.kind # "ai"
              /\ r.kind = "commit" => \A c \in Calls : Home[c] = r.tree => ~InFlight(c)
    PROVE  UserInv'
<1>1. \A i \in 1..Len(queue') : (i \in 1..Len(queue) /\ queue'[i] = queue[i]) \/ queue'[i] = r
  BY AppendedQueue
<1>2. UserTextInv'
  BY <1>1 DEF UserInv, UserTextInv, Moves
<1> QED
  BY <1>2 DEF UserInv, UserStaysHuman, Moves

LEMMA UserWritesKeepsUser ==
    ASSUME Patient, Types, UserInv, NEW t \in Trees, NEW f \in Files, UserWrites(t, f)
    PROVE  UserInv'
<1>1. UNCHANGED <<call, queue, credited>>
  BY DEF UserWrites, Write, hookVars, daemonVars
<1>2. \A c \in Calls : ~InFlight(c)
  BY HomeAssumption DEF UserWrites, Patient
<1>3. BeforeInv'
  BY <1>1, <1>2 DEF BeforeInv, InFlight
<1>4. Moves
  BY <1>1 DEF Moves, InFlight
<1> QED
  BY <1>1, <1>3, <1>4, UserStill

LEMMA CommitKeepsUser ==
    ASSUME Patient, Types, UserInv, NEW a \in Authors, NEW t \in Trees, Commit(a, t)
    PROVE  UserInv'
<1>1. PICK ps \in SUBSET Files :
         /\ queue' = Append(queue, Request(t, "commit", FALSE, ps, a))
         /\ UNCHANGED <<mtime, stat, call, credited>>
  BY CommitIs
<1>2. PICK r \in Requests : r = Request(t, "commit", FALSE, ps, a)
  BY RequestIs DEF Kinds
<1>3. r.tree = t /\ \A f \in Files : r.text[f] \subseteq unread[t][f]
  BY <1>2 DEF Request
<1>4. \A u \in Trees, f \in Files : unread'[u][f] = {}
  BY CommitReads
<1>5. Calm /\ Moves /\ Grows
  BY <1>1, <1>4, FilesStay DEF Calm, Moves, InFlight
<1>6. BeforeInv'
  BY <1>1, <1>5, BeforeKept DEF UserInv
<1>7. ASSUME NEW f \in Files, User \in unread[t][f], NEW c \in Calls, Home[c] = t
      PROVE  ~InFlight(c)
  <2>1. CASE a = User
    BY <1>7, <2>1 DEF Commit
  <2>2. CASE a # User
    <3>1. a \in Calls /\ Home[a] = t /\ call[a].pc = "running"
      BY <2>2 DEF Commit, Authors
    <3> QED
      BY <1>7, <3>1 DEF UserInv, BeforeInv
  <2> QED
    BY <2>1, <2>2
<1>8. \A f \in Files : User \in r.text[f] =>
         r.kind # "ai" /\ \A c \in Calls : Home[c] = r.tree => ~InFlight(c)
  BY <1>2, <1>3, <1>7 DEF Request
<1> QED
  BY <1>1, <1>2, <1>5, <1>6, <1>8, UserAsked

\* The watermarks of a query hide nothing of the user, and no commit waits for
\* its replay.
LEMMA QueryKeepsUser ==
    ASSUME ~Lag, Types, CoverInv, UserInv, NEW c \in Calls, PreQuery(c)
    PROVE  UserInv'
<1>1. /\ call[c].pc = "idle" /\ Quiet(Home[c])
      /\ call'[c].pc = "queried" /\ call'[c].wm \in {WatermarksFor(Home[c]), NoMarks}
      /\ \A d \in Calls : d # c => call'[d] = call[d]
      /\ UNCHANGED <<mtime, unread, queue, credited>>
  BY QueryIs
<1>2. PICK t \in Trees : t = Home[c]
  BY HomeAssumption
<1>3. /\ WatermarksFor(t).tree # NoTime
      /\ \A f \in Files : User \in unread[t][f] => ~Covered(mtime[t][f], WatermarksFor(t), f)
  BY DEF CoverInv, CoveredIsRead, WatermarksFor, NoTime, Types
<1>4. BeforeInv'
  <2> SUFFICES ASSUME NEW d \in Calls
               PROVE  /\ call'[d].pc = "queried" =>
                            \/ call'[d].wm = NoMarks
                            \/ /\ call'[d].wm.tree # NoTime
                               /\ \A f \in Files : User \in unread'[Home[d]][f] =>
                                     ~Covered(mtime'[Home[d]][f], call'[d].wm, f)
                      /\ call'[d].pc \in {"running", "loaded", "post"} =>
                            \A f \in Files : User \notin unread'[Home[d]][f]
    BY DEF BeforeInv, NoMarks
  <2>1. CASE d = c
    BY <1>1, <1>2, <1>3, <2>1
  <2>2. CASE d # c
    BY <1>1, <2>2 DEF UserInv, BeforeInv
  <2> QED
    BY <2>1, <2>2
<1>5. UserTextInv'
  <2> SUFFICES ASSUME NEW i \in 1..Len(queue), NEW f \in Files, User \in queue[i].text[f]
               PROVE  /\ queue[i].kind # "ai"
                      /\ queue[i].kind = "commit" =>
                            \A d \in Calls : Home[d] = queue[i].tree => ~InFlight(d)'
    BY <1>1 DEF UserTextInv
  <2>1. queue[i].kind = "commit" => Home[c] # queue[i].tree
    BY <1>1 DEF Quiet, Types
  <2> QED
    BY <1>1, <2>1 DEF UserInv, UserTextInv, InFlight
<1>6. \A d \in Calls : call[d].pc = "stopped" => call'[d].pc = "stopped"
  BY <1>1
<1> QED
  BY <1>1, <1>4, <1>5, <1>6 DEF UserInv, UserStaysHuman

\* A first snapshot with watermarks shows all that the user wrote.
LEMMA PreSnapshotKeepsUser ==
    ASSUME EditInv, UserInv, NEW c \in Calls, PreSnapshot(c)
    PROVE  UserInv'
<1> USE DEF EditInv
<1>1. PICK s \in SnapSet :
         /\ s.wm = call[c].wm /\ s.entries = Entries(Home[c], call[c].wm)
         /\ \/ StaleFiles(s) # {} /\ Goes(c, "running") /\ Captures(c, "human", StaleFiles(s))
            \/ Goes(c, "pre") /\ Asks(c, "human")
  BY PreSnapshotIs
<1>2. call[c].pc = "queried" /\ UNCHANGED <<mtime, stat, credited>>
  BY PreSnapshotIs
<1>3. PICK ps \in SUBSET Files : ps = StaleFiles(s)
  BY DEF StaleFiles
<1>4. PICK t \in Trees, wm \in MarkSet : t = Home[c] /\ wm = call[c].wm
  BY HomeAssumption DEF Types, CallSet
<1>5. Grows /\ Calm
  BY <1>1, <1>2, <1>3, FilesStay, CapturesCalm
<1>6. Moves
  BY <1>1, <1>2, GoesMoves DEF InFlight, Phases
<1>7. CASE StaleFiles(s) # {} /\ Goes(c, "running") /\ Captures(c, "human", StaleFiles(s))
  <2>1. wm # NoMarks
    BY <1>1, <1>4, <1>7 DEF StaleFiles, NoMarks
  <2>2. wm.tree # NoTime /\ \A f \in Files : User \in unread[t][f] => ~Covered(mtime[t][f], wm, f)
    BY <1>2, <1>4, <2>1 DEF UserInv, BeforeInv
  <2>3. \A f \in Files : User \in unread[t][f] => s.entries[f] # NoTime
    BY <1>1, <1>4, <2>2, EntriesIs DEF Types, NoTime
  <2>4. \A f \in Files : User \in unread[t][f] => f \in ps
    BY <1>1, <1>3, <1>4, <2>2, <2>3 DEF StaleFiles
  <2>5. \A f \in ps : unread'[t][f] = {}
    BY <1>3, <1>4, <1>7, CapturesReads
  <2>6. \A f \in Files : User \notin unread'[Home[c]][f]
    BY <1>4, <1>5, <2>4, <2>5 DEF Calm
  <2>7. BeforeInv'
    BY <1>5, <1>7, <2>6, BeforeKept DEF UserInv, Goes
  <2>8. PICK r \in Requests : queue' = Append(queue, r) /\ r.kind = "human"
    BY <1>7 DEF Captures
  <2> QED
    BY <1>2, <1>6, <2>7, <2>8, UserAsked
<1>8. CASE Goes(c, "pre") /\ Asks(c, "human")
  <2>1. BeforeInv'
    BY <1>5, <1>8, BeforeKept DEF UserInv, Goes
  <2>2. PICK r \in Requests : queue' = Append(queue, r) /\ r.kind = "human"
    BY <1>8 DEF Asks
  <2> QED
    BY <1>2, <1>6, <2>1, <2>2, UserAsked
<1> QED
  BY <1>1, <1>7, <1>8

LEMMA PostSnapshotKeepsUser ==
    ASSUME Types, UserInv, NEW c \in Calls, PostSnapshot(c)
    PROVE  UserInv'
<1>1. /\ call[c].pc = "loaded" /\ UNCHANGED <<mtime, stat, credited>>
      /\ \/ Ends(c) /\ Captures(c, "ai", ChangedOf(c))
         \/ Goes(c, "post") /\ Asks(c, "ai")
  BY PostSnapshotIs
<1>2. PICK ps \in SUBSET Files : ps = ChangedOf(c)
  BY DEF ChangedOf, Changed
<1>3. Grows /\ Calm
  BY <1>1, <1>2, FilesStay, CapturesCalm
<1>4. Moves
  BY <1>1, GoesMoves DEF InFlight, Phases
<1>5. \A f \in Files : User \notin unread[Home[c]][f]
  BY <1>1 DEF UserInv, BeforeInv
<1>6. \A f \in Files : User \notin unread'[Home[c]][f]
  BY <1>3, <1>5, HomeAssumption DEF Calm
<1>7. BeforeInv'
  BY <1>1, <1>3, <1>6, BeforeKept DEF UserInv, Goes, Ends
<1>8. PICK r \in Requests : /\ queue' = Append(queue, r)
                            /\ \A f \in Files : r.text[f] \subseteq unread[Home[c]][f]
  BY <1>1 DEF Captures, Asks
<1> QED
  BY <1>1, <1>4, <1>5, <1>7, <1>8, UserAsked

\* When a hook is answered, its checkpoint has read what the user wrote.
LEMMA CompleteKeepsUser ==
    ASSUME EditInv, CoverInv, UserInv, Complete
    PROVE  UserInv'
<1> USE DEF EditInv
<1>1. /\ Grows /\ job # <<>> /\ call' = Answered(job[1])
      /\ UNCHANGED <<unread, queue, credited>>
  BY CompleteIs
<1>2. Calm
  BY <1>1 DEF Calm
<1>3. PICK r \in Requests : r = job[1]
  BY <1>1 DEF Types
<1>4. CASE ~r.live
  <2>1. \A d \in Calls : call'[d] = call[d]
    BY <1>1, <1>3, <1>4, AnsweredIs
  <2>2. Moves /\ BeforeInv'
    BY <1>1, <1>2, <2>1, BeforeKept DEF Moves, InFlight, UserInv
  <2> QED
    BY <1>1, <2>2, UserStill
<1>5. CASE r.live
  <2>1. PICK c \in Calls : c = r.by /\ Home[c] = r.tree
    BY <1>1, <1>3, <1>5 DEF WaitInv, Waits
  <2>2. \/ Goes(c, "running") /\ call[c].pc = "pre"
        \/ Ends(c) /\ call[c].pc = "post"
    BY <1>1, <1>3, <1>5, <2>1, AnsweredIs
  <2>3. \A f \in Files : User \notin unread'[Home[c]][f]
    BY <1>1, <1>3, <1>5, <2>1 DEF CoverInv, ReadInv
  <2>4. BeforeInv'
    BY <1>1, <1>2, <2>2, <2>3, BeforeKept DEF UserInv, Goes, Ends
  <2>5. Moves
    BY <2>2, GoesMoves DEF InFlight, Phases
  <2> QED
    BY <1>1, <2>4, <2>5, UserStill
<1> QED
  BY <1>4, <1>5

LEMMA ApplyKeepsUser ==
    ASSUME EditInv, UserInv, Apply
    PROVE  UserInv'
<1> USE DEF EditInv
<1>1. PICK r \in Requests :
         /\ queue # <<>> /\ r = queue[1] /\ queue' = Tail(queue)
         /\ credited' = credited \cup {<<a, Kind(r)>> : a \in UNION {TextOf(r)[f] : f \in Files}}
         /\ UNCHANGED <<mtime, stat, snaps, call>>
  BY ApplyIs
<1>2. /\ 1 \in 1..Len(queue)
      /\ \A i \in 1..Len(queue') : i + 1 \in 1..Len(queue) /\ queue'[i] = queue[i + 1]
  BY <1>1, PoppedQueue
<1>3. Calm /\ Grows
  BY <1>1, ApplyCalm, FilesStay
<1>4. BeforeInv'
  BY <1>1, <1>3, BeforeKept DEF UserInv
<1>5. UserTextInv'
  BY <1>1, <1>2 DEF UserInv, UserTextInv, InFlight
<1>6. ASSUME NEW f \in Files, User \in TextOf(r)[f], Kind(r) = "ai"
      PROVE  \E c \in Calls : call[c].pc = "stopped"
  <2>1. CASE r.live
    <3>1. Waits(r)
      BY <1>1, <1>2, <2>1 DEF WaitInv
    <3>2. r.kind = "ai"
      BY <1>6, <3>1 DEF Waits, Kind
    <3>3. call[r.by].pc = "post" /\ r.by \in Calls /\ r.tree = Home[r.by]
      BY <3>1, <3>2 DEF Waits
    <3>4. User \in unread[r.tree][f]
      BY <1>6, <2>1 DEF TextOf, FilesOf
    <3> QED
      BY <3>3, <3>4 DEF UserInv, BeforeInv
  <2>2. CASE ~r.live
    <3>1. User \in r.text[f]
      BY <1>6, <2>2 DEF TextOf
    <3>2. r.kind # "ai" /\ (r.kind = "commit" => \A c \in Calls : Home[c] = r.tree => ~InFlight(c))
      BY <1>1, <1>2, <3>1 DEF UserInv, UserTextInv
    <3>3. r.kind = "commit" /\ ActiveBash(r.tree)
      BY <1>6, <3>2 DEF Kind
    <3>4. PICK i \in DOMAIN snaps : snaps[i].tree = r.tree
      BY <3>3 DEF ActiveBash
    <3>5. i \in Calls /\ call[i].pc \in {"pre", "running", "stopped"} /\ Home[i] = r.tree
      BY <3>4 DEF SnapInv, Types
    <3> QED
      BY <3>2, <3>3, <3>5 DEF InFlight
  <2> QED
    BY <2>1, <2>2
<1>7. UserStaysHuman'
  <2> SUFFICES ASSUME <<User, "ai">> \in credited'
               PROVE  \E c \in Calls : call[c].pc = "stopped"
    BY <1>1 DEF UserStaysHuman
  <2>1. CASE <<User, "ai">> \in credited
    BY <2>1 DEF UserInv, UserStaysHuman
  <2>2. CASE Kind(r) = "ai" /\ \E f \in Files : User \in TextOf(r)[f]
    BY <1>6, <2>2
  <2> QED
    BY <1>1, <2>1, <2>2
<1> QED
  BY <1>4, <1>5, <1>7 DEF UserInv

LEMMA StepKeepsUser ==
    ASSUME Distinct, Patient, ~Lag, EditInv, CoverInv, UserInv, [Next]_vars
    PROVE  UserInv'
<1> USE DEF EditInv
<1>1. CASE Tick \/ UNCHANGED vars
  <2>1. UNCHANGED <<mtime, stat, unread, queue, credited, call>>
    BY <1>1 DEF Tick, vars, fileVars, hookVars, daemonVars
  <2>2. BeforeInv'
    BY <2>1, FilesStay, BeforeKept DEF Calm, UserInv
  <2> QED
    BY <2>1, <2>2, UserStill DEF Moves, InFlight
<1>2. CASE Apply
  BY <1>2, ApplyKeepsUser
<1>3. CASE Complete
  BY <1>3, CompleteKeepsUser
<1>4. CASE \E t \in Trees, f \in Files : UserWrites(t, f)
  BY <1>4, UserWritesKeepsUser
<1>5. CASE \E a \in Authors, t \in Trees : Commit(a, t)
  BY <1>5, CommitKeepsUser
<1>6. ASSUME NEW c \in Calls, NEW f \in Files, CallWrites(c, f)
      PROVE  UserInv'
  <2>1. Calm /\ Grows /\ UNCHANGED <<call, queue, credited>>
    BY <1>6, CallWritesCalm
  <2>2. BeforeInv'
    BY <2>1, BeforeKept DEF UserInv
  <2> QED
    BY <2>1, <2>2, UserStill DEF Moves, InFlight
<1>7. ASSUME NEW c \in Calls, HookStep(c) \/ Abort(c)
      PROVE  UserInv'
  <2>1. CASE PreQuery(c)
    BY <2>1, QueryKeepsUser
  <2>2. CASE PreSnapshot(c)
    BY <2>2, PreSnapshotKeepsUser
  <2>3. CASE PostLoad(c)
    <3>1. /\ call[c].pc = "running" /\ call'[c].pc = "loaded"
          /\ \A d \in Calls : d # c => call'[d] = call[d]
          /\ UNCHANGED <<mtime, stat, unread, queue, credited>>
      BY <2>3, LoadIs
    <3>2. Calm /\ Grows /\ Moves
      BY <3>1, FilesStay DEF Calm, Moves, InFlight
    <3>3. \A f \in Files : User \notin unread'[Home[c]][f]
      BY <3>1 DEF UserInv, BeforeInv
    <3>4. BeforeInv'
      BY <3>1, <3>2, <3>3, BeforeKept DEF UserInv
    <3> QED
      BY <3>1, <3>2, <3>4, UserStill
  <2>4. CASE PostSnapshot(c)
    BY <2>4, PostSnapshotKeepsUser
  <2>5. CASE Abort(c)
    <3>1. /\ Goes(c, "stopped") /\ call[c].pc = "running"
          /\ UNCHANGED <<mtime, stat, unread, queue, credited>>
      BY <2>5, PhaseIs DEF Abort, Phases, fileVars, daemonVars
    <3>2. Calm /\ Grows /\ Moves
      BY <3>1, FilesStay, GoesMoves DEF Calm, InFlight, Phases
    <3>3. BeforeInv'
      BY <3>1, <3>2, BeforeKept DEF UserInv, Goes
    <3> QED
      BY <3>1, <3>2, <3>3, UserStill
  <2> QED
    BY <1>7, <2>1, <2>2, <2>3, <2>4, <2>5 DEF HookStep
<1> QED
  BY <1>1, <1>2, <1>3, <1>4, <1>5, <1>6, <1>7 DEF Next

\* What the user wrote before a command is never credited to an agent, by a
\* checkpoint of the hooks or by the replay of a commit, unless some agent was
\* stopped: in one worktree, when no hook runs ahead of the replay of earlier
\* commits (pre_tool_use, scan_active_bash_snapshots).
THEOREM UsersKeepTheirs ==
    ASSUME Distinct, Patient, ~Lag
    PROVE  Spec => []UserStaysHuman
<1>1. Init => UserInv
  BY DEF Init, UserInv, BeforeInv, UserTextInv, UserStaysHuman, Idle
<1>2. EditInv /\ CoverInv /\ UserInv /\ [Next]_vars => UserInv'
  BY StepKeepsUser
<1>3. UserInv => UserStaysHuman
  BY DEF UserInv
<1> QED
  BY <1>1, <1>2, <1>3, CoverHolds, PTL DEF Spec
=============================================================================
