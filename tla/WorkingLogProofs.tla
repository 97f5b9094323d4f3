--------------------------- MODULE WorkingLogProofs ---------------------------
(***************************************************************************)
(* The working log of a file, for any number of agents, lines, edits and   *)
(* commits, however their checkpoints and the commit interleave.           *)
(***************************************************************************)
EXTENDS WorkingLog, FiniteSetTheorems, TLAPS

Pcs == {"idle", "hooked", "edited", "lock", "read", "entries", "write", "clear", "git",
        "refresh", "rewrite", "attribute", "note", "initial", "archive"}

Entry == [kind : Authors, blob : SUBSET Lines, attr : Attributions, lines : Attributions,
          added : Nat, deleted : Nat]
Initial == [content : SUBSET Lines, attr : Attributions]
Log == [cps : Seq(Entry), cut : BOOLEAN, init : Initial, marked : BOOLEAN]
Process == [pc : Pcs, kind : Authors, base : Commits, text : SUBSET Lines, skip : BOOLEAN,
            cps : Seq(Entry), blob : SUBSET Lines, write : Seq(Entry), note : Attributions,
            init : Initial]
Tree == [lines : SUBSET Lines, by : [Lines -> Authors]]
Keys == Authors \X (SUBSET Lines) \X Nat \X Nat

\* Before git makes the commit there is room for it.
AfterGit == {"idle", "refresh", "rewrite", "attribute", "note", "initial", "archive"}

Types ==
    /\ content \in SUBSET Lines
    /\ wrote \in [Lines -> Authors]
    /\ edits \in 0..MaxEdits /\ faults \in 0..MaxFaults
    /\ tree \in Seq(Tree) /\ Len(tree) \in 1..(MaxCommits + 1)
    /\ log \in [Commits -> Log]
    /\ lock \in [Commits -> Procs \cup {Nobody}]
    /\ proc \in [Procs -> Process]
    /\ note \in [Commits -> SUBSET Attributions]
    /\ appended \in [Commits -> SUBSET Keys]
    /\ \A p \in Procs : proc[p].base <= head
    /\ proc[Committer].pc \in AfterGit \/ head < MaxCommits
    /\ \A p \in Procs : proc[p].pc = "write" => proc[p].write # <<>>

-----------------------------------------------------------------------------
(* Constants and data.                                                      *)

LEMMA LinesAreFinite ==
    ASSUME NEW S \in SUBSET Lines
    PROVE  IsFiniteSet(S) /\ Cardinality(S) \in Nat /\ S \subseteq Nat
BY LinesAssumption, FS_Subset, FS_CardinalityType

LEMMA Attributing ==
    /\ NoAttr \in Attributions
    /\ \A S \in SUBSET Lines : [S -> Authors] \subseteq Attributions
    /\ \A a \in Attributions : DOMAIN a \in SUBSET Lines /\ a \in [DOMAIN a -> Authors]
<1>1. NoAttr \in [{} -> Authors]
  BY DEF NoAttr
<1> QED
  BY <1>1 DEF Attributions

\* A nonempty set of natural numbers below some bound has a maximum: of the sets
\* of its members that are at least x, one is the smallest.
LEMMA MaxIsIn ==
    ASSUME NEW n \in Nat, NEW S \in SUBSET (1..n), S # {}
    PROVE  Max(S) \in S /\ \A y \in S : Max(S) >= y
<1> DEFINE From(x) == {y \in S : y >= x}
           T == {From(x) : x \in S}
           R == StrictSubsetOrdering(S)
<1>1. IsFiniteSet(S)
  <2>1. IsFiniteSet(1..n)
    BY FS_Interval
  <2> QED
    BY <2>1, FS_Subset
<1>2. IsWellFoundedOn(R, FiniteSubsetsOf(S))
  BY FS_StrictSubsetOrderingWellFounded
<1>3. T \subseteq FiniteSubsetsOf(S) /\ T # {}
  <2>1. FiniteSubsetsOf(S) = SUBSET S
    BY <1>1, FS_FiniteSubsetsOfFinite
  <2>2. \A x \in S : From(x) \in SUBSET S
    OBVIOUS
  <2> HIDE DEF From
  <2>3. T \subseteq SUBSET S
    BY <2>2
  <2>4. T # {}
    BY S # {}
  <2> QED
    BY <2>1, <2>3, <2>4
<1> HIDE DEF R
<1>4. PICK u \in T : \A v \in T : ~(<<v, u>> \in R)
  <2> HIDE DEF T
  <2> QED
    BY <1>2, <1>3, WFMin
<1>5. PICK x \in S : u = From(x)
  BY <1>4
<1>6. \A y \in S : x >= y
  <2> SUFFICES ASSUME NEW y \in S, ~(x >= y)
               PROVE  FALSE
    OBVIOUS
  <2>1. x \in Int /\ y \in Int /\ y > x /\ \A z \in S : z \in Int
    OBVIOUS
  <2>2. x \in From(x) /\ x \notin From(y)
    BY <2>1
  <2>3. \A z \in S : z >= y => z >= x
    BY <2>1
  <2>4. From(y) \subseteq From(x)
    BY <2>3
  <2>5. <<From(y), From(x)>> \in R
    BY <2>2, <2>4 DEF R, StrictSubsetOrdering
  <2> QED
    BY <1>4, <1>5, <2>5
<1> QED
  BY <1>6 DEF Max

\* What a checkpoint writes.
LEMMA EntryIsOne ==
    ASSUME NEW kind \in Authors, NEW pre, NEW hl \in SUBSET Lines, NEW cps \in Seq(Entry),
           NEW init \in Initial, NEW blob \in SUBSET Lines, NEW text \in SUBSET Lines
    PROVE  LET cp == CheckpointEntry(kind, pre, hl, cps, init, blob, text)
           IN  cp = <<>> \/ \E e \in Entry : cp = <<e>>
<1> DEFINE prev    == Previous(kind, hl, cps, init, text)
           touched == AiTouched(cps, init)
           attr    == IF kind = Human /\ ~touched THEN NoAttr
                      ELSE UpdateAttributions(prev.blob, prev.attr, text, kind)
           e == [kind |-> kind, blob |-> blob, attr |-> attr, lines |-> LineAttributions(attr),
                 added |-> Cardinality(text \ prev.blob), deleted |-> Cardinality(prev.blob \ text)]
<1>1. Human \in Authors
  BY DEF Authors
<1>2. prev.blob \in SUBSET Lines /\ prev.attr \in Attributions
  <2>1. CASE cps # <<>>
    <3>1. Last(cps) \in Entry
      BY <2>1 DEF Last
    <3> QED
      BY <2>1, <3>1 DEF Previous, Entry
  <2>2. CASE cps = <<>> /\ init.attr = NoAttr
    BY <2>2, Attributing DEF Previous, FromInitial
  <2>3. CASE cps = <<>> /\ init.attr # NoAttr
    <3> DEFINE covered == {NumberIn(init.content, x) : x \in DOMAIN init.attr}
               taken == {x \in init.content :
                            LET n == NumberIn(init.content, x)
                            IN  /\ IsAi(kind) /\ n \notin covered
                                /\ n > Cardinality(hl)
                                /\ n <= Cardinality(text)}
               a == [x \in taken \cup DOMAIN init.attr |->
                        IF x \in DOMAIN init.attr THEN init.attr[x] ELSE kind]
    <3>1. prev = [blob |-> init.content, attr |-> a]
      BY <2>3 DEF Previous, FromInitial
    <3>2. init.content \in SUBSET Lines /\ init.attr \in Attributions
      BY DEF Initial
    <3>3. taken \cup DOMAIN init.attr \in SUBSET Lines
      BY <3>2, Attributing
    <3>4. \A x \in DOMAIN init.attr : init.attr[x] \in Authors
      BY <3>2, Attributing
    <3> HIDE DEF taken
    <3>5. a \in [taken \cup DOMAIN init.attr -> Authors]
      BY <3>4
    <3>6. a \in Attributions
      BY <3>3, <3>5, Attributing
    <3> HIDE DEF a
    <3> QED
      BY <3>1, <3>2, <3>6
  <2> QED
    BY <2>1, <2>2, <2>3
<1> HIDE DEF prev
<1>3. UpdateAttributions(prev.blob, prev.attr, text, kind) \in [text -> Authors]
  BY <1>1, <1>2, Attributing DEF UpdateAttributions, AuthorOf
<1>4. attr \in Attributions
  BY <1>3, Attributing
<1> HIDE DEF attr
<1>5. LineAttributions(attr) \in Attributions
  <2>1. {y \in DOMAIN attr : attr[y] # Human} \in SUBSET Lines
    BY <1>4, Attributing
  <2>2. LineAttributions(attr) \in [{y \in DOMAIN attr : attr[y] # Human} -> Authors]
    BY <1>4, Attributing DEF LineAttributions
  <2> QED
    BY <2>1, <2>2, Attributing
<1>6. Cardinality(text \ prev.blob) \in Nat /\ Cardinality(prev.blob \ text) \in Nat
  BY <1>2, LinesAreFinite
<1>7. e \in Entry
  BY <1>4, <1>5, <1>6 DEF Entry
<1>8. CheckpointEntry(kind, pre, hl, cps, init, blob, text) \in {<<>>, <<e>>}
  BY DEF CheckpointEntry, prev, attr
<1> QED
  BY <1>7, <1>8

-----------------------------------------------------------------------------
(* The types.                                                               *)

LEMMA Names ==
    /\ Editor \in Procs /\ Committer \in Procs /\ Agents \subseteq Procs
    /\ Editor \notin Agents /\ Committer \notin Agents /\ Editor # Committer
    /\ Agents \subseteq Authors /\ Human \in Authors /\ Known \in Authors
    /\ Human \notin Agents /\ Known \notin Agents /\ Human # Known
    /\ Nobody \notin Procs
BY AgentsAssumption DEF Procs, Authors, Editor, Committer, Human, Known, Nobody

LEMMA HeadIsCommit ==
    ASSUME Types
    PROVE  /\ head \in Commits /\ head \in Nat /\ MaxCommits \in Nat
           /\ \A c \in 0..head : TreeOf(c) \in SUBSET Lines /\ tree[c + 1] \in Tree
<1>1. MaxCommits \in Nat
  BY BoundsAssumption
<1>2. Len(tree) \in 1..(MaxCommits + 1) /\ tree \in Seq(Tree)
  BY DEF Types
<1>3. \A c \in 0..head : c + 1 \in 1..Len(tree)
  BY <1>1, <1>2 DEF head
<1>4. \A c \in 0..head : tree[c + 1] \in Tree
  BY <1>2, <1>3
<1> QED
  BY <1>1, <1>2, <1>4 DEF head, Commits, TreeOf, Tree

LEMMA IdleIsProcess ==
    /\ Idle \in Process /\ Idle.pc = "idle" /\ Idle.base = 0
    /\ \A k \in Authors, p \in Procs :
          LET q == AfterCheckpoint(p, k)
          IN  /\ q \in Process /\ q.base = 0
              /\ q.pc \in {"idle", "hooked", "git"}
              /\ q.pc = "git" => p = Committer
              /\ q.pc = "hooked" => p \in Agents
<1>1. 0 \in Commits
  BY BoundsAssumption DEF Commits
<1>2. Idle \in Process /\ Idle.pc = "idle" /\ Idle.base = 0
  BY <1>1, Names, Attributing DEF Idle, Process, Pcs, Initial, NoInitial
<1>3. /\ [Idle EXCEPT !.pc = "hooked"] \in Process
      /\ [Idle EXCEPT !.pc = "hooked"].pc = "hooked" /\ [Idle EXCEPT !.pc = "hooked"].base = 0
      /\ [Idle EXCEPT !.pc = "git"] \in Process
      /\ [Idle EXCEPT !.pc = "git"].pc = "git" /\ [Idle EXCEPT !.pc = "git"].base = 0
  BY <1>2 DEF Process, Pcs
<1> QED
  BY <1>2, <1>3, Names DEF AfterCheckpoint

\* One process moves.
Moves(p, q) == proc' = [proc EXCEPT ![p] = q]

Fits(p, q) ==
    /\ q \in Process /\ q.base <= head
    /\ q.pc = "write" => q.write # <<>>
    /\ p = Committer => q.pc \in AfterGit \/ head < MaxCommits

LEMMA ProcMoves ==
    ASSUME Types, NEW p \in Procs, NEW q, Fits(p, q), Moves(p, q), UNCHANGED tree
    PROVE  /\ proc' \in [Procs -> Process]
           /\ (\A r \in Procs : proc[r].base <= head)'
           /\ (proc[Committer].pc \in AfterGit \/ head < MaxCommits)'
           /\ (\A r \in Procs : proc[r].pc = "write" => proc[r].write # <<>>)'
           /\ \A r \in Procs : proc'[r] = IF r = p THEN q ELSE proc[r]
<1>1. proc \in [Procs -> Process]
  BY DEF Types
<1>2. \A r \in Procs : proc'[r] = IF r = p THEN q ELSE proc[r]
  BY <1>1 DEF Moves
<1>3. proc' \in [Procs -> Process]
  BY <1>1 DEF Moves, Fits
<1>4. head' = head
  BY DEF head
<1>5. Committer \in Procs
  BY Names
<1>6. (\A r \in Procs : proc[r].base <= head)'
  BY <1>2, <1>4 DEF Types, Fits
<1>7. (proc[Committer].pc \in AfterGit \/ head < MaxCommits)'
  BY <1>2, <1>4, <1>5 DEF Types, Fits
<1>8. (\A r \in Procs : proc[r].pc = "write" => proc[r].write # <<>>)'
  BY <1>2 DEF Types, Fits
<1> QED
  BY <1>2, <1>3, <1>6, <1>7, <1>8

\* Of a process that goes on in the same part of its work.
LEMMA StepsOn ==
    ASSUME Types, NEW p \in Procs, NEW q \in Process, q.base = proc[p].base,
           q.pc = "write" => q.write # <<>>,
           proc[p].pc \in AfterGit => q.pc \in AfterGit
    PROVE  Fits(p, q)
BY DEF Types, Fits

LEMMA EndsFit ==
    ASSUME Types, NEW p \in Procs, NEW k \in Authors
    PROVE  /\ Fits(p, Idle)
           /\ (proc[p].pc \notin AfterGit => Fits(p, AfterCheckpoint(p, k)))
<1>1. head \in Nat
  BY HeadIsCommit
<1> QED
  BY <1>1, IdleIsProcess DEF Fits, Types, AfterGit

LEMMA InitTypes == Init => Types
<1> SUFFICES ASSUME Init PROVE Types
  OBVIOUS
<1>1. MaxEdits \in Nat /\ MaxCommits \in Nat /\ MaxFaults \in Nat
  BY BoundsAssumption
<1>2. EmptyLog \in Log
  BY Attributing DEF EmptyLog, Log, NoInitial, Initial
<1>3. wrote \in [Lines -> Authors] /\ content \in SUBSET Lines
  BY Names DEF Init
<1>4. tree \in Seq(Tree) /\ Len(tree) = 1
  <2>1. [lines |-> {}, by |-> wrote] \in Tree
    BY <1>3 DEF Tree
  <2> QED
    BY <2>1 DEF Init
<1>5. head = 0
  BY <1>4 DEF head
<1>6. log \in [Commits -> Log] /\ lock \in [Commits -> Procs \cup {Nobody}]
  BY <1>2 DEF Init
<1>7. proc \in [Procs -> Process] /\ \A p \in Procs : proc[p].pc = "idle" /\ proc[p].base = 0
  BY IdleIsProcess DEF Init
<1>8. note \in [Commits -> SUBSET Attributions] /\ appended \in [Commits -> SUBSET Keys]
  BY DEF Init
<1>9. proc[Committer].pc \in AfterGit
  BY <1>7, Names DEF AfterGit
<1>10. edits \in 0..MaxEdits /\ faults \in 0..MaxFaults
  BY <1>1 DEF Init
<1> QED
  BY <1>1, <1>3, <1>4, <1>5, <1>6, <1>7, <1>8, <1>9, <1>10 DEF Types

LEMMA EditTypes ==
    ASSUME Types, NEW by \in Authors, NEW x \in Lines, Add(by, x)
    PROVE  /\ content' \in SUBSET Lines /\ wrote' \in [Lines -> Authors]
           /\ edits' \in 0..MaxEdits
<1>1. MaxEdits \in Nat
  BY BoundsAssumption
<1> QED
  BY <1>1 DEF Types, Add

\* A checkpoint is asked for.
LEMMA ResolveTypes ==
    ASSUME Types, NEW p \in Procs, NEW k \in Authors, Resolve(p, k),
           p = Committer => head < MaxCommits
    PROVE  \E q : Fits(p, q) /\ Moves(p, q)
<1> DEFINE l == log[head]
           unseen == ~l.cut /\ \A i \in DOMAIN l.cps : ~IsAi(l.cps[i].kind)
           skipped == \/ content = TreeOf(head)
                      \/ p = Committer /\ (l.cut \/ unseen) /\ l.init.attr = NoAttr
           asked == [Idle EXCEPT !.pc = "lock", !.kind = k, !.base = head,
                                 !.text = content, !.skip = skipped]
           q == IF skipped /\ ~IsAi(k) THEN AfterCheckpoint(p, k) ELSE asked
<1>1. Moves(p, q)
  BY DEF Resolve, Moves
<1>2. head \in Commits /\ head \in Nat
  BY HeadIsCommit
<1>3. content \in SUBSET Lines /\ skipped \in BOOLEAN
  BY DEF Types
<1> HIDE DEF skipped
<1>4. asked \in Process /\ asked.base = head /\ asked.pc = "lock"
  BY <1>2, <1>3, IdleIsProcess DEF Process, Pcs
<1>5. Fits(p, asked)
  BY <1>2, <1>4 DEF Fits
<1>6. Fits(p, AfterCheckpoint(p, k))
  BY <1>2, IdleIsProcess DEF Fits
<1>7. Fits(p, q)
  BY <1>5, <1>6
<1> QED
  BY <1>1, <1>7

\* The log of one commit is written.
LEMMA LogMoves ==
    ASSUME Types, NEW c \in Commits, NEW l \in Log, log' = [log EXCEPT ![c] = l]
    PROVE  log' \in [Commits -> Log] /\ \A d \in Commits : log'[d] = IF d = c THEN l ELSE log[d]
BY DEF Types

LEMMA LogParts ==
    ASSUME NEW l \in Log
    PROVE  /\ l.cps \in Seq(Entry) /\ l.cut \in BOOLEAN /\ l.init \in Initial /\ l.marked \in BOOLEAN
           /\ \A s \in Seq(Entry) : [l EXCEPT !.cps = s] \in Log
           /\ \A b \in BOOLEAN : [l EXCEPT !.cut = b] \in Log /\ [l EXCEPT !.marked = b] \in Log
           /\ \A i \in Initial : [l EXCEPT !.init = i] \in Log
BY DEF Log

KeysOf(cps) == {DedupeKey(cps[i]) : i \in DOMAIN cps}

\* Pruning keeps every entry but for its character attributions.
LEMMA PruneKeeps ==
    ASSUME NEW cps \in Seq(Entry)
    PROVE  LET w == PruneOldCharAttributions(cps)
           IN  /\ w \in Seq(Entry) /\ Len(w) = Len(cps) /\ DOMAIN w = DOMAIN cps
               /\ \A i \in DOMAIN cps :
                     /\ w[i].kind = cps[i].kind /\ w[i].blob = cps[i].blob
                     /\ w[i].lines = cps[i].lines
                     /\ w[i].attr = IF i = Len(cps) THEN cps[i].attr ELSE NoAttr
                     /\ DedupeKey(w[i]) = DedupeKey(cps[i])
<1> DEFINE w == PruneOldCharAttributions(cps)
<1>1. Len(cps) \in Nat /\ DOMAIN cps = 1..Len(cps) /\ \A i \in DOMAIN cps : cps[i] \in Entry
  OBVIOUS
<1>2. \A i \in DOMAIN cps : /\ [cps[i] EXCEPT !.attr = NoAttr] \in Entry
                            /\ [cps[i] EXCEPT !.attr = NoAttr].kind = cps[i].kind
                            /\ [cps[i] EXCEPT !.attr = NoAttr].blob = cps[i].blob
                            /\ [cps[i] EXCEPT !.attr = NoAttr].lines = cps[i].lines
                            /\ [cps[i] EXCEPT !.attr = NoAttr].added = cps[i].added
                            /\ [cps[i] EXCEPT !.attr = NoAttr].deleted = cps[i].deleted
                            /\ [cps[i] EXCEPT !.attr = NoAttr].attr = NoAttr
  BY <1>1, Attributing DEF Entry
<1>3. /\ DOMAIN w = 1..Len(cps)
      /\ \A i \in 1..Len(cps) : w[i] = IF i = Len(cps) THEN cps[i]
                                       ELSE [cps[i] EXCEPT !.attr = NoAttr]
  BY <1>1 DEF PruneOldCharAttributions
<1>4. w \in [1..Len(cps) -> Entry]
  <2>1. w = [i \in 1..Len(cps) |-> IF i = Len(cps) THEN cps[i] ELSE [cps[i] EXCEPT !.attr = NoAttr]]
    BY <1>1 DEF PruneOldCharAttributions
  <2> QED
    BY <1>1, <1>2, <2>1
<1> HIDE DEF w
<1>5. w \in Seq(Entry) /\ Len(w) = Len(cps)
  BY <1>1, <1>4
<1>6. \A i \in 1..Len(cps) : DedupeKey(w[i]) = DedupeKey(cps[i])
  BY <1>1, <1>2, <1>3 DEF DedupeKey
<1> QED
  BY <1>1, <1>2, <1>3, <1>5, <1>6 DEF w

LEMMA EntryKey == \A e \in Entry : DedupeKey(e) \in Keys
BY DEF Entry, DedupeKey, Keys

LEMMA VirtualTypes ==
    ASSUME NEW cps \in Seq(Entry), NEW init \in Initial
    PROVE  VirtualAttributions(cps, init) \in Attributions
<1> DEFINE telling == {i \in DOMAIN cps : cps[i].attr # NoAttr \/ cps[i].lines # NoAttr}
<1>1. CASE telling = {}
  BY <1>1 DEF VirtualAttributions, Initial
<1>2. CASE telling # {}
  <2>1. telling \in SUBSET (1..Len(cps)) /\ Len(cps) \in Nat
    OBVIOUS
  <2>2. Max(telling) \in telling
    BY <1>2, <2>1, MaxIsIn
  <2>3. cps[Max(telling)] \in Entry
    BY <2>1, <2>2
  <2> QED
    BY <1>2, <2>3 DEF VirtualAttributions, Entry
<1> QED
  BY <1>1, <1>2

LEMMA OnlyTypes ==
    ASSUME NEW a \in Attributions, NEW S
    PROVE  Only(a, S) \in Attributions
<1>1. DOMAIN a \cap S \in SUBSET Lines
  BY Attributing
<1>2. Only(a, S) \in [DOMAIN a \cap S -> Authors]
  BY Attributing DEF Only
<1> QED
  BY <1>1, <1>2, Attributing

\* What p would write.
EntryOf(p) ==
    CheckpointEntry(proc[p].kind, p = Committer, TreeOf(proc[p].base), proc[p].cps,
                    log[proc[p].base].init, proc[p].blob, TextOf(p))

LEMMA WhatItWrites ==
    ASSUME Types, NEW p \in Procs
    PROVE  /\ proc[p] \in Process /\ proc[p].base \in Commits /\ log[proc[p].base] \in Log
           /\ TextOf(p) \in SUBSET Lines
           /\ EntryOf(p) = <<>> \/ \E e \in Entry : EntryOf(p) = <<e>>
<1>1. proc[p] \in Process /\ proc[p].base \in Commits /\ log[proc[p].base] \in Log
  BY DEF Types, Process
<1>2. proc[p].base \in 0..head
  BY <1>1 DEF Types, Commits
<1>3. TreeOf(proc[p].base) \in SUBSET Lines
  BY <1>2, HeadIsCommit
<1>4. TextOf(p) \in SUBSET Lines
  BY <1>1 DEF TextOf, Types, Process
<1>5. /\ proc[p].kind \in Authors /\ proc[p].cps \in Seq(Entry) /\ proc[p].blob \in SUBSET Lines
      /\ log[proc[p].base].init \in Initial
  BY <1>1, LogParts DEF Process
<1>6. EntryOf(p) = <<>> \/ \E e \in Entry : EntryOf(p) = <<e>>
  BY <1>3, <1>4, <1>5, EntryIsOne DEF EntryOf
<1> QED
  BY <1>1, <1>4, <1>6

\* What the other variables must be when one process moves.
LEMMA MoveTypes ==
    ASSUME Types, NEW p \in Procs, NEW q, Fits(p, q), Moves(p, q), UNCHANGED tree,
           content' \in SUBSET Lines, wrote' \in [Lines -> Authors], edits' \in 0..MaxEdits,
           faults' \in 0..MaxFaults,
           log' \in [Commits -> Log], lock' \in [Commits -> Procs \cup {Nobody}],
           note' \in [Commits -> SUBSET Attributions], appended' \in [Commits -> SUBSET Keys]
    PROVE  Types'
<1>1. tree' \in Seq(Tree) /\ Len(tree') \in 1..(MaxCommits + 1)
  BY DEF Types
<1> QED
  BY <1>1, ProcMoves DEF Types

\* A lock is taken or released by the process at its base.
LEMMA LockTypes ==
    ASSUME Types, NEW c, NEW h \in Procs \cup {Nobody}, lock' = [lock EXCEPT ![c] = h]
    PROVE  lock' \in [Commits -> Procs \cup {Nobody}]
BY DEF Types

LEMMA CheckpointTypes ==
    ASSUME Types, NEW p \in Procs, Checkpoint(p)
    PROVE  Types'
<1> DEFINE me == proc[p]
           b == me.base
           l == log[b]
<1>0. /\ me \in Process /\ b \in Commits /\ l \in Log /\ TextOf(p) \in SUBSET Lines
      /\ me.kind \in Authors /\ me.write \in Seq(Entry)
  BY WhatItWrites DEF Process
<1>1. ASSUME Acquire(p) PROVE Types'
  <2> DEFINE q == [me EXCEPT !.pc = "read"]
  <2>1. Moves(p, q) /\ lock' = [lock EXCEPT ![b] = p] /\ me.pc = "lock"
    BY <1>1 DEF Acquire, Moves
  <2>2. q \in Process /\ q.base = b /\ q.pc = "read"
    BY <1>0 DEF Process, Pcs
  <2>3. Fits(p, q)
    BY <2>1, <2>2, StepsOn DEF AfterGit
  <2> HIDE DEF q
  <2> QED
    BY <1>1, <2>1, <2>3, LockTypes, MoveTypes DEF Acquire, Types
<1>2. ASSUME Leave(p), me.pc \notin AfterGit, log' \in [Commits -> Log],
             UNCHANGED <<content, wrote, edits, tree, note, appended, faults>>
      PROVE  Types'
  <2>1. Moves(p, AfterCheckpoint(p, me.kind)) /\ lock' = [lock EXCEPT ![b] = Nobody]
    BY <1>2 DEF Leave, Moves, Types
  <2> QED
    BY <1>0, <1>2, <2>1, EndsFit, LockTypes, MoveTypes DEF Types
<1>3. ASSUME ReadAndSave(p) PROVE Types'
  <2> DEFINE q == [me EXCEPT !.pc = "entries", !.blob = TextOf(p), !.cps = l.cps]
  <2>1. CASE Leave(p)
    BY <1>2, <1>3, <2>1 DEF ReadAndSave, AfterGit, Types
  <2>2. CASE ~Leave(p)
    <3>1. Moves(p, q) /\ UNCHANGED lock /\ me.pc = "read"
      BY <1>3, <2>2 DEF ReadAndSave, Moves
    <3>2. q \in Process /\ q.base = b /\ q.pc = "entries"
      BY <1>0, LogParts DEF Process, Pcs
    <3>3. Fits(p, q)
      BY <3>1, <3>2, StepsOn DEF AfterGit
    <3> HIDE DEF q
    <3> QED
      BY <1>3, <3>1, <3>3, MoveTypes DEF ReadAndSave, Types
  <2> QED
    BY <2>1, <2>2
<1>4. ASSUME Entries(p) PROVE Types'
  <2> DEFINE cp == EntryOf(p)
             known == cp # <<>> /\ \E i \in DOMAIN l.cps : DedupeKey(l.cps[i]) = DedupeKey(cp[1])
             done == [me EXCEPT !.pc = "clear"]
             w == PruneOldCharAttributions(l.cps \o cp)
             q == [me EXCEPT !.pc = "write", !.write = w]
  <2>1. /\ me.pc = "entries"
        /\ IF me.skip \/ cp = <<>> \/ known THEN Moves(p, done) /\ UNCHANGED log
           ELSE Moves(p, q) /\ log' = [log EXCEPT ![b].cps = <<>>]
        /\ UNCHANGED <<content, wrote, edits, tree, lock, note, appended, faults>>
    BY <1>4 DEF Entries, EntryOf, Moves
  <2>2. CASE me.skip \/ cp = <<>> \/ known
    <3>1. done \in Process /\ done.base = b /\ done.pc = "clear"
      BY <1>0 DEF Process, Pcs
    <3>2. Fits(p, done)
      BY <2>1, <3>1, StepsOn DEF AfterGit
    <3> HIDE DEF done, known, cp
    <3> QED
      BY <2>1, <2>2, <3>2, MoveTypes DEF Types
  <2>3. CASE ~(me.skip \/ cp = <<>> \/ known)
    <3>1. PICK e \in Entry : cp = <<e>>
      BY <2>3, WhatItWrites
    <3>2. l.cps \in Seq(Entry)
      BY <1>0, LogParts
    <3>3. l.cps \o cp \in Seq(Entry) /\ Len(l.cps \o cp) = Len(l.cps) + 1 /\ Len(l.cps) \in Nat
      BY <3>1, <3>2
    <3>4. w \in Seq(Entry) /\ Len(w) = Len(l.cps) + 1
      BY <3>3, PruneKeeps
    <3> HIDE DEF w
    <3>5. q \in Process /\ q.base = b /\ q.pc = "write" /\ q.write # <<>>
      <4>1. w # <<>>
        BY <3>3, <3>4
      <4> QED
        BY <1>0, <3>4, <4>1 DEF Process, Pcs
    <3>6. Fits(p, q)
      BY <2>1, <3>5, StepsOn DEF AfterGit
    <3>7. log' \in [Commits -> Log]
      <4>1. [l EXCEPT !.cps = <<>>] \in Log
        BY <1>0, <<>> \in Seq(Entry), LogParts
      <4>2. log' = [log EXCEPT ![b] = [l EXCEPT !.cps = <<>>]]
        BY <2>1, <2>3
      <4> QED
        BY <1>0, <4>1, <4>2, LogMoves
    <3> HIDE DEF q, w, known, cp
    <3> QED
      BY <2>1, <2>3, <3>6, <3>7, MoveTypes DEF Types
  <2> QED
    BY <2>2, <2>3
<1>5. ASSUME Write(p) PROVE Types'
  <2> DEFINE q == [me EXCEPT !.pc = "clear"]
             key == DedupeKey(Last(me.write))
  <2>1. Moves(p, q) /\ me.pc = "write"
    BY <1>5 DEF Write, Moves
  <2>2. q \in Process /\ q.base = b /\ q.pc = "clear"
    BY <1>0 DEF Process, Pcs
  <2>3. Fits(p, q)
    BY <2>1, <2>2, StepsOn DEF AfterGit
  <2>4. log' \in [Commits -> Log]
    <3>1. [l EXCEPT !.cps = me.write] \in Log
      BY <1>0, LogParts
    <3>2. log' = [log EXCEPT ![b] = [l EXCEPT !.cps = me.write]]
      BY <1>5 DEF Write
    <3> QED
      BY <1>0, <3>1, <3>2, LogMoves
  <2>5. key \in Keys
    <3>1. me.write # <<>>
      BY <2>1 DEF Types
    <3>2. Last(me.write) \in Entry
      BY <1>0, <3>1 DEF Last
    <3> QED
      BY <3>2, EntryKey
  <2>6. appended' \in [Commits -> SUBSET Keys]
    <3>1. appended' = [appended EXCEPT ![b] = @ \cup {key}]
      BY <1>5 DEF Write
    <3> HIDE DEF key
    <3> QED
      BY <1>0, <2>5, <3>1 DEF Types
  <2> HIDE DEF q
  <2> QED
    BY <1>5, <2>1, <2>3, <2>4, <2>6, MoveTypes DEF Write, Types
<1>6. ASSUME Clear(p) PROVE Types'
  <2> DEFINE m == l.marked /\ ~IsAi(me.kind)
  <2>1. log' \in [Commits -> Log]
    <3>1. log' = [log EXCEPT ![b] = [l EXCEPT !.marked = m]]
      BY <1>6 DEF Clear
    <3>2. m \in BOOLEAN
      BY <1>0, LogParts
    <3> HIDE DEF m
    <3>3. [l EXCEPT !.marked = m] \in Log
      BY <1>0, <3>2, LogParts
    <3> QED
      BY <1>0, <3>1, <3>3, LogMoves
  <2> QED
    BY <1>2, <1>6, <2>1 DEF Clear, AfterGit
<1> QED
  BY <1>1, <1>3, <1>4, <1>5, <1>6 DEF Checkpoint

LEMMA PostCommitTypes ==
    ASSUME Types, NEW p \in Procs, PostCommit(p)
    PROVE  Types'
<1> DEFINE me == proc[p]
           b == me.base
           l == log[b]
<1>0. /\ me \in Process /\ b \in Commits /\ l \in Log
      /\ me.write \in Seq(Entry) /\ me.note \in Attributions /\ me.init \in Initial
  BY WhatItWrites DEF Process
<1>1. ASSUME Refresh(p) PROVE Types'
  <2>1. CASE l.cut
    <3>1. Moves(p, Idle) /\ UNCHANGED <<log, lock>>
      BY <1>1, <2>1 DEF Refresh, Moves
    <3> QED
      BY <1>1, <3>1, EndsFit, <1>0, MoveTypes, Names DEF Refresh, Types
  <2>2. CASE ~l.cut
    <3> DEFINE q == [me EXCEPT !.pc = "rewrite", !.write = l.cps]
    <3>1. /\ Moves(p, q) /\ lock' = [lock EXCEPT ![b] = p] /\ me.pc = "refresh"
          /\ log' = [log EXCEPT ![b] = [l EXCEPT !.cps = <<>>]]
      BY <1>1, <2>2 DEF Refresh, Moves
    <3>2. q \in Process /\ q.base = b /\ q.pc = "rewrite"
      BY <1>0, LogParts DEF Process, Pcs
    <3>3. Fits(p, q)
      BY <3>1, <3>2, StepsOn DEF AfterGit
    <3>4. log' \in [Commits -> Log]
      <4>1. [l EXCEPT !.cps = <<>>] \in Log
        BY <1>0, <<>> \in Seq(Entry), LogParts
      <4> QED
        BY <1>0, <3>1, <4>1, LogMoves
    <3> HIDE DEF q
    <3> QED
      BY <1>1, <3>1, <3>3, <3>4, LockTypes, MoveTypes DEF Refresh, Types
  <2> QED
    BY <2>1, <2>2
<1>2. ASSUME Rewrite(p) PROVE Types'
  <2> DEFINE q == [me EXCEPT !.pc = "attribute"]
  <2>1. /\ Moves(p, q) /\ me.pc = "rewrite"
        /\ log' = [log EXCEPT ![b] = [l EXCEPT !.cps = me.write]]
        /\ lock' = [lock EXCEPT ![b] = IF lock[b] = p THEN Nobody ELSE lock[b]]
    BY <1>2 DEF Rewrite, Moves
  <2>2. q \in Process /\ q.base = b /\ q.pc = "attribute"
    BY <1>0 DEF Process, Pcs
  <2>3. Fits(p, q)
    BY <2>1, <2>2, StepsOn DEF AfterGit
  <2>4. log' \in [Commits -> Log]
    <3>1. [l EXCEPT !.cps = me.write] \in Log
      BY <1>0, LogParts
    <3> QED
      BY <1>0, <2>1, <3>1, LogMoves
  <2>5. lock' \in [Commits -> Procs \cup {Nobody}]
    BY <1>0, <2>1 DEF Types
  <2> HIDE DEF q
  <2> QED
    BY <1>2, <2>1, <2>3, <2>4, <2>5, MoveTypes DEF Rewrite, Types
<1>3. ASSUME Attribute(p) PROVE Types'
  <2> DEFINE va == VirtualAttributions(IF l.cut THEN <<>> ELSE l.cps, l.init)
             n == Only(va, TreeOf(head) \ TreeOf(b))
             i == [content |-> content, attr |-> Only(va, content \ TreeOf(head))]
             q == [me EXCEPT !.pc = "note", !.note = n, !.init = i]
  <2>1. Moves(p, q) /\ me.pc = "attribute"
    BY <1>3 DEF Attribute, Moves
  <2>2. va \in Attributions
    <3>1. (IF l.cut THEN <<>> ELSE l.cps) \in Seq(Entry) /\ l.init \in Initial
      BY <1>0, LogParts
    <3> QED
      BY <3>1, VirtualTypes
  <2> HIDE DEF va
  <2>3. n \in Attributions /\ i \in Initial
    BY <2>2, OnlyTypes DEF Initial, Types
  <2> HIDE DEF n, i
  <2>4. q \in Process /\ q.base = b /\ q.pc = "note"
    BY <1>0, <2>3 DEF Process, Pcs
  <2>5. Fits(p, q)
    BY <2>1, <2>4, StepsOn DEF AfterGit
  <2> HIDE DEF q
  <2> QED
    BY <1>3, <2>1, <2>5, MoveTypes DEF Attribute, Types
<1>4. ASSUME AddNote(p) PROVE Types'
  <2> DEFINE q == [me EXCEPT !.pc = "initial"]
  <2>1. Moves(p, q) /\ me.pc = "note" /\ note' = [note EXCEPT ![head] = {me.note}]
    BY <1>4 DEF AddNote, Moves
  <2>2. q \in Process /\ q.base = b /\ q.pc = "initial"
    BY <1>0 DEF Process, Pcs
  <2>3. Fits(p, q)
    BY <2>1, <2>2, StepsOn DEF AfterGit
  <2>4. note' \in [Commits -> SUBSET Attributions]
    BY <1>0, <2>1 DEF Types
  <2> HIDE DEF q
  <2> QED
    BY <1>4, <2>1, <2>3, <2>4, MoveTypes DEF AddNote, Types
<1>5. ASSUME WriteInitial(p) PROVE Types'
  <2> DEFINE q == [me EXCEPT !.pc = "archive"]
  <2>1. Moves(p, q) /\ me.pc = "initial"
    BY <1>5 DEF WriteInitial, Moves
  <2>2. q \in Process /\ q.base = b /\ q.pc = "archive"
    BY <1>0 DEF Process, Pcs
  <2>3. Fits(p, q)
    BY <2>1, <2>2, StepsOn DEF AfterGit
  <2>4. log' \in [Commits -> Log]
    <3>1. CASE UNCHANGED log
      BY <3>1 DEF Types
    <3>2. CASE log' = [log EXCEPT ![head] = [log[head] EXCEPT !.init = me.init]]
      <4>1. head \in Commits /\ log[head] \in Log
        BY HeadIsCommit DEF Types
      <4>2. [log[head] EXCEPT !.init = me.init] \in Log
        BY <1>0, <4>1, LogParts
      <4> QED
        BY <3>2, <4>1, <4>2, LogMoves
    <3> QED
      BY <1>5, <3>1, <3>2 DEF WriteInitial
  <2> HIDE DEF q
  <2> QED
    BY <1>5, <2>1, <2>3, <2>4, MoveTypes DEF WriteInitial, Types
<1>6. ASSUME Archive(p) PROVE Types'
  <2>1. Moves(p, Idle) /\ log' = [log EXCEPT ![b] = EmptyLog]
    BY <1>6 DEF Archive, Moves
  <2>2. EmptyLog \in Log
    BY Attributing DEF EmptyLog, Log, NoInitial, Initial
  <2>3. log' \in [Commits -> Log]
    BY <1>0, <2>1, <2>2, LogMoves
  <2>4. appended' \in [Commits -> SUBSET Keys]
    BY <1>6 DEF Archive, Types
  <2> QED
    BY <1>0, <1>6, <2>1, <2>3, <2>4, EndsFit, MoveTypes, Names DEF Archive, Types
<1> QED
  BY <1>1, <1>2, <1>3, <1>4, <1>5, <1>6 DEF PostCommit

LEMMA OtherTypes ==
    ASSUME Types
    PROVE  /\ \A x \in Lines : HumanAdds(x) \/ HumanRemoves(x) => Types'
           /\ \A a \in Agents : BeforeEdit(a) \/ AfterEdit(a) => Types'
           /\ \A a \in Agents, x \in Lines : AgentEdits(a, x) => Types'
           /\ Save \/ CommitStarts => Types'
           /\ \A staged \in SUBSET content : GitCommit(staged) => Types'
           /\ \A p \in Procs : Killed(p) \/ LockTimeout(p) => Types'
<1>0. /\ MaxEdits \in Nat /\ MaxFaults \in Nat /\ MaxCommits \in Nat
      /\ \A p \in Procs : proc[p] \in Process /\ proc[p].base \in Commits /\ proc[p].kind \in Authors
  BY BoundsAssumption, WhatItWrites DEF Process
<1>1. ASSUME NEW x \in Lines, HumanAdds(x) \/ HumanRemoves(x) PROVE Types'
  <2>1. /\ content' \in SUBSET Lines /\ wrote' \in [Lines -> Authors] /\ edits' \in 0..MaxEdits
    BY <1>0, <1>1, EditTypes, Names DEF HumanAdds, HumanRemoves, Types
  <2>2. UNCHANGED <<tree, log, lock, proc, note, appended, faults>>
    BY <1>1 DEF HumanAdds, HumanRemoves
  <2> QED
    BY <2>1, <2>2 DEF Types, head
<1>2. ASSUME NEW a \in Agents, BeforeEdit(a) \/ AfterEdit(a) PROVE Types'
  <2>1. a \in Procs /\ a # Committer /\ a \in Authors /\ Human \in Authors
    BY Names
  <2>2. Resolve(a, Human) \/ Resolve(a, a)
    BY <1>2 DEF BeforeEdit, AfterEdit
  <2>3. PICK q : Fits(a, q) /\ Moves(a, q)
    BY <2>1, <2>2, ResolveTypes
  <2>4. log' \in [Commits -> Log]
    <3>1. CASE UNCHANGED log
      BY <3>1 DEF Types
    <3>2. CASE BeforeEdit(a)
      <4> DEFINE m == log[head].marked \/ a \in Marks
      <4>1. head \in Commits /\ log[head] \in Log
        BY HeadIsCommit DEF Types
      <4>2. log' = [log EXCEPT ![head] = [log[head] EXCEPT !.marked = m]]
        BY <3>2 DEF BeforeEdit
      <4>3. m \in BOOLEAN
        BY <4>1, LogParts
      <4> HIDE DEF m
      <4>4. [log[head] EXCEPT !.marked = m] \in Log
        BY <4>1, <4>3, LogParts
      <4> QED
        BY <4>1, <4>2, <4>4, LogMoves
    <3> QED
      BY <1>2, <3>1, <3>2 DEF AfterEdit
  <2>5. UNCHANGED <<content, wrote, edits, tree, lock, note, appended, faults>>
    BY <1>2 DEF BeforeEdit, AfterEdit
  <2> QED
    BY <2>1, <2>3, <2>4, <2>5, MoveTypes DEF Types
<1>3. ASSUME NEW a \in Agents, NEW x \in Lines, AgentEdits(a, x) PROVE Types'
  <2> DEFINE q == [proc[a] EXCEPT !.pc = "edited"]
  <2>1. a \in Procs /\ a # Committer /\ a \in Authors
    BY Names
  <2>2. Moves(a, q)
    BY <1>3 DEF AgentEdits, Moves
  <2>3. q \in Process /\ q.base = proc[a].base /\ q.pc = "edited"
    BY <1>0, <2>1 DEF Process, Pcs
  <2>4. Fits(a, q)
    BY <2>1, <2>3 DEF Fits, Types
  <2>5. /\ content' \in SUBSET Lines /\ wrote' \in [Lines -> Authors] /\ edits' \in 0..MaxEdits
    BY <1>3, <2>1, EditTypes DEF AgentEdits
  <2>6. UNCHANGED <<tree, log, lock, note, appended, faults>>
    BY <1>3 DEF AgentEdits
  <2> HIDE DEF q
  <2> QED
    BY <2>1, <2>2, <2>4, <2>5, <2>6, MoveTypes DEF Types
<1>4. ASSUME Save PROVE Types'
  <2>1. PICK q : Fits(Editor, q) /\ Moves(Editor, q)
    BY <1>4, Names, ResolveTypes DEF Save
  <2>2. UNCHANGED <<content, wrote, edits, tree, log, lock, note, appended, faults>>
    BY <1>4 DEF Save
  <2> QED
    BY <2>1, <2>2, Names, MoveTypes DEF Types
<1>5. ASSUME CommitStarts PROVE Types'
  <2>1. PICK q : Fits(Committer, q) /\ Moves(Committer, q)
    BY <1>5, Names, ResolveTypes DEF CommitStarts
  <2>2. UNCHANGED <<content, wrote, edits, tree, log, lock, note, appended, faults>>
    BY <1>5 DEF CommitStarts
  <2> QED
    BY <2>1, <2>2, Names, MoveTypes DEF Types
<1>6. ASSUME NEW staged \in SUBSET content, GitCommit(staged) PROVE Types'
  <2> DEFINE t == [lines |-> staged, by |-> wrote]
             q == [proc[Committer] EXCEPT !.pc = "refresh", !.base = head]
  <2>1. t \in Tree /\ tree' = Append(tree, t)
    BY <1>6 DEF GitCommit, Types, Tree
  <2>2. head < MaxCommits /\ head \in Commits /\ head \in Nat
    BY <1>6, HeadIsCommit DEF GitCommit, Types, AfterGit
  <2>3. tree' \in Seq(Tree) /\ Len(tree') = Len(tree) + 1 /\ Len(tree) \in Nat
    BY <2>1 DEF Types
  <2>4. Len(tree') \in 1..(MaxCommits + 1) /\ head' = head + 1
    BY <1>0, <2>2, <2>3 DEF head
  <2>5. proc' = [proc EXCEPT ![Committer] = q] /\ q \in Process /\ q.base = head /\ q.pc = "refresh"
    <3>1. proc[Committer] \in Process
      BY <1>0, Names
    <3>2. q \in Process /\ q.base = head /\ q.pc = "refresh"
      BY <2>2, <3>1 DEF Process, Pcs
    <3>3. proc' = [proc EXCEPT ![Committer] = q]
      BY <1>6 DEF GitCommit
    <3> QED
      BY <3>2, <3>3
  <2> HIDE DEF q
  <2>6. /\ proc' \in [Procs -> Process]
        /\ \A r \in Procs : proc'[r] = IF r = Committer THEN q ELSE proc[r]
    BY <2>5, Names DEF Types
  <2>7. \A r \in Procs : proc'[r].base <= head'
    <3>1. \A r \in Procs : proc[r].base <= head /\ proc[r].base \in Nat
      BY <1>0 DEF Types, Commits
    <3> QED
      BY <2>2, <2>4, <2>5, <2>6, <3>1
  <2>8. proc'[Committer].pc \in AfterGit
    BY <2>5, <2>6, Names DEF AfterGit
  <2>9. \A r \in Procs : proc'[r].pc = "write" => proc'[r].write # <<>>
    BY <2>5, <2>6 DEF Types
  <2>10. UNCHANGED <<content, wrote, edits, log, lock, note, appended, faults>>
    BY <1>6 DEF GitCommit
  <2> HIDE DEF t
  <2> QED
    BY <2>3, <2>4, <2>6, <2>7, <2>8, <2>9, <2>10 DEF Types
<1>7. ASSUME NEW p \in Procs, Killed(p) PROVE Types'
  <2>1. Moves(p, Idle) /\ faults' \in 0..MaxFaults
    BY <1>0, <1>7 DEF Killed, Moves, Types
  <2>2. log' \in [Commits -> Log]
    <3>1. CASE UNCHANGED log
      BY <3>1 DEF Types
    <3>2. ASSUME NEW cut \in BOOLEAN,
                 log' = [log EXCEPT ![proc[p].base] = [log[proc[p].base] EXCEPT !.cut = cut]]
          PROVE  log' \in [Commits -> Log]
      <4>1. log[proc[p].base] \in Log
        BY <1>0 DEF Types
      <4>2. [log[proc[p].base] EXCEPT !.cut = cut] \in Log
        BY <4>1, LogParts
      <4> QED
        BY <1>0, <3>2, <4>2, LogMoves
    <3> QED
      BY <1>7, <3>1, <3>2 DEF Killed
  <2>3. lock' \in [Commits -> Procs \cup {Nobody}]
    BY <1>7 DEF Killed, Types
  <2>4. UNCHANGED <<content, wrote, edits, tree, note, appended>>
    BY <1>7 DEF Killed
  <2>5. Fits(p, Idle)
    BY <1>0, EndsFit
  <2> QED
    BY <2>1, <2>2, <2>3, <2>4, <2>5, MoveTypes DEF Types
<1>8. ASSUME NEW p \in Procs, LockTimeout(p) PROVE Types'
  <2> DEFINE q == IF proc[p].pc = "lock" THEN AfterCheckpoint(p, proc[p].kind) ELSE Idle
  <2>1. Moves(p, q) /\ faults' \in 0..MaxFaults
    BY <1>0, <1>8 DEF LockTimeout, Moves, Types
  <2>2. Fits(p, q)
    <3>1. CASE proc[p].pc = "lock"
      BY <1>0, <3>1, EndsFit DEF AfterGit
    <3>2. CASE proc[p].pc # "lock"
      BY <1>0, <3>2, EndsFit
    <3> QED
      BY <3>1, <3>2
  <2>3. UNCHANGED <<content, wrote, edits, tree, log, lock, note, appended>>
    BY <1>8 DEF LockTimeout
  <2> HIDE DEF q
  <2> QED
    BY <2>1, <2>2, <2>3, MoveTypes DEF Types
<1> QED
  BY <1>1, <1>2, <1>3, <1>4, <1>5, <1>6, <1>7, <1>8

LEMMA TypesStep == Types /\ [Next]_vars => Types'
<1> SUFFICES ASSUME Types, [Next]_vars PROVE Types'
  OBVIOUS
<1>1. CASE Next
  BY <1>1, Names, CheckpointTypes, PostCommitTypes, OtherTypes DEF Next
<1>2. CASE UNCHANGED vars
  BY <1>2 DEF vars, Types, head
<1> QED
  BY <1>1, <1>2

(* The working log, its processes and what they have read have their types  *)
(* in every state, and no process works at a commit that does not exist.    *)
THEOREM WorkingLogTypeCorrect == Spec => []TypeOK
<1>1. Types => TypeOK
  <2> SUFFICES ASSUME Types PROVE TypeOK
    OBVIOUS
  <2>1. \A c \in Commits : log[c] \in Log
    BY DEF Types
  <2>2. \A c \in Commits : /\ log[c].init.attr \in Attributions
                           /\ \A i \in DOMAIN log[c].cps : log[c].cps[i] \in Entry
    BY <2>1, LogParts DEF Initial
  <2>3. \A p \in Procs : proc[p].base \in 0..head
    BY HeadIsCommit DEF Types, Process, Commits
  <2> QED
    BY <2>2, <2>3 DEF Types, TypeOK, Entry
<1> QED
  BY <1>1, InitTypes, TypesStep, PTL DEF Spec

-----------------------------------------------------------------------------
(* What is written stays.                                                   *)

Holding == {"read", "entries", "write", "clear", "rewrite"}
Writing == {"write", "rewrite"}

\* As long as no process is killed or gives up, who works on a log has its lock.
Exclusion == \A p \in Procs : proc[p].pc \in Holding => lock[proc[p].base] = p

WritesAt(p, c) == proc[p].pc \in Writing /\ proc[p].base = c

\* What was written to a log is in it, or in the hands of the process that is
\* writing it anew.
Kept ==
    /\ \A c \in Commits : (\A p \in Procs : ~WritesAt(p, c)) =>
          appended[c] \subseteq KeysOf(log[c].cps)
    /\ \A c \in Commits, p \in Procs : WritesAt(p, c) =>
          appended[c] \subseteq KeysOf(proc[p].write)

Undisturbed == faults = 0 => Exclusion /\ Kept

\* A process moves and neither takes nor releases a lock, nor writes.
LEMMA QuietKeeps ==
    ASSUME Types, Exclusion, Kept, NEW p \in Procs, NEW q,
           \A r \in Procs : proc'[r] = IF r = p THEN q ELSE proc[r],
           UNCHANGED <<lock, appended>>, \A c \in Commits : log'[c].cps = log[c].cps,
           proc[p].pc \notin Writing,
           q.pc \notin Writing,
           q.pc \in Holding => proc[p].pc \in Holding /\ q.base = proc[p].base
    PROVE  Exclusion' /\ Kept'
<1>1. Exclusion'
  BY DEF Exclusion
<1>2. \A c \in Commits : KeysOf(log'[c].cps) = KeysOf(log[c].cps) /\ appended'[c] = appended[c]
  OBVIOUS
<1>4. \A c \in Commits, r \in Procs : WritesAt(r, c)' <=> WritesAt(r, c)
  BY DEF WritesAt
<1>5. \A c \in Commits, r \in Procs : WritesAt(r, c) => proc'[r] = proc[r]
  BY DEF WritesAt
<1>6. Kept'
  BY <1>2, <1>4, <1>5 DEF Kept, KeysOf
<1> QED
  BY <1>1, <1>6

\* The lock of a log changes hands between nobody and p.
LEMMA ExclusionKept ==
    ASSUME Types, Exclusion, NEW p \in Procs, NEW q, NEW b \in Commits, NEW h,
           \A r \in Procs : proc'[r] = IF r = p THEN q ELSE proc[r],
           lock' = [lock EXCEPT ![b] = h], lock[b] \in {Nobody, p},
           q.pc \in Holding => q.base = b /\ h = p
    PROVE  Exclusion'
<1>1. \A r \in Procs : r # p /\ proc[r].pc \in Holding => proc[r].base # b
  BY Names DEF Exclusion
<1>2. \A r \in Procs : proc[r].base \in Commits
  BY WhatItWrites
<1> QED
  BY <1>1, <1>2 DEF Exclusion, Types

\* Who has the lock of b is the only one that writes its log.
LEMMA OnlyOneWrites ==
    ASSUME Types, Exclusion, NEW p \in Procs, NEW b \in Commits, lock[b] \in {Nobody, p}
    PROVE  \A r \in Procs : r # p => ~WritesAt(r, b)
BY Names DEF Exclusion, Holding, Writing, WritesAt

\* A step at b, of a process that has its lock, leaves the other logs alone.
LEMMA KeptAt ==
    ASSUME Types, Exclusion, Kept, NEW p \in Procs, NEW q, NEW b \in Commits,
           \A r \in Procs : proc'[r] = IF r = p THEN q ELSE proc[r],
           proc[p].base = b, lock[b] \in {Nobody, p},
           \A c \in Commits : c # b => appended'[c] = appended[c] /\ log'[c].cps = log[c].cps,
           IF q.pc \in Writing THEN q.base = b /\ appended'[b] \subseteq KeysOf(q.write)
           ELSE appended'[b] \subseteq KeysOf(log'[b].cps)
    PROVE  Kept'
<1>1. \A r \in Procs : r # p => ~WritesAt(r, b)
  BY OnlyOneWrites
<1>2. \A r \in Procs, c \in Commits : r # p => (WritesAt(r, c)' <=> WritesAt(r, c))
  BY DEF WritesAt
<1>3. \A c \in Commits : c # b => ~WritesAt(p, c) /\ ~WritesAt(p, c)'
  BY DEF WritesAt
<1>4. WritesAt(p, b)' <=> q.pc \in Writing
  BY DEF WritesAt
<1>5. ASSUME NEW c \in Commits, \A r \in Procs : ~WritesAt(r, c)'
      PROVE  appended'[c] \subseteq KeysOf(log'[c].cps)
  <2>1. CASE c = b
    BY <1>4, <1>5, <2>1
  <2>2. CASE c # b
    <3>1. \A r \in Procs : ~WritesAt(r, c)
      BY <1>2, <1>3, <1>5, <2>2
    <3>2. appended[c] \subseteq KeysOf(log[c].cps)
      BY <3>1 DEF Kept
    <3> QED
      BY <2>2, <3>2
  <2> QED
    BY <2>1, <2>2
<1>6. ASSUME NEW c \in Commits, NEW r \in Procs, WritesAt(r, c)'
      PROVE  appended'[c] \subseteq KeysOf(proc'[r].write)
  <2>1. CASE r = p
    BY <1>3, <1>4, <1>6, <2>1
  <2>2. CASE r # p
    <3>1. WritesAt(r, c) /\ c # b /\ proc'[r] = proc[r]
      BY <1>1, <1>2, <1>6, <2>2
    <3>2. appended[c] \subseteq KeysOf(proc[r].write)
      BY <3>1 DEF Kept
    <3> QED
      BY <3>1, <3>2
  <2> QED
    BY <2>1, <2>2
<1> QED
  BY <1>5, <1>6 DEF Kept, KeysOf

\* What p finds in a log that it has the lock of.
LEMMA FoundInLog ==
    ASSUME Types, Exclusion, Kept, NEW p \in Procs, NEW b \in Commits, proc[p].base = b,
           lock[b] \in {Nobody, p}
    PROVE  /\ proc[p].pc \notin Writing => appended[b] \subseteq KeysOf(log[b].cps)
           /\ proc[p].pc \in Writing => appended[b] \subseteq KeysOf(proc[p].write)
BY OnlyOneWrites DEF Kept, WritesAt

\* The keys of a log and of what is appended to it.
LEMMA KeysGrow ==
    ASSUME NEW s \in Seq(Entry), NEW e \in Entry
    PROVE  LET w == PruneOldCharAttributions(s \o <<e>>)
           IN  KeysOf(s) \subseteq KeysOf(w)
<1> DEFINE t == s \o <<e>>
           w == PruneOldCharAttributions(t)
<1>1. /\ t \in Seq(Entry) /\ DOMAIN s \subseteq DOMAIN t
      /\ \A i \in DOMAIN s : t[i] = s[i]
  OBVIOUS
<1> HIDE DEF t
<1>2. DOMAIN w = DOMAIN t /\ \A i \in DOMAIN t : DedupeKey(w[i]) = DedupeKey(t[i])
  BY <1>1, PruneKeeps
<1> HIDE DEF w
<1>3. KeysOf(s) \subseteq KeysOf(w)
  <2> SUFFICES ASSUME NEW i \in DOMAIN s
               PROVE  DedupeKey(s[i]) \in KeysOf(w)
    BY DEF KeysOf
  <2>1. i \in DOMAIN w /\ DedupeKey(w[i]) = DedupeKey(s[i])
    BY <1>1, <1>2
  <2> QED
    BY <2>1 DEF KeysOf
<1> QED
  BY <1>3 DEF w, t

LEMMA CheckpointKeeps ==
    ASSUME Types, Exclusion, Kept, NEW p \in Procs, Checkpoint(p)
    PROVE  Exclusion' /\ Kept'
<1> DEFINE me == proc[p]
           b == me.base
           l == log[b]
<1>0. /\ me \in Process /\ b \in Commits /\ l \in Log /\ me.kind \in Authors
      /\ l.cps \in Seq(Entry) /\ me.write \in Seq(Entry)
      /\ \A c \in Commits : log[c] \in Log
  BY WhatItWrites, LogParts DEF Process, Types
<1>1. ASSUME NEW q, Moves(p, q)
      PROVE  \A r \in Procs : proc'[r] = IF r = p THEN q ELSE proc[r]
  BY <1>1 DEF Moves, Types
<1>2. ASSUME Acquire(p) PROVE Exclusion' /\ Kept'
  <2> DEFINE q == [me EXCEPT !.pc = "read"]
  <2>1. /\ Moves(p, q) /\ lock' = [lock EXCEPT ![b] = p] /\ me.pc = "lock"
        /\ lock[b] = Nobody /\ UNCHANGED <<log, appended>>
    BY <1>2 DEF Acquire, Moves
  <2>2. q.base = b /\ q.pc = "read"
    BY <1>0 DEF Process
  <2> HIDE DEF q
  <2>3. \A r \in Procs : proc'[r] = IF r = p THEN q ELSE proc[r]
    BY <1>1, <2>1
  <2>4. Exclusion'
    BY <1>0, <2>1, <2>2, <2>3, ExclusionKept
  <2>5. appended[b] \subseteq KeysOf(log[b].cps)
    BY <1>0, <2>1, FoundInLog DEF Writing
  <2>6. Kept'
    BY <1>0, <2>1, <2>2, <2>3, <2>5, KeptAt DEF Writing
  <2> QED
    BY <2>4, <2>6
<1>3. ASSUME Leave(p), me.pc \in {"read", "clear"}, UNCHANGED appended,
             \A c \in Commits : log'[c].cps = log[c].cps /\ (c # b => log'[c] = log[c])
      PROVE  Exclusion' /\ Kept'
  <2> DEFINE q == AfterCheckpoint(p, me.kind)
  <2>1. Moves(p, q) /\ lock' = [lock EXCEPT ![b] = Nobody] /\ lock[b] = p
    BY <1>3 DEF Leave, Moves, Exclusion, Holding, Types
  <2>2. q.pc \notin Holding
    BY <1>0, IdleIsProcess DEF Holding
  <2> HIDE DEF q
  <2>3. \A r \in Procs : proc'[r] = IF r = p THEN q ELSE proc[r]
    BY <1>1, <2>1
  <2>4. Exclusion'
    BY <1>0, <2>1, <2>2, <2>3, ExclusionKept
  <2>5. appended[b] \subseteq KeysOf(log[b].cps)
    BY <1>0, <1>3, <2>1, FoundInLog DEF Writing
  <2>6. appended'[b] \subseteq KeysOf(log'[b].cps)
    BY <1>0, <1>3, <2>5
  <2>7. Kept'
    BY <1>0, <1>3, <2>1, <2>2, <2>3, <2>6, KeptAt DEF Holding, Writing
  <2> QED
    BY <2>4, <2>7
<1>4. ASSUME ReadAndSave(p) PROVE Exclusion' /\ Kept'
  <2> DEFINE q == [me EXCEPT !.pc = "entries", !.blob = TextOf(p), !.cps = l.cps]
  <2>1. CASE Leave(p)
    BY <1>3, <1>4, <2>1 DEF ReadAndSave
  <2>2. CASE ~Leave(p)
    <3>1. Moves(p, q) /\ UNCHANGED <<lock, log, appended>> /\ me.pc = "read"
      BY <1>4, <2>2 DEF ReadAndSave, Moves
    <3>2. q.base = b /\ q.pc = "entries"
      BY <1>0 DEF Process
    <3> HIDE DEF q
    <3>3. \A r \in Procs : proc'[r] = IF r = p THEN q ELSE proc[r]
      BY <1>1, <3>1
    <3> QED
      BY <3>1, <3>2, <3>3, QuietKeeps DEF Holding, Writing
  <2> QED
    BY <2>1, <2>2
<1>5. ASSUME Entries(p) PROVE Exclusion' /\ Kept'
  <2> DEFINE cp == EntryOf(p)
             known == cp # <<>> /\ \E i \in DOMAIN l.cps : DedupeKey(l.cps[i]) = DedupeKey(cp[1])
             done == [me EXCEPT !.pc = "clear"]
             w == PruneOldCharAttributions(l.cps \o cp)
             q == [me EXCEPT !.pc = "write", !.write = w]
  <2>1. /\ me.pc = "entries"
        /\ IF me.skip \/ cp = <<>> \/ known THEN Moves(p, done) /\ UNCHANGED log
           ELSE Moves(p, q) /\ log' = [log EXCEPT ![b].cps = <<>>]
        /\ UNCHANGED <<lock, appended>>
    BY <1>5 DEF Entries, EntryOf, Moves
  <2>2. CASE me.skip \/ cp = <<>> \/ known
    <3>1. done.base = b /\ done.pc = "clear"
      BY <1>0 DEF Process
    <3>2. Moves(p, done) /\ UNCHANGED log
      BY <2>1, <2>2
    <3> HIDE DEF done, known, cp
    <3>3. \A r \in Procs : proc'[r] = IF r = p THEN done ELSE proc[r]
      BY <1>1, <3>2
    <3> QED
      BY <2>1, <3>1, <3>2, <3>3, QuietKeeps DEF Holding, Writing
  <2>3. CASE ~(me.skip \/ cp = <<>> \/ known)
    <3>1. PICK e \in Entry : cp = <<e>>
      BY <2>3, WhatItWrites
    <3>2. KeysOf(l.cps) \subseteq KeysOf(w)
      BY <1>0, <3>1, KeysGrow
    <3>3. Moves(p, q) /\ log' = [log EXCEPT ![b].cps = <<>>]
      BY <2>1, <2>3
    <3> HIDE DEF w
    <3>4. q.base = b /\ q.pc = "write" /\ q.write = w
      BY <1>0 DEF Process
    <3> HIDE DEF q, known, cp
    <3>5. \A r \in Procs : proc'[r] = IF r = p THEN q ELSE proc[r]
      BY <1>1, <3>3
    <3>6. lock[b] = p
      BY <2>1 DEF Exclusion, Holding
    <3>7. Exclusion'
      BY <1>0, <2>1, <3>4, <3>5, <3>6 DEF Exclusion, Holding
    <3>8. appended[b] \subseteq KeysOf(l.cps)
      BY <1>0, <2>1, <3>6, FoundInLog DEF Writing
    <3>9. \A c \in Commits : c # b => appended'[c] = appended[c] /\ log'[c] = log[c]
      BY <2>1, <3>3 DEF Types
    <3>10. q.pc \in Writing /\ q.base = b /\ appended'[b] \subseteq KeysOf(q.write)
      BY <2>1, <3>2, <3>4, <3>8 DEF Writing
    <3>11. Kept'
      BY <1>0, <3>5, <3>6, <3>9, <3>10, KeptAt
    <3> QED
      BY <3>7, <3>11
  <2> QED
    BY <2>2, <2>3
<1>6. ASSUME Clear(p) PROVE Exclusion' /\ Kept'
  <2>1. \A c \in Commits : log'[c].cps = log[c].cps /\ (c # b => log'[c] = log[c])
    BY <1>0, <1>6 DEF Clear, Types, Log
  <2> QED
    BY <1>3, <1>6, <2>1 DEF Clear
<1>7. ASSUME Write(p) PROVE Exclusion' /\ Kept'
  <2> DEFINE q == [me EXCEPT !.pc = "clear"]
             key == DedupeKey(Last(me.write))
  <2>1. Moves(p, q) /\ me.pc = "write" /\ UNCHANGED lock
    BY <1>7 DEF Write, Moves
  <2>2. q.base = b /\ q.pc = "clear"
    BY <1>0 DEF Process
  <2> HIDE DEF q
  <2>3. \A r \in Procs : proc'[r] = IF r = p THEN q ELSE proc[r]
    BY <1>1, <2>1
  <2>4. /\ log' = [log EXCEPT ![b].cps = me.write]
        /\ appended' = [appended EXCEPT ![b] = @ \cup {key}]
    BY <1>7 DEF Write
  <2>5. lock[b] = p /\ Exclusion'
    BY <2>1, <2>2, <2>3 DEF Exclusion, Holding
  <2>6. appended[b] \subseteq KeysOf(me.write)
    BY <1>0, <2>1, <2>5, FoundInLog DEF Writing
  <2>7. key \in KeysOf(me.write)
    <3>1. me.write # <<>>
      BY <2>1 DEF Types
    <3>2. Len(me.write) \in DOMAIN me.write /\ Last(me.write) = me.write[Len(me.write)]
      BY <1>0, <3>1 DEF Last
    <3> QED
      BY <3>2 DEF KeysOf
  <2> HIDE DEF key
  <2>8. /\ appended'[b] = appended[b] \cup {key} /\ log'[b].cps = me.write
        /\ \A c \in Commits : c # b => appended'[c] = appended[c] /\ log'[c] = log[c]
    BY <1>0, <2>4, LogParts DEF Types, Log
  <2>9. appended'[b] \subseteq KeysOf(log'[b].cps)
    BY <2>6, <2>7, <2>8
  <2>10. Kept'
    BY <1>0, <2>2, <2>3, <2>5, <2>8, <2>9, KeptAt DEF Writing
  <2> QED
    BY <2>5, <2>10
<1> QED
  BY <1>2, <1>4, <1>5, <1>6, <1>7 DEF Checkpoint

LEMMA PostCommitKeeps ==
    ASSUME Types, Exclusion, Kept, NEW p \in Procs, PostCommit(p)
    PROVE  Exclusion' /\ Kept'
<1> DEFINE me == proc[p]
           b == me.base
           l == log[b]
<1>0. /\ me \in Process /\ b \in Commits /\ l \in Log /\ l.cps \in Seq(Entry)
      /\ me.write \in Seq(Entry) /\ \A c \in Commits : log[c] \in Log
  BY WhatItWrites, LogParts DEF Process, Types
<1>1. ASSUME NEW q, Moves(p, q)
      PROVE  \A r \in Procs : proc'[r] = IF r = p THEN q ELSE proc[r]
  BY <1>1 DEF Moves, Types
<1>2. ASSUME NEW q, Moves(p, q), UNCHANGED <<lock, appended>>,
             \A c \in Commits : log'[c].cps = log[c].cps,
             me.pc \notin Writing, q.pc \notin Holding
      PROVE  Exclusion' /\ Kept'
  <2>1. \A r \in Procs : proc'[r] = IF r = p THEN q ELSE proc[r]
    BY <1>1, <1>2
  <2> QED
    BY <1>2, <2>1, QuietKeeps DEF Holding, Writing
<1>3. ASSUME Refresh(p) PROVE Exclusion' /\ Kept'
  <2>1. CASE l.cut
    <3>1. Moves(p, Idle) /\ UNCHANGED <<log, lock, appended>> /\ me.pc = "refresh"
      BY <1>3, <2>1 DEF Refresh, Moves
    <3> QED
      BY <1>2, <3>1, IdleIsProcess DEF Holding, Writing
  <2>2. CASE ~l.cut
    <3> DEFINE q == [me EXCEPT !.pc = "rewrite", !.write = l.cps]
    <3>1. /\ Moves(p, q) /\ lock' = [lock EXCEPT ![b] = p] /\ me.pc = "refresh"
          /\ lock[b] = Nobody /\ UNCHANGED appended
          /\ log' = [log EXCEPT ![b].cps = <<>>]
      BY <1>3, <2>2 DEF Refresh, Moves
    <3>2. q.base = b /\ q.pc = "rewrite" /\ q.write = l.cps
      BY <1>0 DEF Process
    <3> HIDE DEF q
    <3>3. \A r \in Procs : proc'[r] = IF r = p THEN q ELSE proc[r]
      BY <1>1, <3>1
    <3>4. Exclusion'
      BY <1>0, <3>1, <3>2, <3>3, ExclusionKept
    <3>5. appended[b] \subseteq KeysOf(l.cps)
      BY <1>0, <3>1, FoundInLog DEF Writing
    <3>6. \A c \in Commits : c # b => appended'[c] = appended[c] /\ log'[c] = log[c]
      BY <3>1 DEF Types
    <3>7. Kept'
      BY <1>0, <3>1, <3>2, <3>3, <3>5, <3>6, KeptAt DEF Writing
    <3> QED
      BY <3>4, <3>7
  <2> QED
    BY <2>1, <2>2
<1>4. ASSUME Rewrite(p) PROVE Exclusion' /\ Kept'
  <2> DEFINE q == [me EXCEPT !.pc = "attribute"]
  <2>1. /\ Moves(p, q) /\ me.pc = "rewrite" /\ UNCHANGED appended
        /\ log' = [log EXCEPT ![b].cps = me.write]
        /\ lock' = [lock EXCEPT ![b] = IF lock[b] = p THEN Nobody ELSE lock[b]]
    BY <1>4 DEF Rewrite, Moves
  <2>2. q.base = b /\ q.pc = "attribute"
    BY <1>0 DEF Process
  <2> HIDE DEF q
  <2>3. \A r \in Procs : proc'[r] = IF r = p THEN q ELSE proc[r]
    BY <1>1, <2>1
  <2>4. lock[b] = p
    BY <2>1 DEF Exclusion, Holding
  <2>5. Exclusion'
    BY <1>0, <2>1, <2>2, <2>3, <2>4, ExclusionKept DEF Holding
  <2>6. appended[b] \subseteq KeysOf(me.write)
    BY <1>0, <2>1, <2>4, FoundInLog DEF Writing
  <2>7. log'[b].cps = me.write /\ \A c \in Commits : c # b => log'[c] = log[c]
    BY <1>0, <2>1 DEF Types, Log
  <2>8. Kept'
    BY <1>0, <2>1, <2>2, <2>3, <2>4, <2>6, <2>7, KeptAt DEF Writing
  <2> QED
    BY <2>5, <2>8
<1>5. ASSUME Attribute(p) PROVE Exclusion' /\ Kept'
  <2>1. PICK n, i : Moves(p, [me EXCEPT !.pc = "note", !.note = n, !.init = i])
    BY <1>5 DEF Attribute, Moves
  <2> DEFINE q == [me EXCEPT !.pc = "note", !.note = n, !.init = i]
  <2>2. q.pc = "note"
    BY <1>0 DEF Process
  <2>3. me.pc = "attribute" /\ UNCHANGED <<log, lock, appended>>
    BY <1>5 DEF Attribute
  <2> HIDE DEF q
  <2> QED
    BY <1>2, <2>1, <2>2, <2>3 DEF Holding, Writing, q
<1>6. ASSUME AddNote(p) PROVE Exclusion' /\ Kept'
  <2> DEFINE q == [me EXCEPT !.pc = "initial"]
  <2>1. Moves(p, q) /\ me.pc = "note" /\ UNCHANGED <<log, lock, appended>>
    BY <1>6 DEF AddNote, Moves
  <2>2. q.pc = "initial"
    BY <1>0 DEF Process
  <2> HIDE DEF q
  <2> QED
    BY <1>2, <2>1, <2>2 DEF Holding, Writing
<1>7. ASSUME WriteInitial(p) PROVE Exclusion' /\ Kept'
  <2> DEFINE q == [me EXCEPT !.pc = "archive"]
  <2>1. Moves(p, q) /\ me.pc = "initial" /\ UNCHANGED <<lock, appended>>
    BY <1>7 DEF WriteInitial, Moves
  <2>2. q.pc = "archive"
    BY <1>0 DEF Process
  <2>3. \A c \in Commits : log'[c].cps = log[c].cps
    <3>1. CASE UNCHANGED log
      BY <3>1
    <3>2. CASE log' = [log EXCEPT ![head].init = me.init]
      BY <1>0, <3>2, HeadIsCommit DEF Types, Log
    <3> QED
      BY <1>7, <3>1, <3>2 DEF WriteInitial
  <2> HIDE DEF q
  <2> QED
    BY <1>2, <2>1, <2>2, <2>3 DEF Holding, Writing
<1>8. ASSUME Archive(p) PROVE Exclusion' /\ Kept'
  <2>1. /\ Moves(p, Idle) /\ log' = [log EXCEPT ![b] = EmptyLog] /\ UNCHANGED lock
        /\ appended' = [appended EXCEPT ![b] = {}] /\ me.pc = "archive" /\ lock[b] = Nobody
    BY <1>8 DEF Archive, Moves
  <2>2. \A r \in Procs : proc'[r] = IF r = p THEN Idle ELSE proc[r]
    BY <1>1, <2>1
  <2>3. Exclusion'
    BY <2>1, <2>2, IdleIsProcess DEF Exclusion, Holding
  <2>4. appended'[b] = {} /\ \A c \in Commits : c # b => appended'[c] = appended[c]
                                                        /\ log'[c] = log[c]
    BY <1>0, <2>1 DEF Types
  <2>5. Kept'
    BY <1>0, <2>1, <2>2, <2>4, IdleIsProcess, KeptAt DEF Writing
  <2> QED
    BY <2>3, <2>5
<1> QED
  BY <1>3, <1>4, <1>5, <1>6, <1>7, <1>8 DEF PostCommit

LEMMA OthersKeep ==
    ASSUME Types, Exclusion, Kept
    PROVE  /\ \A x \in Lines : HumanAdds(x) \/ HumanRemoves(x) => Exclusion' /\ Kept'
           /\ \A a \in Agents : BeforeEdit(a) \/ AfterEdit(a) => Exclusion' /\ Kept'
           /\ \A a \in Agents, x \in Lines : AgentEdits(a, x) => Exclusion' /\ Kept'
           /\ Save \/ CommitStarts => Exclusion' /\ Kept'
           /\ \A staged \in SUBSET content : GitCommit(staged) => Exclusion' /\ Kept'
<1>0. /\ \A p \in Procs : proc[p] \in Process /\ \A c \in Commits : log[c] \in Log
      /\ head \in Commits
  BY HeadIsCommit DEF Types
<1>1. ASSUME NEW p \in Procs, NEW q, Moves(p, q), UNCHANGED <<lock, appended>>,
             \A c \in Commits : log'[c].cps = log[c].cps,
             proc[p].pc \notin Writing, q.pc \notin Holding
      PROVE  Exclusion' /\ Kept'
  <2>1. \A r \in Procs : proc'[r] = IF r = p THEN q ELSE proc[r]
    BY <1>1 DEF Moves, Types
  <2> QED
    BY <1>1, <2>1, QuietKeeps DEF Holding, Writing
<1>2. ASSUME NEW x \in Lines, HumanAdds(x) \/ HumanRemoves(x) PROVE Exclusion' /\ Kept'
  BY <1>2 DEF HumanAdds, HumanRemoves, Exclusion, Kept, WritesAt, KeysOf
<1>3. ASSUME NEW p \in Procs, NEW k \in Authors, Resolve(p, k), UNCHANGED <<lock, appended>>,
             \A c \in Commits : log'[c].cps = log[c].cps, proc[p].pc \notin Writing
      PROVE  Exclusion' /\ Kept'
  <2>1. PICK skip : Moves(p, AfterCheckpoint(p, k))
                    \/ Moves(p, [Idle EXCEPT !.pc = "lock", !.kind = k, !.base = head,
                                             !.text = content, !.skip = skip])
    BY <1>3 DEF Resolve, Moves
  <2> DEFINE q == [Idle EXCEPT !.pc = "lock", !.kind = k, !.base = head,
                               !.text = content, !.skip = skip]
  <2>2. AfterCheckpoint(p, k).pc \notin Holding
    BY IdleIsProcess DEF Holding
  <2>3. q.pc = "lock"
    BY DEF Idle
  <2>4. Moves(p, AfterCheckpoint(p, k)) \/ Moves(p, q)
    BY <2>1
  <2> HIDE DEF q
  <2> QED
    BY <1>1, <1>3, <2>2, <2>3, <2>4 DEF Holding
<1>4. ASSUME NEW a \in Agents, BeforeEdit(a) \/ AfterEdit(a) PROVE Exclusion' /\ Kept'
  <2>1. a \in Procs /\ a \in Authors /\ Human \in Authors
    BY Names
  <2>2. \A c \in Commits : log'[c].cps = log[c].cps
    <3> DEFINE m == log[head].marked \/ a \in Marks
    <3>1. UNCHANGED log \/ log' = [log EXCEPT ![head].marked = m]
      BY <1>4 DEF BeforeEdit, AfterEdit
    <3> HIDE DEF m
    <3> QED
      BY <1>0, <3>1 DEF Types, Log
  <2>3. proc[a].pc \notin Writing
    BY <1>4 DEF BeforeEdit, AfterEdit, Writing
  <2>4. (Resolve(a, Human) \/ Resolve(a, a)) /\ UNCHANGED <<lock, appended>>
    BY <1>4 DEF BeforeEdit, AfterEdit
  <2> QED
    BY <1>3, <2>1, <2>2, <2>3, <2>4
<1>5. ASSUME NEW a \in Agents, NEW x \in Lines, AgentEdits(a, x) PROVE Exclusion' /\ Kept'
  <2> DEFINE q == [proc[a] EXCEPT !.pc = "edited"]
  <2>1. a \in Procs
    BY Names
  <2>2. Moves(a, q) /\ proc[a].pc = "hooked" /\ UNCHANGED <<log, lock, appended>>
    BY <1>5 DEF AgentEdits, Moves
  <2>3. q.pc = "edited"
    BY <1>0, <2>1 DEF Process
  <2> HIDE DEF q
  <2> QED
    BY <1>1, <2>1, <2>2, <2>3 DEF Holding, Writing
<1>6. ASSUME Save \/ CommitStarts PROVE Exclusion' /\ Kept'
  <2>1. /\ \/ Resolve(Editor, Known) /\ proc[Editor].pc = "idle"
           \/ Resolve(Committer, Human) /\ proc[Committer].pc = "idle"
        /\ UNCHANGED <<log, lock, appended>>
    BY <1>6 DEF Save, CommitStarts
  <2> QED
    BY <1>3, <2>1, Names DEF Writing
<1>7. ASSUME NEW staged \in SUBSET content, GitCommit(staged) PROVE Exclusion' /\ Kept'
  <2> DEFINE q == [proc[Committer] EXCEPT !.pc = "refresh", !.base = head]
  <2>1. /\ Moves(Committer, q) /\ proc[Committer].pc = "git" /\ UNCHANGED <<log, lock, appended>>
    BY <1>7, <1>0, Names DEF GitCommit, Moves, Types
  <2>2. q.pc = "refresh"
    BY <1>0, Names DEF Process
  <2> HIDE DEF q
  <2> QED
    BY <1>1, <2>1, <2>2, Names DEF Holding, Writing
<1> QED
  BY <1>2, <1>4, <1>5, <1>6, <1>7

\* What has gone without a fault so far has no fault now.
LEMMA NoFaultYet ==
    ASSUME Types, Next, faults' = 0
    PROVE  faults = 0 /\ \A p \in Procs : ~Killed(p) /\ ~LockTimeout(p)
<1>1. ASSUME NEW p \in Procs, Killed(p) \/ LockTimeout(p) PROVE FALSE
  <2>1. faults \in 0..MaxFaults /\ MaxFaults \in Nat
    BY BoundsAssumption DEF Types
  <2> QED
    BY <1>1, <2>1 DEF Killed, LockTimeout
<1>2. ASSUME NEW p \in Procs, Checkpoint(p) PROVE faults' = faults
  BY <1>2 DEF Checkpoint, Acquire, ReadAndSave, Entries, Write, Clear
<1>3. ASSUME PostCommit(Committer) PROVE faults' = faults
  BY <1>3 DEF PostCommit, Refresh, Rewrite, Attribute, AddNote, WriteInitial, Archive
<1>4. ASSUME NEW staged \in SUBSET content, GitCommit(staged) PROVE faults' = faults
  BY <1>4 DEF GitCommit
<1>5. faults' = faults
  BY <1>1, <1>2, <1>3, <1>4 DEF Next, HumanAdds, HumanRemoves, BeforeEdit, AfterEdit,
     AgentEdits, Save, CommitStarts
<1> QED
  BY <1>1, <1>5

LEMMA UndisturbedStep == Types /\ Undisturbed /\ [Next]_vars => Undisturbed'
<1> SUFFICES ASSUME Types, Undisturbed, [Next]_vars, faults' = 0
             PROVE  Exclusion' /\ Kept'
  BY DEF Undisturbed
<1>1. CASE UNCHANGED vars
  BY <1>1 DEF vars, Undisturbed, Exclusion, Kept, WritesAt, KeysOf
<1>2. CASE Next
  <2>1. faults = 0 /\ \A p \in Procs : ~Killed(p) /\ ~LockTimeout(p)
    BY <1>2, NoFaultYet
  <2>2. Exclusion /\ Kept
    BY <2>1 DEF Undisturbed
  <2> QED
    BY <1>2, <2>1, <2>2, Names, CheckpointKeeps, PostCommitKeeps, OthersKeep DEF Next
<1> QED
  BY <1>1, <1>2

LEMMA InitUndisturbed == Init => Undisturbed
<1> SUFFICES ASSUME Init PROVE Exclusion /\ Kept
  BY DEF Undisturbed
<1>1. \A p \in Procs : proc[p].pc = "idle"
  BY IdleIsProcess DEF Init
<1> QED
  BY <1>1 DEF Init, Exclusion, Kept, Holding, WritesAt, Writing

(* No checkpoint that was written to the log of a commit is dropped from it *)
(* before the commit's log is archived, by another checkpoint or by the     *)
(* refresh of the prompts, however many processes work on it: all of them   *)
(* rewrite the log under its lock and from what they read under it.         *)
THEOREM AppendsAreKept == Spec => []AppendsKept
<1>1. Types /\ Undisturbed => AppendsKept
  <2> SUFFICES ASSUME Types, Undisturbed, NEW c \in Commits, faults = 0, lock[c] = Nobody
               PROVE  appended[c] \subseteq KeysOf(log[c].cps)
    BY DEF AppendsKept, KeysOf
  <2>1. \A p \in Procs : ~WritesAt(p, c)
    BY Names DEF Undisturbed, Exclusion, Holding, WritesAt, Writing
  <2> QED
    BY <2>1 DEF Undisturbed, Kept
<1> QED
  BY <1>1, InitUndisturbed, InitTypes, TypesStep, UndisturbedStep, PTL DEF Spec

-----------------------------------------------------------------------------
(* What agents have written is noted.                                       *)

\* One agent, whose tool marks its edits; no checkpoint runs beside a commit, no
\* text comes back that was taken out, and a save is checkpointed with the text
\* of the file.
Calm ==
    /\ \A a, b \in Agents : a = b
    /\ Marks = Agents /\ Overlap = {} /\ ~Returns /\ ~SaveDelays

Checkpointing == {"lock", "read", "entries", "write", "clear"}
Refreshing == {"refresh", "rewrite", "attribute"}

PlacesOf(p) ==
    IF p = Committer THEN Pcs \ {"hooked", "edited"}
    ELSE {"idle"} \cup Checkpointing \cup (IF p = Editor THEN {} ELSE {"hooked", "edited"})
KindsOf(p) ==
    IF p = Editor THEN {Known} ELSE {Human} \cup ({p} \cap Agents)

IsAgents(x) == wrote[x] \in Agents

\* The lines that have ever been in the file.
Ever == {x \in Lines : wrote[x] # Human}

\* The commit whose log tells of the lines: until a commit has read the log of
\* its parent that one.  Its checkpoints, also while they are written anew, and
\* its INITIAL, also before that is written.
Base == IF proc[Committer].pc \in Refreshing THEN proc[Committer].base ELSE head
Tells(s) ==
    \/ \E p \in Procs : WritesAt(p, Base) /\ s = proc[p].write
    \/ (\A p \in Procs : ~WritesAt(p, Base)) /\ s = log[Base].cps
Carried ==
    IF proc[Committer].pc \in {"note", "initial"} THEN proc[Committer].init
    ELSE log[Base].init

\* The text the next checkpoint starts from, and its attributions.
TextIn(s) == IF s # <<>> THEN Last(s).blob
             ELSE IF Carried.attr = NoAttr THEN TreeOf(Base) ELSE Carried.content
AttrIn(s) == IF s # <<>> THEN Last(s).attr ELSE Carried.attr

\* The lines of the agent that the log has to tell of, and whether the agent has
\* edited and not yet recorded it.
Fresh == {x \in (content \cup TreeOf(head)) \ TreeOf(Base) : IsAgents(x)}
Unrecorded(a) ==
    \/ proc[a].pc = "edited"
    \/ proc[a].kind = a /\ proc[a].pc \in {"lock", "read", "entries"}

\* What a text of the file was, it was of lines that had been written.
EverInv ==
    /\ content \subseteq Ever /\ Carried.content \subseteq Ever
    /\ \A c \in 0..head :
          /\ TreeOf(c) \subseteq Ever
          /\ \A x \in Lines : tree[c + 1].by[x] \in Agents => tree[c + 1].by[x] = wrote[x]

\* Who may be where, with which mark of an edit under way, and that what a
\* process has read is still so.
StageOf(p) ==
    /\ proc[p].pc \in PlacesOf(p)
    /\ p # Committer /\ CommitRuns => proc[p].pc = "idle"
    /\ proc[p].pc \in Checkpointing =>
          /\ proc[p].base = head /\ proc[p].kind \in KindsOf(p)
          /\ proc[p].skip => proc[p].kind \in Agents /\
                \A x \in content : IsAgents(x) => x \in TreeOf(head)
    /\ p \in Agents /\ proc[p].pc # "idle" => log[head].marked
    /\ p = Editor /\ proc[p].pc \in {"entries", "write", "clear"} => ~log[head].marked
    /\ proc[p].pc = "entries" =>
          /\ proc[p].cps = log[head].cps
          /\ proc[p].blob \subseteq Ever
          /\ \A x \in content : IsAgents(x) => x \in proc[p].blob
          /\ \A x \in content : \A i \in DOMAIN proc[p].cps :
                x \in proc[p].cps[i].blob => x \in proc[p].blob

\* The commit: what it took from its parent's tree, and what is not there yet.
CommitInv ==
    /\ proc[Committer].pc \in AfterGit \ {"idle"} => proc[Committer].base = head - 1
    /\ proc[Committer].pc \in Refreshing => TreeOf(head - 1) \cap content \subseteq TreeOf(head)
    /\ \A c \in Commits : ~log[c].cut
    /\ \A c \in Commits :
          c > head \/ (c = head /\ proc[Committer].pc \in Refreshing \cup {"note", "initial"})
              => log[c] = EmptyLog
    /\ \A c \in Commits : c > head => note[c] = {}

\* A log knows its texts: lines stay in the texts of its checkpoints as long as
\* they are in the file, and what the last text has of the agent is the agent's.
Knows(s) ==
    /\ s # <<>> => Last(s).lines = LineAttributions(Last(s).attr)
    /\ \A i \in DOMAIN s : s[i].blob \subseteq Ever
    /\ \A x \in content : \A i, j \in DOMAIN s : i < j /\ x \in s[i].blob => x \in s[j].blob
    /\ \A x \in Fresh : IF x \in TextIn(s) THEN x \in DOMAIN AttrIn(s) /\ AttrIn(s)[x] \in Agents
                        ELSE \E a \in Agents : Unrecorded(a)

NoteInv ==
    /\ proc[Committer].pc = "note" =>
          \A x \in TreeOf(head) \ TreeOf(head - 1) : IsAgents(x) =>
             x \in DOMAIN proc[Committer].note /\ proc[Committer].note[x] \in Agents
    /\ \A c \in 1..head : \A n \in note[c], x \in TreeOf(c) \ TreeOf(c - 1) :
          tree[c + 1].by[x] \in Agents => x \in DOMAIN n /\ n[x] \in Agents

Noted ==
    /\ EverInv /\ CommitInv /\ NoteInv
    /\ \A p \in Procs : StageOf(p)
    /\ \A s \in Seq(Entry) : Tells(s) => Knows(s)

LEMMA Calmly ==
    ASSUME Calm
    PROVE  /\ \A p \in Procs : TextOf(p) = content /\ (MayStart(p) <=> ~CommitRuns)
           /\ Checkpointing \subseteq PlacesOf(Committer)
           /\ \A p \in Procs : "idle" \in PlacesOf(p) /\ Checkpointing \subseteq PlacesOf(p)
           /\ \A a \in Agents : {"hooked", "edited"} \subseteq PlacesOf(a)
BY Names DEF Calm, TextOf, MayStart, PlacesOf, Checkpointing, Pcs

\* Of a process that rests nothing is asked, of one that commits little.
LEMMA RestingStage ==
    ASSUME NEW r \in Procs,
           \/ proc'[r].pc = "idle"
           \/ r = Committer /\ proc'[r].pc \in AfterGit \cup {"git"}
    PROVE  StageOf(r)'
<1>1. proc'[r].pc \in PlacesOf(r)'
  BY Names DEF PlacesOf, AfterGit, Pcs
<1> QED
  BY <1>1, Names DEF StageOf, AfterGit, Checkpointing, CommitRuns

\* Of a process that does nothing, when another does.
LEMMA StageKept ==
    ASSUME Types, NEW r \in Procs, StageOf(r), proc'[r] = proc[r],
           proc'[Committer].pc # "idle" => proc[Committer].pc # "idle",
           content' \subseteq content, UNCHANGED <<wrote, tree>>,
           r \in Agents /\ proc[r].pc # "idle" => log'[head].marked,
           r = Editor /\ proc[r].pc \in {"entries", "write", "clear"} => ~log'[head].marked,
           proc[r].pc = "entries" => log'[head].cps = log[head].cps
    PROVE  StageOf(r)'
<1>1. head' = head /\ \A c : TreeOf(c)' = TreeOf(c)
  BY DEF head, TreeOf
<1>2. Ever' = Ever /\ \A x : IsAgents(x)' = IsAgents(x)
  BY DEF Ever, IsAgents
<1>3. PlacesOf(r)' = PlacesOf(r) /\ KindsOf(r)' = KindsOf(r)
  BY DEF PlacesOf, KindsOf
<1>4. (/\ r # Committer /\ CommitRuns => proc[r].pc = "idle"
       /\ proc[r].pc \in PlacesOf(r))'
  BY <1>3 DEF StageOf, CommitRuns
<1>5. (proc[r].pc \in Checkpointing =>
          /\ proc[r].base = head /\ proc[r].kind \in KindsOf(r)
          /\ proc[r].skip => proc[r].kind \in Agents /\
                \A x \in content : IsAgents(x) => x \in TreeOf(head))'
  BY <1>1, <1>2, <1>3 DEF StageOf
<1>6. (/\ r \in Agents /\ proc[r].pc # "idle" => log[head].marked
       /\ r = Editor /\ proc[r].pc \in {"entries", "write", "clear"} => ~log[head].marked)'
  BY <1>1
<1>7. (proc[r].pc = "entries" =>
          /\ proc[r].cps = log[head].cps
          /\ proc[r].blob \subseteq Ever
          /\ \A x \in content : IsAgents(x) => x \in proc[r].blob
          /\ \A x \in content : \A i \in DOMAIN proc[r].cps :
                x \in proc[r].cps[i].blob => x \in proc[r].blob)'
  BY <1>1, <1>2 DEF StageOf
<1> QED
  BY <1>4, <1>5, <1>6, <1>7 DEF StageOf

\* What a log knows it knows as long as no line comes, its base and its INITIAL
\* stay, and an edit of the agent remains to be recorded.
LEMMA KnowsOn ==
    ASSUME NEW s, Knows(s), content' \subseteq content, UNCHANGED <<wrote, tree>>,
           Base' = Base,
           Carried' = Carried \/ (Carried.attr = NoAttr /\ Carried'.attr = NoAttr),
           \A x \in Fresh : \A a \in Agents :
              Unrecorded(a) => x \in TextIn(s) \/ \E b \in Agents : Unrecorded(b)'
    PROVE  Knows(s)'
<1>1. head' = head /\ \A c : TreeOf(c)' = TreeOf(c)
  BY DEF head, TreeOf
<1>2. Ever' = Ever /\ \A x : IsAgents(x)' = IsAgents(x)
  BY DEF Ever, IsAgents
<1>3. TextIn(s)' = TextIn(s) /\ AttrIn(s)' = AttrIn(s)
  BY <1>1 DEF TextIn, AttrIn
<1>4. Fresh' \subseteq Fresh
  BY <1>1, <1>2 DEF Fresh
<1>5. (\A x \in Fresh : IF x \in TextIn(s) THEN x \in DOMAIN AttrIn(s) /\ AttrIn(s)[x] \in Agents
                        ELSE \E a \in Agents : Unrecorded(a))'
  <2> SUFFICES ASSUME NEW x \in Fresh'
               PROVE  IF x \in TextIn(s) THEN x \in DOMAIN AttrIn(s) /\ AttrIn(s)[x] \in Agents
                      ELSE \E a \in Agents : Unrecorded(a)'
    BY <1>3
  <2> QED
    BY <1>4 DEF Knows
<1>6. (/\ s # <<>> => Last(s).lines = LineAttributions(Last(s).attr)
       /\ \A i \in DOMAIN s : s[i].blob \subseteq Ever
       /\ \A x \in content : \A i, j \in DOMAIN s : i < j /\ x \in s[i].blob => x \in s[j].blob)'
  BY <1>2 DEF Knows
<1> QED
  BY <1>5, <1>6 DEF Knows

\* Whoever runs a checkpoint runs it at HEAD, whose log is the one that tells.
LEMMA AtHead ==
    ASSUME NEW p \in Procs, \A r \in Procs : StageOf(r), proc[p].pc \in Checkpointing
    PROVE  /\ proc[p].base = head /\ Base = head /\ Carried = log[head].init
           /\ p # Committer => proc[Committer].pc = "idle"
<1>1. p # Committer => proc[Committer].pc = "idle"
  BY DEF StageOf, CommitRuns, Checkpointing
<1>2. proc[p].base = head
  BY DEF StageOf
<1> QED
  BY <1>1, <1>2 DEF Base, Carried, Checkpointing, Refreshing

\* A step at HEAD, while no commit is on its way from one log to the next, as far
\* as trees and notes go.
LEMMA WorkFrame ==
    ASSUME Types, Noted, NEW p \in Procs, NEW q,
           Base = head, Carried = log[head].init,
           p # Committer => proc[Committer].pc = "idle",
           \A r \in Procs : proc'[r] = IF r = p THEN q ELSE proc[r],
           q.pc \in Checkpointing \cup {"idle", "hooked", "git"},
           UNCHANGED <<content, wrote, tree, note>>,
           \A c \in Commits : /\ c # head => log'[c] = log[c]
                              /\ log'[c].cut = log[c].cut /\ log'[c].init = log[c].init
    PROVE  /\ EverInv' /\ CommitInv' /\ NoteInv' /\ head' = head
           /\ Base' = head /\ Base' = Base /\ Carried' = Carried
<1>1. head' = head /\ (\A c : TreeOf(c)' = TreeOf(c)) /\ head \in Commits
  BY HeadIsCommit DEF head, TreeOf
<1>2. Ever' = Ever /\ \A x : IsAgents(x)' = IsAgents(x)
  BY DEF Ever, IsAgents
<1>3. proc'[Committer].pc \in Checkpointing \cup {"idle", "hooked", "git"}
  BY Names
<1>4. Base' = head /\ Carried' = Carried
  BY <1>1, <1>3 DEF Base, Carried, Checkpointing, Refreshing
<1>5. EverInv'
  BY <1>1, <1>2, <1>4 DEF EverInv, Noted
<1>6. CommitInv'
  <2>1. (/\ proc[Committer].pc \in AfterGit \ {"idle"} => proc[Committer].base = head - 1
         /\ proc[Committer].pc \in Refreshing => TreeOf(head - 1) \cap content \subseteq TreeOf(head))'
    BY <1>3 DEF AfterGit, Refreshing, Checkpointing
  <2>2. (\A c \in Commits : ~log[c].cut)'
    BY DEF CommitInv, Noted
  <2>3. (\A c \in Commits :
          c > head \/ (c = head /\ proc[Committer].pc \in Refreshing \cup {"note", "initial"})
              => log[c] = EmptyLog)'
    <3> SUFFICES ASSUME NEW c \in Commits, c > head PROVE log'[c] = EmptyLog
      BY <1>1, <1>3 DEF Refreshing, Checkpointing
    <3>1. c # head
      BY HeadIsCommit
    <3> QED
      BY <3>1 DEF CommitInv, Noted
  <2>4. (\A c \in Commits : c > head => note[c] = {})'
    BY <1>1 DEF CommitInv, Noted
  <2> QED
    BY <2>1, <2>2, <2>3, <2>4 DEF CommitInv
<1>7. NoteInv'
  <2>1. proc'[Committer].pc # "note"
    BY <1>3 DEF Checkpointing
  <2> QED
    BY <1>1, <2>1 DEF NoteInv, Noted
<1> QED
  BY <1>1, <1>4, <1>5, <1>6, <1>7

\* A checkpoint's step, as far as trees and notes go.
LEMMA CheckpointFrame ==
    ASSUME Types, Noted, NEW p \in Procs, NEW q, proc[p].pc \in Checkpointing,
           \A r \in Procs : proc'[r] = IF r = p THEN q ELSE proc[r],
           q.pc \in Checkpointing \cup {"idle", "hooked", "git"},
           UNCHANGED <<content, wrote, tree, note>>,
           \A c \in Commits : /\ c # head => log'[c] = log[c]
                              /\ log'[c].cut = log[c].cut /\ log'[c].init = log[c].init
    PROVE  /\ EverInv' /\ CommitInv' /\ NoteInv' /\ head' = head
           /\ Base' = head /\ Base' = Base /\ Carried' = Carried
BY AtHead, WorkFrame DEF Noted

LEMMA OthersStages ==
    ASSUME Calm, Types, Exclusion, Noted, NEW p \in Procs, NEW q,
           proc[p].pc \in Checkpointing,
           \A r \in Procs : proc'[r] = IF r = p THEN q ELSE proc[r],
           UNCHANGED <<content, wrote, tree>>,
           log'[head].cps = log[head].cps \/ proc[p].pc \in Holding,
           log'[head].marked = log[head].marked \/ (p \in Agents /\ ~log'[head].marked)
    PROVE  \A r \in Procs : r # p => StageOf(r)'
<1> SUFFICES ASSUME NEW r \in Procs, r # p PROVE StageOf(r)'
  OBVIOUS
<1>1. StageOf(r) /\ StageOf(p) /\ StageOf(Committer) /\ proc'[r] = proc[r]
  BY Names DEF Noted
<1>2. CASE p = Committer
  <2>1. proc[r].pc = "idle"
    BY <1>1, <1>2 DEF StageOf, CommitRuns, Checkpointing
  <2> QED
    BY <1>1, <2>1, RestingStage
<1>3. CASE p # Committer
  <2>1. proc'[Committer].pc = "idle"
    BY <1>3, AtHead, Names DEF Noted
  <2>2. r \in Agents /\ proc[r].pc # "idle" => log'[head].marked
    BY <1>1 DEF StageOf, Calm
  <2>3. r = Editor /\ proc[r].pc \in {"entries", "write", "clear"} => ~log'[head].marked
    BY <1>1 DEF StageOf
  <2>4. proc[r].pc = "entries" => log'[head].cps = log[head].cps
    <3> SUFFICES ASSUME proc[r].pc = "entries", proc[p].pc \in Holding PROVE FALSE
      OBVIOUS
    <3>1. proc[r].base = head /\ proc[p].base = head
      BY <1>1 DEF StageOf, Checkpointing
    <3> QED
      BY <3>1 DEF Exclusion, Holding
  <2> QED
    BY <1>1, <2>1, <2>2, <2>3, <2>4, StageKept
<1> QED
  BY <1>2, <1>3

\* A step that writes nothing leaves what tells of the lines.
LEMMA TellsSame ==
    ASSUME NEW p \in Procs, NEW q, \A r \in Procs : proc'[r] = IF r = p THEN q ELSE proc[r],
           proc[p].pc \notin Writing, q.pc \notin Writing,
           Base' = Base, log'[Base].cps = log[Base].cps, NEW s, Tells(s)'
    PROVE  Tells(s)
<1>1. \A r \in Procs : WritesAt(r, Base)' <=> WritesAt(r, Base)
  BY DEF WritesAt
<1>2. \A r \in Procs : WritesAt(r, Base) => proc'[r].write = proc[r].write
  BY DEF WritesAt
<1> QED
  BY <1>1, <1>2 DEF Tells

\* A checkpoint's step that writes nothing, and after which what was unrecorded
\* is unrecorded or in the text.
LEMMA QuietCheckpoint ==
    ASSUME Calm, Types, Exclusion, Noted, NEW p \in Procs, NEW q,
           proc[p].pc \in Checkpointing,
           \A r \in Procs : proc'[r] = IF r = p THEN q ELSE proc[r],
           q.pc \in Checkpointing \cup {"idle", "hooked", "git"},
           UNCHANGED <<content, wrote, tree, note>>,
           \A c \in Commits : /\ c # head => log'[c] = log[c]
                              /\ log'[c].cut = log[c].cut /\ log'[c].init = log[c].init
                              /\ log'[c].cps = log[c].cps,
           log'[head].marked = log[head].marked \/ (p \in Agents /\ ~log'[head].marked),
           StageOf(p)', proc[p].pc \notin Writing, q.pc \notin Writing,
           p \in Agents /\ Unrecorded(p) /\ ~Unrecorded(p)' =>
              \A s \in Seq(Entry) : Tells(s) => Fresh \subseteq TextIn(s)
    PROVE  Noted'
<1>1. /\ EverInv' /\ CommitInv' /\ NoteInv' /\ head' = head
      /\ Base' = head /\ Base' = Base /\ Carried' = Carried
  BY CheckpointFrame
<1>2. head \in Commits
  BY HeadIsCommit
<1>3. \A r \in Procs : StageOf(r)'
  BY <1>2, OthersStages
<1>4. ASSUME NEW s \in Seq(Entry), Tells(s)' PROVE Knows(s)'
  <2>1. Tells(s) /\ Knows(s)
    BY <1>1, <1>2, <1>4, TellsSame DEF Noted
  <2>2. ASSUME NEW x \in Fresh, NEW a \in Agents, Unrecorded(a)
        PROVE  x \in TextIn(s) \/ \E b \in Agents : Unrecorded(b)'
    <3>1. CASE a = p
      BY <2>1, <2>2, <3>1
    <3>2. CASE a # p
      BY <2>2, <3>2, Names DEF Unrecorded
    <3> QED
      BY <3>1, <3>2
  <2> QED
    BY <1>1, <2>1, <2>2, KnowsOn
<1> QED
  BY <1>1, <1>3, <1>4 DEF Noted

LEMMA AcquireNotes ==
    ASSUME Calm, Types, Exclusion, Noted, NEW p \in Procs, Acquire(p)
    PROVE  Noted'
<1> DEFINE me == proc[p]
           q == [me EXCEPT !.pc = "read"]
<1>1. me \in Process /\ me.pc = "lock" /\ me.pc \in Checkpointing /\ StageOf(p)
  BY DEF Acquire, Types, Checkpointing, Noted
<1>2. /\ Moves(p, q) /\ UNCHANGED <<content, wrote, tree, note, log>>
  BY DEF Acquire, Moves
<1>3. /\ q.pc = "read" /\ q.base = me.base /\ q.kind = me.kind /\ q.skip = me.skip
  BY <1>1 DEF Process
<1> HIDE DEF q
<1>4. \A r \in Procs : proc'[r] = IF r = p THEN q ELSE proc[r]
  BY <1>2 DEF Moves, Types
<1>5. head' = head /\ (\A c : TreeOf(c)' = TreeOf(c)) /\ (\A x : IsAgents(x)' = IsAgents(x))
  BY <1>2 DEF head, TreeOf, IsAgents
<1>6. PlacesOf(p)' = PlacesOf(p) /\ KindsOf(p)' = KindsOf(p) /\ "read" \in PlacesOf(p)
  BY Calmly DEF PlacesOf, KindsOf, Checkpointing
<1>7. p # Committer => proc'[Committer].pc = "idle"
  BY <1>1, <1>4, AtHead, Names DEF Noted
<1>8. StageOf(p)'
  BY <1>1, <1>2, <1>3, <1>4, <1>5, <1>6, <1>7 DEF StageOf, CommitRuns, Checkpointing
<1>9. p \in Agents /\ Unrecorded(p) => Unrecorded(p)'
  BY <1>1, <1>3, <1>4 DEF Unrecorded
<1> QED
  BY <1>1, <1>2, <1>3, <1>4, <1>8, <1>9, QuietCheckpoint DEF Checkpointing, Writing

\* The end of a checkpoint, of an agent's own when its entry has been made.
LEMMA LeaveNotes ==
    ASSUME Calm, Types, Exclusion, Noted, NEW p \in Procs, Leave(p),
           proc[p].pc = "clear" \/ (proc[p].pc = "read" /\ ~IsAi(proc[p].kind)),
           UNCHANGED <<content, wrote, tree, note>>,
           \A c \in Commits : /\ c # head => log'[c] = log[c]
                              /\ log'[c].cut = log[c].cut /\ log'[c].init = log[c].init
                              /\ log'[c].cps = log[c].cps,
           log'[head].marked = log[head].marked \/ (IsAi(proc[p].kind) /\ ~log'[head].marked)
    PROVE  Noted'
<1> DEFINE me == proc[p]
           q == AfterCheckpoint(p, me.kind)
<1>1. me \in Process /\ me.pc \in Checkpointing /\ StageOf(p) /\ me.kind \in Authors
  BY DEF Types, Process, Checkpointing, Noted
<1>2. /\ q.pc \in {"idle", "hooked", "git"}
      /\ q.pc = "git" => p = Committer
      /\ q.pc = "hooked" => p \in Agents
  BY <1>1, IdleIsProcess
<1>3. q.pc = "hooked" => me.kind = Human
  BY <1>1, IdleIsProcess, Names DEF AfterCheckpoint, Idle
<1>4. Moves(p, q)
  BY DEF Leave, Moves, Types
<1> HIDE DEF q
<1>5. \A r \in Procs : proc'[r] = IF r = p THEN q ELSE proc[r]
  BY <1>4 DEF Moves, Types
<1>6. IsAi(me.kind) => p \in Agents
  BY <1>1, Names DEF StageOf, KindsOf, IsAi
<1>7. StageOf(p)'
  <2>1. CASE q.pc # "hooked"
    BY <1>2, <1>5, <2>1, RestingStage
  <2>2. CASE q.pc = "hooked"
    <3>1. p \in Agents /\ p # Committer /\ p # Editor /\ ~IsAi(me.kind)
      BY <1>2, <1>3, <2>2, Names DEF IsAi
    <3>2. log'[head].marked
      BY <1>1, <3>1 DEF StageOf, Checkpointing
    <3>3. head' = head /\ "hooked" \in PlacesOf(p)' /\ "hooked" \notin Checkpointing
      BY <3>1, Calmly DEF head, PlacesOf, Checkpointing
    <3>4. proc'[Committer].pc = "idle"
      BY <1>1, <1>5, <3>1, AtHead, Names DEF Noted
    <3> QED
      BY <1>5, <2>2, <3>1, <3>2, <3>3, <3>4 DEF StageOf, CommitRuns
  <2> QED
    BY <2>1, <2>2
<1>8. p \in Agents => ~Unrecorded(p)
  BY Names DEF Unrecorded, IsAi
<1> QED
  BY <1>1, <1>2, <1>5, <1>6, <1>7, <1>8, QuietCheckpoint DEF Writing

LEMMA ReadNotes ==
    ASSUME Calm, Types, Exclusion, Noted, NEW p \in Procs, ReadAndSave(p)
    PROVE  Noted'
<1> DEFINE me == proc[p]
           q == [me EXCEPT !.pc = "entries", !.blob = content, !.cps = log[head].cps]
<1>1. me \in Process /\ me.pc = "read" /\ me.pc \in Checkpointing /\ StageOf(p)
  BY DEF ReadAndSave, Types, Checkpointing, Noted
<1>2. me.base = head /\ head \in Commits /\ ~log[head].cut /\ (p # Committer => proc[Committer].pc = "idle")
  BY <1>1, AtHead, HeadIsCommit DEF Noted, CommitInv
<1>3. CASE Rejects(p)
  <2>1. Leave(p) /\ ~IsAi(me.kind)
    BY <1>1, <1>2, <1>3, Names DEF ReadAndSave, Rejects, IsAi
  <2> QED
    BY <1>1, <2>1, LeaveNotes DEF ReadAndSave
<1>4. CASE ~Rejects(p)
  <2>1. Moves(p, q) /\ UNCHANGED <<content, wrote, tree, note, log>>
    BY <1>1, <1>2, <1>4, Calmly DEF ReadAndSave, Moves
  <2>2. /\ q.pc = "entries" /\ q.base = me.base /\ q.kind = me.kind /\ q.skip = me.skip
        /\ q.blob = content /\ q.cps = log[head].cps
    BY <1>1 DEF Process
  <2> HIDE DEF q
  <2>3. \A r \in Procs : proc'[r] = IF r = p THEN q ELSE proc[r]
    BY <2>1 DEF Moves, Types
  <2>4. head' = head /\ (\A c : TreeOf(c)' = TreeOf(c)) /\ (\A x : IsAgents(x)' = IsAgents(x))
    BY <2>1 DEF head, TreeOf, IsAgents
  <2>5. PlacesOf(p)' = PlacesOf(p) /\ KindsOf(p)' = KindsOf(p) /\ "entries" \in PlacesOf(p)
    BY Calmly DEF PlacesOf, KindsOf, Checkpointing
  <2>6. p # Committer => proc'[Committer].pc = "idle"
    BY <1>2, <2>3, Names
  <2>7. p = Editor => ~log'[head].marked
    BY <1>1, <1>2, <1>4, <2>1 DEF StageOf, KindsOf, Rejects
  <2>8. (proc[p].pc = "entries" =>
          /\ proc[p].cps = log[head].cps
          /\ proc[p].blob \subseteq Ever
          /\ \A x \in content : IsAgents(x) => x \in proc[p].blob
          /\ \A x \in content : \A i \in DOMAIN proc[p].cps :
                x \in proc[p].cps[i].blob => x \in proc[p].blob)'
    <3>1. content' \subseteq Ever'
      BY <2>1 DEF Noted, EverInv, Ever
    <3> QED
      BY <2>1, <2>2, <2>3, <2>4, <3>1
  <2>9. (proc[p].pc \in Checkpointing =>
          /\ proc[p].base = head /\ proc[p].kind \in KindsOf(p)
          /\ proc[p].skip => proc[p].kind \in Agents /\
                \A x \in content : IsAgents(x) => x \in TreeOf(head))'
    BY <1>1, <2>1, <2>2, <2>3, <2>4, <2>5 DEF StageOf
  <2>10. (p \in Agents /\ proc[p].pc # "idle" => log[head].marked)'
    BY <1>1, <2>1, <2>4 DEF StageOf
  <2>11. StageOf(p)'
    BY <2>2, <2>3, <2>4, <2>5, <2>6, <2>7, <2>8, <2>9, <2>10 DEF StageOf, CommitRuns
  <2>12. p \in Agents /\ Unrecorded(p) => Unrecorded(p)'
    BY <1>1, <2>2, <2>3 DEF Unrecorded
  <2> QED
    BY <1>1, <2>1, <2>2, <2>3, <2>11, <2>12, QuietCheckpoint DEF Checkpointing, Writing
<1> QED
  BY <1>3, <1>4

LEMMA ClearNotes ==
    ASSUME Calm, Types, Exclusion, Noted, NEW p \in Procs, Clear(p)
    PROVE  Noted'
<1> DEFINE m == log[head].marked /\ ~IsAi(proc[p].kind)
<1>1. proc[p].base = head /\ head \in Commits /\ log \in [Commits -> Log]
  BY AtHead, HeadIsCommit DEF Clear, Checkpointing, Noted, Types
<1>2. log' = [log EXCEPT ![head].marked = m] /\ m \in BOOLEAN
  BY <1>1 DEF Clear
<1>3. \A c \in Commits : /\ c # head => log'[c] = log[c]
                         /\ log'[c].cut = log[c].cut /\ log'[c].init = log[c].init
                         /\ log'[c].cps = log[c].cps
  BY <1>1, <1>2 DEF Log
<1>4. log'[head].marked = m /\ log[head].marked \in BOOLEAN
  BY <1>1, <1>2 DEF Log
<1>5. log'[head].marked = log[head].marked \/ (IsAi(proc[p].kind) /\ ~log'[head].marked)
  BY <1>4
<1> QED
  BY <1>3, <1>5, LeaveNotes DEF Clear

\* An entry has the text that was stored, and in its lines what its attributions
\* have that is not human.
LEMMA EntryHas ==
    ASSUME NEW kind, NEW pre, NEW hl, NEW s, NEW ini, NEW blob, NEW text,
           CheckpointEntry(kind, pre, hl, s, ini, blob, text) # <<>>
    PROVE  LET e == CheckpointEntry(kind, pre, hl, s, ini, blob, text)[1]
               prev == Previous(kind, hl, s, ini, text)
           IN  /\ e.blob = blob /\ e.lines = LineAttributions(e.attr)
               /\ e.attr = IF kind = Human /\ ~AiTouched(s, ini) THEN NoAttr
                           ELSE UpdateAttributions(prev.blob, prev.attr, text, kind)
<1> DEFINE prev == Previous(kind, hl, s, ini, text)
           attr == IF kind = Human /\ ~AiTouched(s, ini) THEN NoAttr
                   ELSE UpdateAttributions(prev.blob, prev.attr, text, kind)
           e == [kind |-> kind, blob |-> blob, attr |-> attr, lines |-> LineAttributions(attr),
                 added |-> Cardinality(text \ prev.blob), deleted |-> Cardinality(prev.blob \ text)]
<1>1. CheckpointEntry(kind, pre, hl, s, ini, blob, text) \in {<<>>, <<e>>}
  BY DEF CheckpointEntry
<1>2. CheckpointEntry(kind, pre, hl, s, ini, blob, text) = <<e>>
  BY <1>1
<1>3. CheckpointEntry(kind, pre, hl, s, ini, blob, text)[1] = e
  BY <1>2
<1>4. e.blob = blob /\ e.lines = LineAttributions(attr) /\ e.attr = attr
  OBVIOUS
<1> HIDE DEF e, attr
<1>5. LET c == CheckpointEntry(kind, pre, hl, s, ini, blob, text)[1]
      IN  c.blob = blob /\ c.lines = LineAttributions(c.attr) /\ c.attr = attr
  BY <1>3, <1>4
<1> QED
  BY <1>5 DEF attr

\* The state a checkpoint starts from is what the log tells.
LEMMA PreviousIs ==
    ASSUME NEW kind, NEW s, NEW text
    PROVE  LET prev == Previous(kind, TreeOf(Base), s, Carried, text)
           IN  /\ prev.blob = TextIn(s)
               /\ \A x \in DOMAIN AttrIn(s) : x \in DOMAIN prev.attr /\ prev.attr[x] = AttrIn(s)[x]
<1> DEFINE prev == Previous(kind, TreeOf(Base), s, Carried, text)
<1>1. CASE s # <<>>
  BY <1>1 DEF Previous, TextIn, AttrIn
<1>2. CASE s = <<>> /\ Carried.attr = NoAttr
  BY <1>2 DEF Previous, TextIn, AttrIn, FromInitial
<1>3. CASE s = <<>> /\ Carried.attr # NoAttr
  <2> DEFINE covered == {NumberIn(Carried.content, x) : x \in DOMAIN Carried.attr}
             taken == {x \in Carried.content :
                          LET n == NumberIn(Carried.content, x)
                          IN  /\ IsAi(kind) /\ n \notin covered
                              /\ n > Cardinality(TreeOf(Base))
                              /\ n <= Cardinality(text)}
             a == [x \in taken \cup DOMAIN Carried.attr |->
                      IF x \in DOMAIN Carried.attr THEN Carried.attr[x] ELSE kind]
  <2>1. prev = [blob |-> Carried.content, attr |-> a]
    BY <1>3 DEF Previous, FromInitial
  <2> HIDE DEF taken
  <2>2. \A x \in DOMAIN Carried.attr : x \in DOMAIN a /\ a[x] = Carried.attr[x]
    OBVIOUS
  <2>3. prev.blob = Carried.content /\ prev.attr = a
    BY <2>1
  <2> HIDE DEF a, prev
  <2>4. TextIn(s) = Carried.content /\ AttrIn(s) = Carried.attr
    BY <1>3 DEF TextIn, AttrIn
  <2>5. /\ prev.blob = TextIn(s)
        /\ \A x \in DOMAIN AttrIn(s) : x \in DOMAIN prev.attr /\ prev.attr[x] = AttrIn(s)[x]
    BY <2>2, <2>3, <2>4
  <2> QED
    BY <2>5 DEF prev
<1> QED
  BY <1>1, <1>2, <1>3

\* A log that has a line of the agent in it is touched.
LEMMA TouchedByAgents ==
    ASSUME NEW s \in Seq(Entry), Knows(s), NEW x \in DOMAIN AttrIn(s), AttrIn(s)[x] \in Agents
    PROVE  AiTouched(s, Carried)
<1>1. CASE s = <<>>
  <2>1. Carried.attr # NoAttr
    BY <1>1 DEF AttrIn, NoAttr
  <2> QED
    BY <2>1 DEF AiTouched
<1>2. CASE s # <<>>
  <2>1. Last(s) = s[Len(s)] /\ Len(s) \in DOMAIN s
    BY <1>2 DEF Last
  <2>2. Last(s).lines = LineAttributions(Last(s).attr) /\ AttrIn(s) = Last(s).attr
    BY <1>2 DEF Knows, AttrIn
  <2>3. x \in DOMAIN Last(s).lines /\ Last(s).lines[x] \in Agents
    BY <2>2, Names DEF LineAttributions
  <2> QED
    BY <2>1, <2>3 DEF AiTouched
<1> QED
  BY <1>1, <1>2

\* While a checkpoint computes its entry the log is as it has read it.
LEMMA AtEntries ==
    ASSUME Types, Exclusion, Noted, NEW p \in Procs, proc[p].pc = "entries"
    PROVE  /\ proc[p].base = head /\ Base = head /\ Carried = log[head].init /\ head \in Commits
           /\ (p # Committer => proc[Committer].pc = "idle") /\ lock[head] = p
           /\ proc[p].cps \in Seq(Entry) /\ proc[p].cps = log[head].cps
           /\ \A r \in Procs : ~WritesAt(r, head)
           /\ Tells(proc[p].cps) /\ \A s : Tells(s) => s = proc[p].cps
           /\ Fresh = {x \in content \ TreeOf(head) : IsAgents(x)}
<1>1. /\ proc[p].base = head /\ Base = head /\ Carried = log[head].init /\ head \in Commits
      /\ (p # Committer => proc[Committer].pc = "idle")
  BY AtHead, HeadIsCommit DEF Checkpointing, Noted
<1>2. lock[head] = p
  BY <1>1 DEF Exclusion, Holding
<1>3. \A r \in Procs : ~WritesAt(r, head)
  BY <1>1, <1>2, OnlyOneWrites DEF WritesAt, Writing
<1>4. proc[p].cps \in Seq(Entry) /\ proc[p].cps = log[head].cps
  BY DEF Types, Process, Noted, StageOf
<1>5. Tells(proc[p].cps) /\ \A s : Tells(s) => s = proc[p].cps
  BY <1>1, <1>3, <1>4 DEF Tells
<1>6. Fresh = {x \in content \ TreeOf(head) : IsAgents(x)}
  BY <1>1 DEF Fresh
<1> QED
  BY <1>1, <1>2, <1>3, <1>4, <1>5, <1>6

\* Only a text that was recorded before gives a checkpoint of the agent no entry.
LEMMA NoEntry ==
    ASSUME NEW k, k # Human, NEW pre, NEW heads, NEW cps, NEW init, NEW blob, NEW text,
           CheckpointEntry(k, pre, heads, cps, init, blob, text) = <<>>
    PROVE  text = Previous(k, heads, cps, init, text).blob
<1>1. \A e : <<e>> # <<>>
  OBVIOUS
<1> QED
  BY <1>1 DEF CheckpointEntry

\* A checkpoint of the agent that records nothing has nothing to record.
LEMMA NothingUnrecorded ==
    ASSUME Calm, Types, Exclusion, Noted, NEW p \in Agents, proc[p].pc = "entries",
           proc[p].kind = p,
           \/ proc[p].skip
           \/ EntryOf(p) = <<>>
           \/ /\ EntryOf(p) # <<>>
              /\ \E i \in DOMAIN proc[p].cps : DedupeKey(proc[p].cps[i]) = DedupeKey(EntryOf(p)[1])
    PROVE  Fresh \subseteq TextIn(proc[p].cps)
<1> DEFINE me == proc[p]
           s == me.cps
           prev == Previous(p, TreeOf(Base), s, Carried, content)
<1>1. /\ p \in Procs /\ p # Human /\ StageOf(p) /\ TextOf(p) = content
      /\ me.base = head /\ Base = head /\ Carried = log[head].init
      /\ s \in Seq(Entry) /\ Knows(s) /\ Fresh = {x \in content \ TreeOf(head) : IsAgents(x)}
  BY Names, Calmly, AtEntries DEF Noted
<1>2. EntryOf(p) = CheckpointEntry(p, p = Committer, TreeOf(Base), s, Carried, me.blob, content)
  BY <1>1 DEF EntryOf
<1>3. CASE me.skip
  BY <1>1, <1>3 DEF StageOf, Checkpointing
<1>4. CASE EntryOf(p) = <<>>
  <2>1. content = prev.blob
    BY <1>1, <1>2, <1>4, NoEntry
  <2>2. prev.blob = TextIn(s)
    BY PreviousIs
  <2> QED
    BY <1>1, <2>1, <2>2
<1>5. ASSUME EntryOf(p) # <<>>, NEW i \in DOMAIN s, DedupeKey(s[i]) = DedupeKey(EntryOf(p)[1])
      PROVE  Fresh \subseteq TextIn(s)
  <2>1. EntryOf(p)[1].blob = me.blob
    BY <1>2, <1>5, EntryHas
  <2>2. s[i].blob = me.blob
    BY <1>5, <2>1 DEF DedupeKey
  <2>3. i \in 1..Len(s) /\ Len(s) \in Nat /\ Len(s) \in DOMAIN s /\ s # <<>> /\ Last(s) = s[Len(s)]
    BY <1>1 DEF Last
  <2>4. \A x \in Fresh : x \in content /\ x \in s[i].blob
    BY <1>1, <2>2 DEF StageOf
  <2>5. \A x \in Fresh : x \in s[Len(s)].blob
    BY <1>1, <2>3, <2>4 DEF Knows
  <2> QED
    BY <2>3, <2>5 DEF TextIn
<1> QED
  BY <1>3, <1>4, <1>5

\* A new entry tells of every line of the agent: of those the log has told of,
\* and of those the agent has just written, because it is the agent who records
\* them first.
LEMMA NewEntryKnows ==
    ASSUME Calm, Types, Exclusion, Noted, NEW p \in Procs, proc[p].pc = "entries",
           NEW e \in Entry, EntryOf(p) = <<e>>, NEW x \in Fresh
    PROVE  x \in e.blob /\ x \in DOMAIN e.attr /\ e.attr[x] \in Agents
<1> DEFINE me == proc[p]
           s == me.cps
           prev == Previous(me.kind, TreeOf(Base), s, Carried, content)
<1>1. /\ StageOf(p) /\ TextOf(p) = content /\ me.base = head /\ Base = head
      /\ Carried = log[head].init /\ s \in Seq(Entry) /\ Knows(s)
      /\ Fresh = {y \in content \ TreeOf(head) : IsAgents(y)}
      /\ (p # Committer => proc[Committer].pc = "idle")
  BY Calmly, AtEntries DEF Noted
<1>2. EntryOf(p) = CheckpointEntry(me.kind, p = Committer, TreeOf(Base), s, Carried, me.blob, content)
  BY <1>1 DEF EntryOf
<1>3. EntryOf(p) # <<>> /\ EntryOf(p)[1] = e
  OBVIOUS
<1>4. /\ e.blob = me.blob
      /\ e.attr = IF me.kind = Human /\ ~AiTouched(s, Carried) THEN NoAttr
                  ELSE UpdateAttributions(prev.blob, prev.attr, content, me.kind)
  BY <1>2, <1>3, EntryHas
<1>5. x \in content /\ IsAgents(x) /\ x \in me.blob
  BY <1>1 DEF StageOf
<1>6. /\ prev.blob = TextIn(s)
      /\ \A y \in DOMAIN AttrIn(s) : y \in DOMAIN prev.attr /\ prev.attr[y] = AttrIn(s)[y]
  BY PreviousIs
<1> HIDE DEF prev
<1>7. CASE x \in TextIn(s)
  <2>1. x \in DOMAIN AttrIn(s) /\ AttrIn(s)[x] \in Agents
    BY <1>1, <1>7 DEF Knows
  <2>2. AiTouched(s, Carried)
    BY <1>1, <2>1, TouchedByAgents
  <2>3. e.attr = UpdateAttributions(prev.blob, prev.attr, content, me.kind)
    BY <1>4, <2>2
  <2>4. AuthorOf(prev.attr, x) = AttrIn(s)[x]
    BY <1>6, <2>1 DEF AuthorOf
  <2> QED
    BY <1>4, <1>5, <1>6, <1>7, <2>1, <2>3, <2>4 DEF UpdateAttributions
<1>8. CASE x \notin TextIn(s)
  <2>1. PICK a \in Agents : Unrecorded(a)
    BY <1>1, <1>8 DEF Knows
  <2>2. a \in Procs /\ a # Committer /\ a # Editor /\ StageOf(a) /\ proc[a].pc # "idle"
    BY <2>1, Names DEF Noted, Unrecorded
  <2>3. p = a
    <3>1. p # Committer
      BY <1>1, <2>2 DEF StageOf, CommitRuns
    <3>2. p # Editor
      BY <1>1, <2>1, <2>2 DEF StageOf
    <3> QED
      BY <2>1, <3>1, <3>2 DEF Procs, Calm
  <2>4. me.kind = a /\ a # Human
    BY <2>1, <2>3, Names DEF Unrecorded
  <2>5. e.attr = UpdateAttributions(prev.blob, prev.attr, content, me.kind)
    BY <1>4, <2>4
  <2> QED
    BY <1>4, <1>5, <1>6, <1>8, <2>1, <2>4, <2>5 DEF UpdateAttributions
<1> QED
  BY <1>7, <1>8

\* With the entry the log knows what it knew and the text of now.
LEMMA NewLogKnows ==
    ASSUME Calm, Types, Exclusion, Noted, NEW p \in Procs, proc[p].pc = "entries",
           NEW e \in Entry, EntryOf(p) = <<e>>,
           UNCHANGED <<content, wrote, tree>>, Base' = Base,
           NEW w, w = PruneOldCharAttributions(proc[p].cps \o <<e>>)
    PROVE  Knows(w)'
<1> DEFINE me == proc[p]
           s == me.cps
           n == Len(s) + 1
           u == s \o <<e>>
<1>1. /\ StageOf(p) /\ Base = head /\ s \in Seq(Entry) /\ Knows(s) /\ TextOf(p) = content
  BY Calmly, AtEntries DEF Noted
<1>2. e.blob = me.blob /\ e.lines = LineAttributions(e.attr)
  <2>1. EntryOf(p) # <<>> /\ EntryOf(p)[1] = e
    OBVIOUS
  <2> QED
    BY <2>1, EntryHas DEF EntryOf
<1>3. u \in Seq(Entry) /\ Len(u) = n /\ n \in Nat /\ u[n] = e /\ \A i \in 1..Len(s) : u[i] = s[i]
  BY <1>1
<1> HIDE DEF u
<1>4. /\ w \in Seq(Entry) /\ Len(w) = n /\ DOMAIN w = 1..n
      /\ w[n].blob = e.blob /\ w[n].lines = e.lines /\ w[n].attr = e.attr
      /\ \A i \in 1..Len(s) : w[i].blob = s[i].blob
  <2>1. /\ w \in Seq(Entry) /\ Len(w) = n
        /\ \A i \in 1..n :
              /\ w[i].blob = u[i].blob /\ w[i].lines = u[i].lines
              /\ w[i].attr = IF i = n THEN u[i].attr ELSE NoAttr
    <3>1. w = PruneOldCharAttributions(u) /\ DOMAIN u = 1..n
      BY <1>3 DEF u
    <3> QED
      BY <1>3, <3>1, PruneKeeps
  <2>2. DOMAIN w = 1..n
    BY <2>1
  <2>3. n \in 1..n /\ \A i \in 1..Len(s) : i \in 1..n
    BY <1>1, <1>3
  <2> QED
    BY <1>3, <2>1, <2>2, <2>3
<1>5. w # <<>> /\ Last(w) = w[n]
  BY <1>1, <1>3, <1>4 DEF Last
<1>6. \A i \in 1..n : i = n \/ i \in 1..Len(s)
  BY <1>1
<1>7. head' = head /\ (\A c : TreeOf(c)' = TreeOf(c)) /\ Ever' = Ever /\ Fresh' = Fresh
  BY DEF head, TreeOf, Ever, Fresh, IsAgents
<1>8. TextIn(w)' = e.blob /\ AttrIn(w)' = e.attr
  BY <1>4, <1>5 DEF TextIn, AttrIn
<1>9. \A i \in DOMAIN w : w[i].blob \subseteq Ever'
  <2>1. w[n].blob \subseteq Ever
    BY <1>1, <1>2, <1>4 DEF StageOf
  <2>2. \A i \in 1..Len(s) : w[i].blob \subseteq Ever
    <3>1. DOMAIN s = 1..Len(s)
      <4>1. s \in Seq(Entry)
        BY <1>1
      <4> QED
        BY <4>1
    <3> QED
      BY <1>1, <1>4, <3>1 DEF Knows
  <2> QED
    BY <1>4, <1>6, <1>7, <2>1, <2>2
<1>10. \A x \in content : \A i, j \in DOMAIN w : i < j /\ x \in w[i].blob => x \in w[j].blob
  <2> SUFFICES ASSUME NEW x \in content, NEW i \in 1..n, NEW j \in 1..n, i < j, x \in w[i].blob
               PROVE  x \in w[j].blob
    BY <1>4
  <2>1. i \in 1..Len(s) /\ x \in s[i].blob
    BY <1>1, <1>4
  <2>2. CASE j = n
    BY <1>1, <1>2, <1>4, <2>1, <2>2 DEF StageOf
  <2>3. CASE j \in 1..Len(s)
    <3>1. DOMAIN s = 1..Len(s)
      <4>1. s \in Seq(Entry)
        BY <1>1
      <4> QED
        BY <4>1
    <3>2. \A k, m \in DOMAIN s : k < m /\ x \in s[k].blob => x \in s[m].blob
      BY <1>1 DEF Knows
    <3> QED
      BY <1>4, <2>1, <2>3, <3>1, <3>2
  <2> QED
    BY <1>6, <2>2, <2>3
<1>11. \A x \in Fresh : x \in e.blob /\ x \in DOMAIN e.attr /\ e.attr[x] \in Agents
  BY NewEntryKnows
<1> QED
  BY <1>2, <1>4, <1>5, <1>7, <1>8, <1>9, <1>10, <1>11 DEF Knows

LEMMA EntriesNotes ==
    ASSUME Calm, Types, Exclusion, Noted, NEW p \in Procs, Entries(p)
    PROVE  Noted'
<1> DEFINE me == proc[p]
           cp == EntryOf(p)
           known == cp # <<>> /\ \E i \in DOMAIN me.cps : DedupeKey(me.cps[i]) = DedupeKey(cp[1])
           w == PruneOldCharAttributions(me.cps \o cp)
           done == [me EXCEPT !.pc = "clear"]
           q == [me EXCEPT !.pc = "write", !.write = w]
<1>1. me \in Process /\ me.pc = "entries" /\ me.pc \in Checkpointing /\ StageOf(p)
  BY DEF Entries, Types, Checkpointing, Noted
<1>2. /\ me.base = head /\ Base = head /\ Carried = log[head].init /\ head \in Commits
      /\ (p # Committer => proc[Committer].pc = "idle") /\ lock[head] = p
      /\ me.cps \in Seq(Entry) /\ me.cps = log[head].cps
      /\ \A r \in Procs : ~WritesAt(r, head)
      /\ \A s : Tells(s) => s = me.cps
  BY <1>1, AtEntries
<1>3. /\ IF me.skip \/ cp = <<>> \/ known THEN Moves(p, done) /\ UNCHANGED log
         ELSE Moves(p, q) /\ log' = [log EXCEPT ![head].cps = <<>>]
      /\ UNCHANGED <<content, wrote, tree, note>>
  BY <1>2 DEF Entries, EntryOf, Moves
<1>4. ASSUME NEW t, Moves(p, t), t.pc \in {"clear", "write"}, t.base = me.base,
             t.kind = me.kind, t.skip = me.skip, log'[head].marked = log[head].marked
      PROVE  StageOf(p)'
  <2>1. proc'[p] = t
    BY <1>4 DEF Moves, Types
  <2>2. head' = head /\ (\A c : TreeOf(c)' = TreeOf(c)) /\ (\A x : IsAgents(x)' = IsAgents(x))
    BY <1>3 DEF head, TreeOf, IsAgents
  <2>3. PlacesOf(p)' = PlacesOf(p) /\ KindsOf(p)' = KindsOf(p) /\ t.pc \in PlacesOf(p)
    BY <1>4, Calmly DEF PlacesOf, KindsOf, Checkpointing
  <2>4. p # Committer => proc'[Committer].pc = "idle"
    BY <1>2, <1>4, Names DEF Moves, Types
  <2>5. (proc[p].pc \in Checkpointing =>
          /\ proc[p].base = head /\ proc[p].kind \in KindsOf(p)
          /\ proc[p].skip => proc[p].kind \in Agents /\
                \A x \in content : IsAgents(x) => x \in TreeOf(head))'
    BY <1>1, <1>3, <1>4, <2>1, <2>2, <2>3 DEF StageOf
  <2>6. (/\ p \in Agents /\ proc[p].pc # "idle" => log[head].marked
         /\ p = Editor /\ proc[p].pc \in {"entries", "write", "clear"} => ~log[head].marked)'
    BY <1>1, <1>4, <2>1, <2>2 DEF StageOf
  <2> QED
    BY <1>4, <2>1, <2>3, <2>4, <2>5, <2>6 DEF StageOf, CommitRuns
<1>5. CASE me.skip \/ cp = <<>> \/ known
  <2>1. Moves(p, done) /\ UNCHANGED log
    BY <1>3, <1>5
  <2>2. done.pc = "clear" /\ done.base = me.base /\ done.kind = me.kind /\ done.skip = me.skip
    BY <1>1 DEF Process
  <2> HIDE DEF done
  <2>3. StageOf(p)'
    BY <1>4, <2>1, <2>2
  <2>4. \A r \in Procs : proc'[r] = IF r = p THEN done ELSE proc[r]
    BY <2>1 DEF Moves, Types
  <2>5. p \in Agents /\ Unrecorded(p) => Fresh \subseteq TextIn(me.cps)
    <3> SUFFICES ASSUME p \in Agents, me.kind = p PROVE Fresh \subseteq TextIn(me.cps)
      BY <1>1 DEF Unrecorded
    <3> QED
      BY <1>1, <1>5, NothingUnrecorded
  <2>6. p \in Agents /\ Unrecorded(p) /\ ~Unrecorded(p)' =>
              \A s \in Seq(Entry) : Tells(s) => Fresh \subseteq TextIn(s)
    BY <1>2, <2>5
  <2> HIDE DEF cp, known
  <2> QED
    BY <1>1, <1>3, <2>1, <2>2, <2>3, <2>4, <2>6, QuietCheckpoint DEF Checkpointing, Writing
<1>6. CASE ~(me.skip \/ cp = <<>> \/ known)
  <2>1. PICK e \in Entry : cp = <<e>>
    BY <1>6, WhatItWrites
  <2>2. Moves(p, q) /\ log' = [log EXCEPT ![head].cps = <<>>]
    BY <1>3, <1>6
  <2>3. /\ q.pc = "write" /\ q.base = me.base /\ q.kind = me.kind /\ q.skip = me.skip
        /\ q.write = w
    BY <1>1 DEF Process
  <2> HIDE DEF q, known
  <2>4. \A r \in Procs : proc'[r] = IF r = p THEN q ELSE proc[r]
    BY <2>2 DEF Moves, Types
  <2>5. \A c \in Commits : /\ c # head => log'[c] = log[c]
                           /\ log'[c].cut = log[c].cut /\ log'[c].init = log[c].init
                           /\ log'[c].marked = log[c].marked
    BY <1>2, <2>2 DEF Types, Log
  <2>6. /\ EverInv' /\ CommitInv' /\ NoteInv' /\ head' = head
        /\ Base' = head /\ Base' = Base /\ Carried' = Carried
    BY <1>1, <1>3, <2>3, <2>4, <2>5, CheckpointFrame DEF Checkpointing
  <2>7. StageOf(p)'
    BY <1>2, <1>4, <2>2, <2>3, <2>5
  <2>8. \A r \in Procs : r # p => StageOf(r)'
    <3>1. me.pc \in Holding /\ log'[head].marked = log[head].marked
      BY <1>1, <1>2, <2>5 DEF Holding
    <3>2. UNCHANGED <<content, wrote, tree>>
      BY <1>3
    <3> QED
      BY <1>1, <2>4, <3>1, <3>2, OthersStages
  <2>9. ASSUME NEW s, s = w PROVE Knows(s)'
    BY <1>1, <1>3, <2>1, <2>6, <2>9, NewLogKnows
  <2> HIDE DEF w, cp
  <2>10. ASSUME NEW s, Tells(s)' PROVE s = w
    <3>1. WritesAt(p, Base)'
      BY <1>2, <2>3, <2>4, <2>6 DEF WritesAt, Writing
    <3>2. \A r \in Procs : r # p => ~WritesAt(r, Base)'
      BY <1>2, <2>4, <2>6 DEF WritesAt
    <3> QED
      BY <2>3, <2>4, <2>10, <3>1, <3>2 DEF Tells
  <2> QED
    BY <2>6, <2>7, <2>8, <2>9, <2>10 DEF Noted
<1> QED
  BY <1>5, <1>6

LEMMA WriteNotes ==
    ASSUME Calm, Types, Exclusion, Noted, NEW p \in Procs, Write(p)
    PROVE  Noted'
<1> DEFINE me == proc[p]
           q == [me EXCEPT !.pc = "clear"]
<1>1. me \in Process /\ me.pc = "write" /\ me.pc \in Checkpointing /\ StageOf(p)
  BY DEF Write, Types, Checkpointing, Noted
<1>2. /\ me.base = head /\ Base = head /\ head \in Commits
      /\ (p # Committer => proc[Committer].pc = "idle")
  BY <1>1, AtHead, HeadIsCommit DEF Noted
<1>3. /\ Moves(p, q) /\ UNCHANGED <<content, wrote, tree, note>>
      /\ log' = [log EXCEPT ![head].cps = me.write]
  BY <1>2 DEF Write, Moves
<1>4. /\ q.pc = "clear" /\ q.base = me.base /\ q.kind = me.kind /\ q.skip = me.skip
  BY <1>1 DEF Process
<1> HIDE DEF q
<1>5. \A r \in Procs : proc'[r] = IF r = p THEN q ELSE proc[r]
  BY <1>3 DEF Moves, Types
<1>6. \A c \in Commits : /\ c # head => log'[c] = log[c]
                         /\ log'[c].cut = log[c].cut /\ log'[c].init = log[c].init
                         /\ log'[c].marked = log[c].marked
  BY <1>2, <1>3 DEF Types, Log
<1>7. log'[head].cps = me.write
  BY <1>2, <1>3 DEF Types, Log
<1>8. /\ EverInv' /\ CommitInv' /\ NoteInv' /\ head' = head
      /\ Base' = head /\ Base' = Base /\ Carried' = Carried
  BY <1>1, <1>3, <1>4, <1>5, <1>6, CheckpointFrame DEF Checkpointing
<1>9. StageOf(p)'
  <2>1. (\A c : TreeOf(c)' = TreeOf(c)) /\ (\A x : IsAgents(x)' = IsAgents(x))
    BY <1>3 DEF TreeOf, IsAgents
  <2>2. PlacesOf(p)' = PlacesOf(p) /\ KindsOf(p)' = KindsOf(p) /\ "clear" \in PlacesOf(p)
    BY Calmly DEF PlacesOf, KindsOf, Checkpointing
  <2>3. p # Committer => proc'[Committer].pc = "idle"
    BY <1>2, <1>5, Names
  <2>4. (proc[p].pc \in Checkpointing =>
          /\ proc[p].base = head /\ proc[p].kind \in KindsOf(p)
          /\ proc[p].skip => proc[p].kind \in Agents /\
                \A x \in content : IsAgents(x) => x \in TreeOf(head))'
    BY <1>1, <1>3, <1>4, <1>5, <1>8, <2>1, <2>2 DEF StageOf
  <2>5. (/\ p \in Agents /\ proc[p].pc # "idle" => log[head].marked
         /\ p = Editor /\ proc[p].pc \in {"entries", "write", "clear"} => ~log[head].marked)'
    BY <1>1, <1>2, <1>6, <1>8 DEF StageOf
  <2> QED
    BY <1>4, <1>5, <2>2, <2>3, <2>4, <2>5 DEF StageOf, CommitRuns
<1>10. \A r \in Procs : r # p => StageOf(r)'
  <2>1. me.pc \in Holding /\ log'[head].marked = log[head].marked
    BY <1>1, <1>2, <1>6 DEF Holding
  <2>2. UNCHANGED <<content, wrote, tree>>
    BY <1>3
  <2> QED
    BY <1>1, <1>5, <2>1, <2>2, OthersStages
<1>11. ASSUME NEW s \in Seq(Entry), Tells(s)' PROVE Knows(s)'
  <2>1. lock[head] = p
    BY <1>1, <1>2 DEF Exclusion, Holding
  <2>2. \A r \in Procs : ~WritesAt(r, Base)'
    BY <1>2, <1>4, <1>5, <1>8, <2>1, OnlyOneWrites DEF WritesAt, Writing
  <2>3. s = me.write
    BY <1>7, <1>8, <1>11, <2>2 DEF Tells
  <2>4. Tells(s) /\ Knows(s)
    BY <1>1, <1>2, <2>3 DEF Tells, WritesAt, Writing, Noted
  <2>5. \A a \in Agents : Unrecorded(a) => Unrecorded(a)'
    BY <1>1, <1>5, Names DEF Unrecorded
  <2> QED
    BY <1>3, <1>8, <2>4, <2>5, KnowsOn
<1> QED
  BY <1>8, <1>9, <1>10, <1>11 DEF Noted

LEMMA CheckpointNotes ==
    ASSUME Calm, Types, Exclusion, Noted, NEW p \in Procs, Checkpoint(p)
    PROVE  Noted'
BY AcquireNotes, ReadNotes, EntriesNotes, WriteNotes, ClearNotes DEF Checkpoint

\* A line that comes has never been there.
LEMMA NewLine ==
    ASSUME Calm, Types, NEW by \in Authors \ {Human}, NEW x \in Lines, Add(by, x)
    PROVE  /\ x \notin Ever /\ Ever' = Ever \cup {x} /\ content' = content \cup {x}
           /\ wrote'[x] = by /\ \A y : y # x => IsAgents(y)' = IsAgents(y)
           /\ ~IsAgents(x) /\ (IsAgents(x)' <=> by \in Agents)
<1>1. /\ wrote[x] = Human /\ content' = content \cup {x} /\ wrote' = [wrote EXCEPT ![x] = by]
      /\ wrote \in [Lines -> Authors]
  BY DEF Add, Calm, Types
<1>2. \A y : y # x => wrote'[y] = wrote[y]
  BY <1>1
<1> QED
  BY <1>1, <1>2, Names DEF Ever, IsAgents

LEMMA EditNotes ==
    ASSUME Calm, Types, Exclusion, Noted, NEW by \in Authors \ {Human}, NEW x \in Lines, Add(by, x),
           UNCHANGED <<tree, log, note>>,
           \A p \in Procs : proc'[p] = IF p = by THEN [proc[p] EXCEPT !.pc = "edited"] ELSE proc[p],
           by \in Agents => proc[by].pc = "hooked",
           by \in Procs => by \in Agents
    PROVE  Noted'
<1>1. /\ x \notin Ever /\ Ever' = Ever \cup {x} /\ content' = content \cup {x}
      /\ (\A y : y # x => IsAgents(y)' = IsAgents(y))
      /\ ~IsAgents(x) /\ (IsAgents(x)' <=> by \in Agents)
      /\ wrote'[x] = by /\ \A y \in Lines : y # x => wrote'[y] = wrote[y]
  <2>1. \A y \in Lines : y # x => wrote'[y] = wrote[y]
    BY DEF Add, Types
  <2> QED
    BY <2>1, NewLine
<1>2. head' = head /\ \A c : TreeOf(c)' = TreeOf(c)
  BY DEF head, TreeOf
<1>3. /\ proc'[Committer] = proc[Committer]
      /\ \A p \in Procs : p # by => proc'[p] = proc[p]
      /\ by \in Procs => proc'[by].pc = "edited" /\ proc'[by].kind = proc[by].kind
  <2>1. by # Committer /\ Committer \in Procs
    BY Names
  <2>2. ASSUME by \in Procs
        PROVE  proc'[by].pc = "edited" /\ proc'[by].kind = proc[by].kind
    <3>1. proc[by] \in Process /\ proc'[by] = [proc[by] EXCEPT !.pc = "edited"]
      BY <2>2 DEF Types
    <3> QED
      BY <3>1 DEF Process
  <2> QED
    BY <2>1, <2>2
<1>4. Base' = Base /\ Carried' = Carried
  BY <1>2, <1>3 DEF Base, Carried
<1>5. EverInv'
  <2>1. content' \subseteq Ever' /\ Carried'.content \subseteq Ever'
    BY <1>1, <1>4 DEF Noted, EverInv
  <2>2. ASSUME NEW c \in 0..head
        PROVE  /\ TreeOf(c) \subseteq Ever'
               /\ \A y \in Lines : tree[c + 1].by[y] \in Agents => tree[c + 1].by[y] = wrote'[y]
    <3>1. TreeOf(c) \subseteq Ever'
      BY <1>1 DEF Noted, EverInv
    <3>2. ASSUME NEW y \in Lines, tree[c + 1].by[y] \in Agents PROVE tree[c + 1].by[y] = wrote'[y]
      <4>1. tree[c + 1].by[y] = wrote[y] /\ wrote[y] # Human
        BY <3>2, Names DEF Noted, EverInv
      <4>2. y # x
        BY <1>1, <4>1 DEF Ever
      <4> QED
        BY <1>1, <4>1, <4>2
    <3> QED
      BY <3>1, <3>2
  <2> QED
    BY <1>2, <2>1, <2>2 DEF EverInv
<1>6. CommitInv'
  <2>1. ASSUME proc[Committer].pc \in Refreshing
        PROVE  TreeOf(head - 1) \cap content' \subseteq TreeOf(head)
    <3>1. head - 1 \in 0..head
      BY <2>1, HeadIsCommit, Names DEF Noted, CommitInv, AfterGit, Refreshing, Types, Process, Commits
    <3>2. x \notin TreeOf(head - 1)
      BY <1>1, <3>1 DEF Noted, EverInv
    <3> QED
      BY <1>1, <2>1, <3>2 DEF Noted, CommitInv
  <2> QED
    BY <1>2, <1>3, <2>1 DEF Noted, CommitInv
<1>7. NoteInv'
  <2>1. ASSUME proc[Committer].pc = "note", NEW y \in TreeOf(head) \ TreeOf(head - 1), IsAgents(y)'
        PROVE  y \in DOMAIN proc[Committer].note /\ proc[Committer].note[y] \in Agents
    <3>1. y # x
      BY <1>1, HeadIsCommit DEF Noted, EverInv
    <3> QED
      BY <1>1, <2>1, <3>1 DEF Noted, NoteInv
  <2> QED
    BY <1>2, <1>3, <2>1 DEF Noted, NoteInv
<1>8. ASSUME NEW r \in Procs PROVE StageOf(r)'
  <2>0. StageOf(r)
    BY DEF Noted
  <2>1. CASE r = by
    <3>1. r \in Agents /\ r # Editor /\ r # Committer /\ proc'[r].pc = "edited" /\ proc[r].pc = "hooked"
      BY <1>3, <2>1, Names
    <3>2. "edited" \in PlacesOf(r)' /\ "edited" \notin Checkpointing
      BY <3>1, Calmly DEF PlacesOf, Checkpointing
    <3>3. ~CommitRuns' /\ log'[head].marked
      BY <1>3, <2>0, <3>1 DEF StageOf, CommitRuns
    <3> QED
      BY <1>2, <3>1, <3>2, <3>3 DEF StageOf
  <2>2. CASE r # by
    <3>1. proc'[r] = proc[r] /\ proc'[Committer].pc = proc[Committer].pc
      BY <1>3, <2>2
    <3>2. PlacesOf(r)' = PlacesOf(r) /\ KindsOf(r)' = KindsOf(r)
      BY DEF PlacesOf, KindsOf
    <3>3. by \in Agents => ~proc[r].pc \in {"entries"} /\ (proc[r].pc \in Checkpointing => ~proc[r].skip)
      <4> SUFFICES ASSUME by \in Agents, proc[r].pc \in Checkpointing
                   PROVE  proc[r].pc # "entries" /\ ~proc[r].skip
        BY DEF Checkpointing
      <4>1. StageOf(by) /\ by \in Procs /\ by # Committer
        BY Names DEF Noted
      <4>2. r = Editor
        BY <2>0, <2>2, <4>1 DEF Procs, Calm, StageOf, CommitRuns, Checkpointing
      <4>3. log[head].marked
        BY <4>1 DEF StageOf
      <4> QED
        BY <2>0, <4>2, <4>3, Names DEF StageOf, KindsOf
    <3>4. \A y \in content' : IsAgents(y)' => (y \in content /\ IsAgents(y)) \/ by \in Agents
      BY <1>1
    <3>5. (proc[r].pc \in Checkpointing =>
          /\ proc[r].base = head /\ proc[r].kind \in KindsOf(r)
          /\ proc[r].skip => proc[r].kind \in Agents /\
                \A y \in content : IsAgents(y) => y \in TreeOf(head))'
      BY <1>2, <2>0, <3>1, <3>2, <3>3, <3>4 DEF StageOf
    <3>6. (proc[r].pc = "entries" =>
          /\ proc[r].cps = log[head].cps
          /\ proc[r].blob \subseteq Ever
          /\ \A y \in content : IsAgents(y) => y \in proc[r].blob
          /\ \A y \in content : \A i \in DOMAIN proc[r].cps :
                y \in proc[r].cps[i].blob => y \in proc[r].blob)'
      <4> SUFFICES ASSUME proc[r].pc = "entries"
                   PROVE  /\ proc[r].cps = log[head].cps
                          /\ proc[r].blob \subseteq Ever'
                          /\ \A y \in content' : IsAgents(y)' => y \in proc[r].blob
                          /\ \A y \in content' : \A i \in DOMAIN proc[r].cps :
                                y \in proc[r].cps[i].blob => y \in proc[r].blob
        BY <1>2, <3>1
      <4>1. /\ proc[r].cps = log[head].cps /\ proc[r].blob \subseteq Ever
            /\ \A y \in content : IsAgents(y) => y \in proc[r].blob
            /\ \A y \in content : \A i \in DOMAIN proc[r].cps :
                  y \in proc[r].cps[i].blob => y \in proc[r].blob
        BY <2>0 DEF StageOf
      <4>2. Knows(proc[r].cps)
        BY AtEntries DEF Noted
      <4>3. \A i \in DOMAIN proc[r].cps : x \notin proc[r].cps[i].blob
        BY <1>1, <4>2 DEF Knows
      <4>4. \A y \in content' : y = x \/ y \in content
        BY <1>1
      <4> QED
        BY <1>1, <3>3, <3>4, <4>1, <4>3, <4>4
    <3> QED
      BY <1>2, <2>0, <3>1, <3>2, <3>5, <3>6 DEF StageOf, CommitRuns
  <2> QED
    BY <2>1, <2>2
<1>9. ASSUME NEW s \in Seq(Entry), Tells(s)' PROVE Knows(s)'
  <2>1. Tells(s) /\ Knows(s)
    <3>1. \A r \in Procs : /\ WritesAt(r, Base)' <=> WritesAt(r, Base)
                           /\ WritesAt(r, Base) => proc'[r].write = proc[r].write
      BY <1>3, <1>4 DEF WritesAt, Writing
    <3>2. Tells(s)
      BY <1>4, <1>9, <3>1 DEF Tells
    <3> QED
      BY <3>2 DEF Noted
  <2>2. TextIn(s)' = TextIn(s) /\ AttrIn(s)' = AttrIn(s)
    BY <1>2, <1>4 DEF TextIn, AttrIn
  <2>3. x \notin TextIn(s) /\ \A i \in DOMAIN s : x \notin s[i].blob
    <3>1. Base \in 0..head
      BY HeadIsCommit, Names DEF Base, Types, Process, Commits
    <3>2. \A i \in DOMAIN s : x \notin s[i].blob
      BY <1>1, <2>1 DEF Knows
    <3>3. s # <<>> => Len(s) \in DOMAIN s /\ Last(s) = s[Len(s)]
      BY DEF Last
    <3> QED
      BY <1>1, <3>1, <3>2, <3>3 DEF TextIn, Noted, EverInv
  <2>4. \A y \in Fresh' : y \in Fresh \/ (y = x /\ by \in Agents)
    BY <1>1, <1>2, <1>4 DEF Fresh
  <2>5. \A a \in Agents : Unrecorded(a) => Unrecorded(a)'
    BY <1>3, Names DEF Unrecorded
  <2>6. by \in Agents => Unrecorded(by)'
    BY <1>3, Names DEF Unrecorded
  <2>7. \A y \in Fresh : y # x
    BY <1>1 DEF Fresh
  <2>8. (\A y \in Fresh : IF y \in TextIn(s) THEN y \in DOMAIN AttrIn(s) /\ AttrIn(s)[y] \in Agents
                          ELSE \E a \in Agents : Unrecorded(a))'
    BY <2>1, <2>2, <2>3, <2>4, <2>5, <2>6 DEF Knows
  <2>9. (/\ s # <<>> => Last(s).lines = LineAttributions(Last(s).attr)
         /\ \A i \in DOMAIN s : s[i].blob \subseteq Ever
         /\ \A y \in content : \A i, j \in DOMAIN s : i < j /\ y \in s[i].blob => y \in s[j].blob)'
    BY <1>1, <2>1, <2>3 DEF Knows
  <2> QED
    BY <2>8, <2>9 DEF Knows
<1> QED
  BY <1>5, <1>6, <1>7, <1>8, <1>9 DEF Noted

LEMMA UserNotes ==
    ASSUME Calm, Types, Exclusion, Noted, NEW x \in Lines, HumanAdds(x) \/ HumanRemoves(x)
    PROVE  Noted'
<1>1. CASE HumanAdds(x)
  <2>1. Known \in Authors \ {Human} /\ Known \notin Procs
    BY AgentsAssumption, Names DEF Procs, Known, Editor, Committer
  <2>2. Add(Known, x) /\ UNCHANGED <<tree, log, note, proc>>
    BY <1>1 DEF HumanAdds
  <2> QED
    BY <2>1, <2>2, Names, EditNotes
<1>2. CASE HumanRemoves(x)
  <2>1. content' \subseteq content /\ UNCHANGED <<wrote, tree, log, proc, note>>
    BY <1>2 DEF HumanRemoves
  <2>2. head' = head /\ (\A c : TreeOf(c)' = TreeOf(c)) /\ Ever' = Ever /\ (\A y : IsAgents(y)' = IsAgents(y))
    BY <2>1 DEF head, TreeOf, Ever, IsAgents
  <2>3. Base' = Base /\ Carried' = Carried
    BY <2>1, <2>2 DEF Base, Carried
  <2>4. EverInv' /\ NoteInv'
    BY <2>1, <2>2, <2>3 DEF Noted, EverInv, NoteInv
  <2>5. CommitInv'
    BY <2>1, <2>2 DEF Noted, CommitInv
  <2>6. \A r \in Procs : StageOf(r)'
    <3> SUFFICES ASSUME NEW r \in Procs PROVE StageOf(r)'
      OBVIOUS
    <3>1. StageOf(r)
      BY DEF Noted
    <3>2. r \in Agents /\ proc[r].pc # "idle" => log'[head].marked
      BY <2>1, <3>1 DEF StageOf
    <3>3. r = Editor /\ proc[r].pc \in {"entries", "write", "clear"} => ~log'[head].marked
      BY <2>1, <3>1 DEF StageOf
    <3> QED
      BY <2>1, <3>1, <3>2, <3>3, StageKept
  <2>7. \A s \in Seq(Entry) : Tells(s)' => Knows(s)'
    <3> SUFFICES ASSUME NEW s \in Seq(Entry), Tells(s)' PROVE Knows(s)'
      OBVIOUS
    <3>1. Tells(s) /\ Knows(s)
      BY <2>1, <2>3 DEF Tells, WritesAt, Noted
    <3>2. \A a \in Agents : Unrecorded(a) => Unrecorded(a)'
      BY <2>1 DEF Unrecorded
    <3> QED
      BY <2>1, <2>3, <3>1, <3>2, KnowsOn
  <2> QED
    BY <2>4, <2>5, <2>6, <2>7 DEF Noted
<1> QED
  BY <1>1, <1>2

LEMMA AgentNotes ==
    ASSUME Calm, Types, Exclusion, Noted, NEW a \in Agents, NEW x \in Lines, AgentEdits(a, x)
    PROVE  Noted'
<1>1. a \in Authors \ {Human} /\ a \in Procs
  BY Names
<1>2. Add(a, x) /\ UNCHANGED <<tree, log, note>> /\ proc[a].pc = "hooked"
  BY DEF AgentEdits
<1>3. \A p \in Procs : proc'[p] = IF p = a THEN [proc[p] EXCEPT !.pc = "edited"] ELSE proc[p]
  BY <1>1 DEF AgentEdits, Types
<1> QED
  BY <1>1, <1>2, <1>3, EditNotes

\* A hook, a save or a commit begins its checkpoint.
LEMMA BeginNotes ==
    ASSUME Calm, Types, Exclusion, Noted, NEW p \in Procs, NEW q,
           proc[p].pc \in {"idle", "edited"}, ~CommitRuns,
           p = Committer => \A r \in Procs : proc[r].pc = "idle",
           \A r \in Procs : proc'[r] = IF r = p THEN q ELSE proc[r],
           q.pc \in {"lock", "hooked", "idle", "git"},
           UNCHANGED <<content, wrote, tree, note>>,
           \A c \in Commits : /\ c # head => log'[c] = log[c]
                              /\ log'[c].cut = log[c].cut /\ log'[c].init = log[c].init
                              /\ log'[c].cps = log[c].cps,
           log'[head].marked = log[head].marked \/ (log'[head].marked /\ lock[head] = Nobody),
           StageOf(p)', p \in Agents /\ Unrecorded(p) => Unrecorded(p)'
    PROVE  Noted'
<1>1. proc[Committer].pc = "idle" /\ Base = head /\ Carried = log[head].init /\ head \in Commits
  BY HeadIsCommit DEF CommitRuns, Base, Carried, Refreshing
<1>2. /\ EverInv' /\ CommitInv' /\ NoteInv' /\ head' = head
      /\ Base' = head /\ Base' = Base /\ Carried' = Carried
  BY <1>1, WorkFrame DEF Checkpointing
<1>3. ASSUME NEW r \in Procs, r # p PROVE StageOf(r)'
  <2>1. StageOf(r) /\ proc'[r] = proc[r]
    BY <1>3 DEF Noted
  <2>2. CASE p = Committer
    BY <2>1, <2>2, RestingStage
  <2>3. CASE p # Committer
    <3>1. proc'[Committer].pc = "idle"
      BY <1>1, <2>3, Names
    <3>2. r \in Agents /\ proc[r].pc # "idle" => log'[head].marked
      BY <2>1 DEF StageOf
    <3>3. r = Editor /\ proc[r].pc \in {"entries", "write", "clear"} => ~log'[head].marked
      <4> SUFFICES ASSUME r = Editor, proc[r].pc \in {"entries", "write", "clear"}
                   PROVE  ~log'[head].marked
        OBVIOUS
      <4>1. proc[r].base = head /\ ~log[head].marked
        BY <2>1 DEF StageOf, Checkpointing
      <4>2. lock[head] # Nobody
        BY <4>1, Names DEF Exclusion, Holding
      <4> QED
        BY <4>1, <4>2
    <3> QED
      BY <1>1, <2>1, <3>1, <3>2, <3>3, StageKept
  <2> QED
    BY <2>2, <2>3
<1>4. ASSUME NEW s \in Seq(Entry), Tells(s)' PROVE Knows(s)'
  <2>1. Tells(s) /\ Knows(s)
    <3>1. proc[p].pc \notin Writing /\ q.pc \notin Writing /\ log'[Base].cps = log[Base].cps
      BY <1>1 DEF Writing
    <3>2. Tells(s)
      BY <1>2, <1>4, <3>1, TellsSame
    <3> QED
      BY <3>2 DEF Noted
  <2>2. \A a \in Agents : Unrecorded(a) => Unrecorded(a)'
    BY Names DEF Unrecorded
  <2> QED
    BY <1>2, <2>1, <2>2, KnowsOn
<1> QED
  BY <1>2, <1>3, <1>4 DEF Noted

LEMMA ResolveGives ==
    ASSUME Types, NEW p \in Procs, NEW k \in KindsOf(p), Resolve(p, k)
    PROVE  \E q : /\ \A r \in Procs : proc'[r] = IF r = p THEN q ELSE proc[r]
                  /\ \/ q = AfterCheckpoint(p, k) /\ k \notin Agents
                     \/ /\ q.pc = "lock" /\ q.kind = k /\ q.base = head
                        /\ q.skip => k \in Agents /\ content = TreeOf(head)
<1> DEFINE l == log[head]
           unseen == ~l.cut /\ \A i \in DOMAIN l.cps : ~IsAi(l.cps[i].kind)
           skipped == \/ content = TreeOf(head)
                      \/ p = Committer /\ (l.cut \/ unseen) /\ l.init.attr = NoAttr
           q == [Idle EXCEPT !.pc = "lock", !.kind = k, !.base = head,
                             !.text = content, !.skip = skipped]
<1>1. Moves(p, IF skipped /\ ~IsAi(k) THEN AfterCheckpoint(p, k) ELSE q)
  BY DEF Resolve, Moves
<1>2. q.pc = "lock" /\ q.kind = k /\ q.base = head /\ q.skip = skipped
  BY DEF Idle
<1> HIDE DEF q
<1>3. skipped /\ IsAi(k) => k \in Agents /\ content = TreeOf(head)
  BY Names DEF IsAi, KindsOf
<1> HIDE DEF skipped
<1>4. CASE skipped /\ ~IsAi(k)
  <2>1. Moves(p, AfterCheckpoint(p, k)) /\ k \notin Agents
    BY <1>1, <1>4 DEF IsAi
  <2> QED
    BY <2>1 DEF Moves, Types
<1>5. CASE ~(skipped /\ ~IsAi(k))
  <2>1. Moves(p, q)
    BY <1>1, <1>5
  <2>2. \A r \in Procs : proc'[r] = IF r = p THEN q ELSE proc[r]
    BY <2>1 DEF Moves, Types
  <2>3. q.skip => k \in Agents /\ content = TreeOf(head)
    BY <1>2, <1>3, <1>5
  <2> QED
    BY <1>2, <2>2, <2>3
<1> QED
  BY <1>4, <1>5

\* Where a process is when it has begun.
LEMMA BegunStage ==
    ASSUME Calm, Types, NEW p \in Procs, NEW q, NEW k \in KindsOf(p), proc'[p] = q,
           UNCHANGED <<content, wrote, tree>>,
           \/ q = AfterCheckpoint(p, k) /\ k \notin Agents
           \/ /\ q.pc = "lock" /\ q.kind = k /\ q.base = head
              /\ q.skip => k \in Agents /\ content = TreeOf(head),
           p # Committer => proc'[Committer].pc = "idle",
           p \in Agents => log'[head].marked
    PROVE  StageOf(p)' /\ q.pc \in {"lock", "hooked", "idle", "git"}
<1>1. head' = head /\ (\A c : TreeOf(c)' = TreeOf(c)) /\ (\A x : IsAgents(x)' = IsAgents(x))
  BY DEF head, TreeOf, IsAgents
<1>2. k \in Authors
  BY Names DEF KindsOf
<1>3. CASE q = AfterCheckpoint(p, k)
  <2>1. /\ q.pc \in {"idle", "hooked", "git"}
        /\ q.pc = "git" => p = Committer
        /\ q.pc = "hooked" => p \in Agents
    BY <1>2, <1>3, IdleIsProcess
  <2>2. CASE q.pc # "hooked"
    BY <2>1, <2>2, RestingStage
  <2>3. CASE q.pc = "hooked"
    <3>1. p \in Agents /\ p # Committer /\ p # Editor
      BY <2>1, <2>3, Names
    <3>2. "hooked" \in PlacesOf(p)' /\ "hooked" \notin Checkpointing
      BY <3>1, Calmly DEF PlacesOf, Checkpointing
    <3> QED
      BY <1>1, <2>3, <3>1, <3>2 DEF StageOf, CommitRuns
  <2> QED
    BY <2>1, <2>2, <2>3
<1>4. CASE /\ q.pc = "lock" /\ q.kind = k /\ q.base = head
           /\ q.skip => k \in Agents /\ content = TreeOf(head)
  <2>1. "lock" \in PlacesOf(p)' /\ KindsOf(p)' = KindsOf(p)
    BY Calmly DEF PlacesOf, KindsOf, Checkpointing
  <2> QED
    BY <1>1, <1>4, <2>1 DEF StageOf, CommitRuns
<1> QED
  BY <1>3, <1>4

LEMMA HookNotes ==
    ASSUME Calm, Types, Exclusion, Noted, NEW a \in Agents, BeforeEdit(a) \/ AfterEdit(a)
    PROVE  Noted'
<1> DEFINE m == log[head].marked \/ a \in Marks
<1>1. a \in Procs /\ a # Committer /\ a # Editor /\ a # Human /\ StageOf(a)
  BY Names DEF Noted
<1>2. KindsOf(a) = {Human, a}
  BY <1>1 DEF KindsOf
<1>3. head \in Commits /\ log \in [Commits -> Log] /\ log[head] \in Log
  BY HeadIsCommit DEF Types
<1>4. UNCHANGED <<content, wrote, tree, note>> /\ proc[a].pc \in {"idle", "edited"}
  BY DEF BeforeEdit, AfterEdit
<1>5. ~CommitRuns
  BY <1>1, Calmly DEF BeforeEdit, AfterEdit, StageOf
<1>6. /\ \A c \in Commits : /\ c # head => log'[c] = log[c]
                            /\ log'[c].cut = log[c].cut /\ log'[c].init = log[c].init
                            /\ log'[c].cps = log[c].cps
      /\ log'[head].marked
      /\ log'[head].marked = log[head].marked \/ (log'[head].marked /\ lock[head] = Nobody)
  <2>1. CASE BeforeEdit(a)
    <3>1. m = TRUE /\ lock[head] = Nobody
      BY <2>1 DEF BeforeEdit, Calm
    <3>2. log' = [log EXCEPT ![head].marked = m]
      BY <1>3, <2>1 DEF BeforeEdit
    <3> HIDE DEF m
    <3> QED
      BY <1>3, <3>1, <3>2 DEF Log
  <2>2. CASE AfterEdit(a)
    <3>1. UNCHANGED log /\ log[head].marked
      BY <1>1, <2>2 DEF AfterEdit, StageOf
    <3> QED
      BY <3>1
  <2> QED
    BY <2>1, <2>2
<1>7. PICK k \in KindsOf(a) : Resolve(a, k) /\ (proc[a].pc = "edited" => k = a)
  BY <1>2 DEF BeforeEdit, AfterEdit
<1>8. PICK q : /\ \A r \in Procs : proc'[r] = IF r = a THEN q ELSE proc[r]
               /\ \/ q = AfterCheckpoint(a, k) /\ k \notin Agents
                  \/ /\ q.pc = "lock" /\ q.kind = k /\ q.base = head
                     /\ q.skip => k \in Agents /\ content = TreeOf(head)
  BY <1>1, <1>7, ResolveGives
<1>9. proc'[a] = q /\ proc'[Committer].pc = "idle"
  BY <1>1, <1>5, <1>8, Names DEF CommitRuns
<1>10. StageOf(a)' /\ q.pc \in {"lock", "hooked", "idle", "git"}
  BY <1>1, <1>4, <1>6, <1>8, <1>9, BegunStage
<1>11. Unrecorded(a) => Unrecorded(a)'
  BY <1>4, <1>7, <1>8, <1>9 DEF Unrecorded
<1>12. \A r \in Procs : proc'[r] = IF r = a THEN q ELSE proc[r]
  BY <1>8
<1>13. a \in Procs /\ (a = Committer => \A r \in Procs : proc[r].pc = "idle")
  BY <1>1
<1>14. \A c \in Commits : /\ c # head => log'[c] = log[c]
                          /\ log'[c].cut = log[c].cut /\ log'[c].init = log[c].init
                          /\ log'[c].cps = log[c].cps
  BY <1>6
<1>15. log'[head].marked = log[head].marked \/ (log'[head].marked /\ lock[head] = Nobody)
  BY <1>6
<1> QED
  BY <1>4, <1>5, <1>10, <1>11, <1>12, <1>13, <1>14, <1>15, BeginNotes

LEMMA BeginsNotes ==
    ASSUME Calm, Types, Exclusion, Noted, Save \/ CommitStarts
    PROVE  Noted'
<1>1. PICK p \in {Editor, Committer}, k \in Authors :
          /\ k \in KindsOf(p) /\ Resolve(p, k) /\ proc[p].pc = "idle" /\ ~CommitRuns
          /\ p = Committer => \A r \in Procs : proc[r].pc = "idle"
  <2>1. CASE Save
    <3>1. Known \in KindsOf(Editor)
      BY DEF KindsOf
    <3>2. Resolve(Editor, Known) /\ proc[Editor].pc = "idle" /\ ~CommitRuns
      BY <2>1, Calmly, Names DEF Save
    <3> QED
      BY <3>1, <3>2, Names
  <2>2. CASE CommitStarts
    <3>1. Human \in KindsOf(Committer)
      BY Names DEF KindsOf
    <3>2. /\ Resolve(Committer, Human) /\ proc[Committer].pc = "idle" /\ ~CommitRuns
          /\ \A r \in Procs : proc[r].pc = "idle"
      BY <2>2 DEF CommitStarts, CommitRuns, Calm
    <3> QED
      BY <3>1, <3>2, Names
  <2> QED
    BY <2>1, <2>2
<1>2. p \in Procs /\ p \notin Agents
  BY Names
<1>3. UNCHANGED <<content, wrote, tree, note, log>>
  BY DEF Save, CommitStarts
<1>4. PICK q : /\ \A r \in Procs : proc'[r] = IF r = p THEN q ELSE proc[r]
               /\ \/ q = AfterCheckpoint(p, k) /\ k \notin Agents
                  \/ /\ q.pc = "lock" /\ q.kind = k /\ q.base = head
                     /\ q.skip => k \in Agents /\ content = TreeOf(head)
  BY <1>1, <1>2, ResolveGives
<1>5. proc'[p] = q /\ (p # Committer => proc'[Committer].pc = "idle")
  BY <1>1, <1>2, <1>4, Names DEF CommitRuns
<1>6. StageOf(p)' /\ q.pc \in {"lock", "hooked", "idle", "git"}
  BY <1>1, <1>2, <1>3, <1>4, <1>5, BegunStage
<1> QED
  BY <1>1, <1>2, <1>3, <1>4, <1>6, BeginNotes

LEMMA NewTree ==
    ASSUME Types, NEW staged, tree' = Append(tree, [lines |-> staged, by |-> wrote])
    PROVE  /\ head' = head + 1 /\ tree'[head' + 1] = [lines |-> staged, by |-> wrote]
           /\ TreeOf(head)' = staged /\ TreeOf(head - 1)' = TreeOf(head)
           /\ \A c \in 0..head : tree'[c + 1] = tree[c + 1] /\ TreeOf(c)' = TreeOf(c)
<1>1. tree \in Seq(Tree) /\ Len(tree) \in Nat
  BY DEF Types
<1>2. head' = head + 1 /\ head + 1 = Len(tree) /\ tree'[Len(tree) + 1] = [lines |-> staged, by |-> wrote]
  BY <1>1 DEF head
<1>3. \A i \in 1..Len(tree) : tree'[i] = tree[i]
  BY <1>1
<1>4. \A c \in 0..head : c + 1 \in 1..Len(tree)
  BY <1>1 DEF head
<1>5. \A c \in 0..head : tree'[c + 1] = tree[c + 1]
  BY <1>3, <1>4
<1>6. head \in 0..head /\ head' - 1 + 1 = head + 1 /\ head' + 1 = Len(tree) + 1
  BY <1>1, <1>2, BoundsAssumption DEF head, Types
<1> QED
  BY <1>2, <1>5, <1>6 DEF TreeOf

\* While a commit is under way nothing else is.
LEMMA CommitAlone ==
    ASSUME Noted, proc[Committer].pc # "idle"
    PROVE  /\ \A r \in Procs : r # Committer => proc[r].pc = "idle"
           /\ \A a \in Agents : ~Unrecorded(a)
<1>1. \A r \in Procs : r # Committer => proc[r].pc = "idle"
  BY DEF Noted, StageOf, CommitRuns
<1> QED
  BY <1>1, Names DEF Unrecorded

LEMMA GitNotes ==
    ASSUME Calm, Types, Exclusion, Noted, NEW staged \in SUBSET content, GitCommit(staged)
    PROVE  Noted'
<1> DEFINE q == [proc[Committer] EXCEPT !.pc = "refresh", !.base = head]
<1>1. /\ proc[Committer].pc = "git" /\ UNCHANGED <<content, wrote, log, note>>
      /\ TreeOf(head) \cap content \subseteq staged
      /\ tree' = Append(tree, [lines |-> staged, by |-> wrote])
  BY DEF GitCommit
<1>2. /\ Committer \in Procs /\ proc[Committer] \in Process /\ head \in Commits /\ head \in Nat
      /\ head < MaxCommits /\ head + 1 \in Commits
  BY <1>1, HeadIsCommit, Names DEF Types, AfterGit, Commits
<1>3. /\ head' = head + 1 /\ tree'[head' + 1] = [lines |-> staged, by |-> wrote]
      /\ TreeOf(head)' = staged /\ TreeOf(head - 1)' = TreeOf(head)
      /\ \A c \in 0..head : tree'[c + 1] = tree[c + 1] /\ TreeOf(c)' = TreeOf(c)
  BY <1>1, NewTree
<1>4. q.pc = "refresh" /\ q.base = head
  BY <1>2 DEF Process
<1>5. \A r \in Procs : proc'[r] = IF r = Committer THEN q ELSE proc[r]
  BY <1>1, <1>2 DEF GitCommit, Types
<1> HIDE DEF q
<1>6. Base = head /\ Base' = head /\ Carried' = Carried
  BY <1>1, <1>2, <1>4, <1>5 DEF Base, Carried, Refreshing
<1>7. Ever' = Ever /\ (\A x : IsAgents(x)' = IsAgents(x)) /\ proc'[Committer] = q
  BY <1>1, <1>2, <1>5 DEF Ever, IsAgents
<1>8. 0..head' = (0..head) \cup {head + 1} /\ 1..head' = (1..head) \cup {head + 1}
  BY <1>2, <1>3
<1>9. EverInv'
  <2>1. \A c \in 0..head : /\ TreeOf(c)' \subseteq Ever
                           /\ \A x \in Lines : tree'[c + 1].by[x] \in Agents => tree'[c + 1].by[x] = wrote[x]
    BY <1>3 DEF Noted, EverInv
  <2>2. /\ TreeOf(head)' \subseteq Ever
        /\ \A x \in Lines : tree'[head' + 1].by[x] = wrote[x]
    BY <1>3 DEF Noted, EverInv
  <2>3. content \subseteq Ever /\ Carried'.content \subseteq Ever
    BY <1>6 DEF Noted, EverInv
  <2>4. ASSUME NEW c \in 0..head'
        PROVE  /\ TreeOf(c)' \subseteq Ever
               /\ \A x \in Lines : tree'[c + 1].by[x] \in Agents => tree'[c + 1].by[x] = wrote[x]
    <3>1. CASE c \in 0..head
      BY <2>1, <3>1
    <3>2. CASE c = head'
      <4>1. TreeOf(c)' = TreeOf(head)'
        BY <3>2 DEF TreeOf
      <4> QED
        BY <2>2, <3>2, <4>1
    <3> QED
      BY <1>3, <1>8, <3>1, <3>2
  <2> QED
    BY <1>1, <1>7, <2>3, <2>4 DEF EverInv
<1>10. CommitInv'
  <2>1. TreeOf(head - 1)' \cap content \subseteq TreeOf(head)' /\ head' - 1 = head
    BY <1>1, <1>2, <1>3
  <2>2. \A c \in Commits : /\ c > head' => log[c] = EmptyLog /\ note[c] = {}
                           /\ c = head' => log[c] = EmptyLog
                           /\ ~log[c].cut
    BY <1>2, <1>3 DEF Noted, CommitInv, Commits
  <2> QED
    BY <1>1, <1>3, <1>4, <1>7, <2>1, <2>2 DEF CommitInv
<1>11. NoteInv'
  <2>1. note[head + 1] = {}
    BY <1>2 DEF Noted, CommitInv
  <2>2. ASSUME NEW c \in 1..head, NEW n \in note[c], NEW x \in TreeOf(c)' \ TreeOf(c - 1)',
               tree'[c + 1].by[x] \in Agents
        PROVE  x \in DOMAIN n /\ n[x] \in Agents
    <3>1. c \in 0..head /\ c - 1 \in 0..head
      BY <1>2
    <3>2. x \in TreeOf(c) \ TreeOf(c - 1) /\ tree[c + 1].by[x] \in Agents
      BY <1>3, <2>2, <3>1
    <3> QED
      BY <3>2 DEF Noted, NoteInv
  <2> QED
    BY <1>1, <1>3, <1>4, <1>7, <1>8, <2>1, <2>2 DEF NoteInv
<1>12. \A r \in Procs : StageOf(r)'
  <2>1. \A r \in Procs : r # Committer => proc'[r].pc = "idle"
    BY <1>1, <1>5, CommitAlone
  <2> QED
    BY <1>4, <1>7, <2>1, RestingStage DEF AfterGit
<1>13. ASSUME NEW s \in Seq(Entry), Tells(s)' PROVE Knows(s)'
  <2>1. Tells(s) /\ Knows(s)
    <3>1. Tells(s)
      BY <1>1, <1>2, <1>4, <1>5, <1>6, <1>13, TellsSame DEF Writing
    <3> QED
      BY <3>1 DEF Noted
  <2>2. TreeOf(Base)' = TreeOf(Base) /\ head \in 0..head
    BY <1>2, <1>3, <1>6 DEF TreeOf
  <2>3. TextIn(s)' = TextIn(s) /\ AttrIn(s)' = AttrIn(s)
    BY <1>6, <2>2 DEF TextIn, AttrIn
  <2>4. Fresh' \subseteq Fresh
    BY <1>1, <1>3, <1>6, <1>7, <2>2 DEF Fresh
  <2>5. \A a \in Agents : ~Unrecorded(a)
    BY <1>1, CommitAlone
  <2>6. (\A x \in Fresh : IF x \in TextIn(s) THEN x \in DOMAIN AttrIn(s) /\ AttrIn(s)[x] \in Agents
                          ELSE \E a \in Agents : Unrecorded(a))'
    BY <2>1, <2>3, <2>4, <2>5 DEF Knows
  <2>7. (/\ s # <<>> => Last(s).lines = LineAttributions(Last(s).attr)
         /\ \A i \in DOMAIN s : s[i].blob \subseteq Ever
         /\ \A x \in content : \A i, j \in DOMAIN s : i < j /\ x \in s[i].blob => x \in s[j].blob)'
    BY <1>1, <1>7, <2>1 DEF Knows
  <2> QED
    BY <2>6, <2>7 DEF Knows
<1> QED
  BY <1>9, <1>10, <1>11, <1>12, <1>13 DEF Noted

\* A step of the commit's processing, as far as trees and places go.
LEMMA ProcessingFrame ==
    ASSUME Calm, Types, Noted, NEW q, proc[Committer].pc \in AfterGit \ {"idle"},
           \A r \in Procs : proc'[r] = IF r = Committer THEN q ELSE proc[r],
           q.pc \in AfterGit, q.pc # "idle" => q.base = proc[Committer].base,
           q.pc \in Refreshing => proc[Committer].pc \in Refreshing,
           UNCHANGED <<content, wrote, tree>>,
           Carried'.content \subseteq Ever,
           \A c \in Commits : ~log'[c].cut,
           \A c \in Commits :
              c > head \/ (c = head /\ q.pc \in Refreshing \cup {"note", "initial"})
                 => log'[c] = EmptyLog,
           \A c \in Commits : c > head => note'[c] = {},
           NoteInv',
           \A s \in Seq(Entry) : Tells(s)' => Knows(s)'
    PROVE  Noted'
<1>1. head' = head /\ \A c : TreeOf(c)' = TreeOf(c)
  BY DEF head, TreeOf
<1>2. Ever' = Ever
  BY DEF Ever
<1>3. proc'[Committer] = q
  BY Names
<1>4. EverInv'
  BY <1>1, <1>2 DEF Noted, EverInv
<1>5. CommitInv'
  BY <1>1, <1>3 DEF Noted, CommitInv
<1>6. \A r \in Procs : StageOf(r)'
  <2>1. \A r \in Procs : r # Committer => proc'[r].pc = "idle"
    BY CommitAlone
  <2> QED
    BY <1>3, <2>1, RestingStage
<1> QED
  BY <1>4, <1>5, <1>6 DEF Noted

\* One that leaves the notes, HEAD's log and what INITIAL says as they are.
LEMMA QuietProcessing ==
    ASSUME Calm, Types, Noted, NEW q, proc[Committer].pc \in AfterGit \ {"idle"},
           \A r \in Procs : proc'[r] = IF r = Committer THEN q ELSE proc[r],
           q.pc \in AfterGit \ {"note"}, q.pc # "idle" => q.base = proc[Committer].base,
           q.pc \in Refreshing => proc[Committer].pc \in Refreshing,
           UNCHANGED <<content, wrote, tree, note>>,
           Base' = Base, Carried' = Carried,
           \A c \in Commits : ~log'[c].cut /\ (c # proc[Committer].base => log'[c] = log[c]),
           q.pc \in {"note", "initial"} => proc[Committer].pc \in {"note", "initial"},
           \A s \in Seq(Entry) : Tells(s)' => Tells(s)
    PROVE  Noted'
<1>1. head' = head /\ (\A c : TreeOf(c)' = TreeOf(c)) /\ head \in Nat
  BY HeadIsCommit DEF head, TreeOf
<1>2. proc'[Committer] = q /\ proc[Committer].base = head - 1
  BY Names DEF Noted, CommitInv
<1>3. \A c \in Commits :
         c > head \/ (c = head /\ q.pc \in Refreshing \cup {"note", "initial"})
            => log'[c] = EmptyLog
  <2>1. \A c \in Commits : c >= head => log'[c] = log[c]
    BY <1>1, <1>2 DEF Commits
  <2>2. q.pc \in Refreshing \cup {"note", "initial"}
          => proc[Committer].pc \in Refreshing \cup {"note", "initial"}
    OBVIOUS
  <2> QED
    BY <1>1, <2>1, <2>2 DEF Noted, CommitInv, Commits
<1>4. NoteInv'
  BY <1>1, <1>2 DEF Noted, NoteInv
<1>5. \A s \in Seq(Entry) : Tells(s)' => Knows(s)'
  BY CommitAlone, KnowsOn DEF Noted
<1>6. Carried'.content \subseteq Ever
  BY DEF Noted, EverInv
<1>7. \A c \in Commits : ~log'[c].cut /\ (c > head => note'[c] = {})
  BY DEF Noted, CommitInv
<1> QED
  BY <1>3, <1>4, <1>5, <1>6, <1>7, ProcessingFrame

\* What the attributions of a log say of the agent's lines is what it knows.
LEMMA VirtualKnows ==
    ASSUME NEW s \in Seq(Entry), Knows(s), NEW x \in DOMAIN AttrIn(s), AttrIn(s)[x] \in Agents
    PROVE  LET va == VirtualAttributions(s, Carried)
           IN  x \in DOMAIN va /\ va[x] \in Agents
<1> DEFINE telling == {i \in DOMAIN s : s[i].attr # NoAttr \/ s[i].lines # NoAttr}
<1>1. CASE s = <<>>
  <2>1. telling = {}
    BY <1>1
  <2>2. VirtualAttributions(s, Carried) = Carried.attr
    BY <2>1 DEF VirtualAttributions
  <2> QED
    BY <1>1, <2>2 DEF AttrIn
<1>2. CASE s # <<>>
  <2>1. Last(s) = s[Len(s)] /\ Len(s) \in DOMAIN s /\ Len(s) \in Nat /\ DOMAIN s = 1..Len(s)
    BY <1>2 DEF Last
  <2>2. Last(s).lines = LineAttributions(Last(s).attr) /\ AttrIn(s) = Last(s).attr
    BY <1>2 DEF Knows, AttrIn
  <2>3. x \in DOMAIN Last(s).lines /\ Last(s).lines[x] \in Agents
    BY <2>2, Names DEF LineAttributions
  <2>4. Last(s).lines # NoAttr
    BY <2>3 DEF NoAttr
  <2>5. telling \in SUBSET (1..Len(s)) /\ Len(s) \in telling
    BY <2>1, <2>4
  <2> HIDE DEF telling
  <2>6. Max(telling) \in telling /\ Max(telling) >= Len(s)
    BY <2>1, <2>5, MaxIsIn
  <2>7. Max(telling) = Len(s)
    <3>1. \A m \in telling : m \in 1..Len(s)
      BY <2>5
    <3>2. \A m \in 1..Len(s) : m >= Len(s) => m = Len(s)
      <4>1. \A k \in Nat : \A m \in 1..k : m >= k => m = k
        OBVIOUS
      <4>2. Len(s) \in Nat
        BY <2>1
      <4> QED
        BY <4>1, <4>2
    <3> QED
      BY <2>6, <3>1, <3>2
  <2>8. VirtualAttributions(s, Carried) = s[Len(s)].lines
    BY <2>5, <2>7 DEF VirtualAttributions, telling
  <2> QED
    BY <2>1, <2>3, <2>8
<1> QED
  BY <1>1, <1>2

LEMMA AttributeNotes ==
    ASSUME Calm, Types, Exclusion, Noted, Attribute(Committer)
    PROVE  Noted'
<1> DEFINE me == proc[Committer]
           b == me.base
           s0 == log[b].cps
           va == VirtualAttributions(s0, log[b].init)
           n == Only(va, TreeOf(head) \ TreeOf(b))
           i == [content |-> content, attr |-> Only(va, content \ TreeOf(head))]
           q == [me EXCEPT !.pc = "note", !.note = n, !.init = i]
<1>1. /\ me.pc = "attribute" /\ Committer \in Procs /\ me \in Process /\ b = head - 1
      /\ head \in Commits /\ head \in Nat /\ b \in Commits /\ ~log[b].cut
      /\ log[b].cps \in Seq(Entry)
  <2>1. me.pc = "attribute" /\ Committer \in Procs
    BY Names DEF Attribute
  <2>2. b = head - 1 /\ me \in Process /\ head \in Commits /\ head \in Nat /\ b \in Commits
    BY <2>1, HeadIsCommit DEF Noted, CommitInv, AfterGit, Types, Process
  <2> QED
    BY <2>1, <2>2, LogParts DEF Noted, CommitInv, Types
<1>2. Moves(Committer, q) /\ UNCHANGED <<content, wrote, tree, log, note>>
  BY <1>1 DEF Attribute, Moves
<1>3. q.pc = "note" /\ q.base = b /\ q.note = n /\ q.init = i
  BY <1>1 DEF Process
<1> HIDE DEF q
<1>4. \A r \in Procs : proc'[r] = IF r = Committer THEN q ELSE proc[r]
  BY <1>2 DEF Moves, Types
<1>5. proc'[Committer] = q
  BY <1>1, <1>4
<1>6. Base = b /\ Carried = log[b].init /\ Base' = head /\ Carried' = i
  BY <1>1, <1>2, <1>3, <1>5 DEF Base, Carried, Refreshing, head
<1>7. head' = head /\ (\A c : TreeOf(c)' = TreeOf(c)) /\ Ever' = Ever /\ (\A x : IsAgents(x)' = IsAgents(x))
  BY <1>2 DEF head, TreeOf, Ever, IsAgents
<1>8. \A r \in Procs : \A c : ~WritesAt(r, c) /\ ~WritesAt(r, c)'
  BY <1>1, <1>3, <1>4, CommitAlone DEF WritesAt, Writing
<1>9. Tells(s0) /\ Knows(s0)
  <2>1. Tells(s0)
    BY <1>6, <1>8 DEF Tells
  <2> QED
    BY <1>1, <2>1 DEF Noted
<1>10. \A x \in Fresh : x \in DOMAIN va /\ va[x] \in Agents
  <2> SUFFICES ASSUME NEW x \in Fresh PROVE x \in DOMAIN va /\ va[x] \in Agents
    OBVIOUS
  <2>1. x \in TextIn(s0)
    BY <1>1, <1>9, CommitAlone DEF Knows
  <2>2. x \in DOMAIN AttrIn(s0) /\ AttrIn(s0)[x] \in Agents
    BY <1>9, <2>1 DEF Knows
  <2> QED
    BY <1>1, <1>6, <1>9, <2>2, VirtualKnows
<1> HIDE DEF va
<1>11. NoteInv'
  <2>1. ASSUME NEW x \in TreeOf(head) \ TreeOf(b), IsAgents(x)
        PROVE  x \in DOMAIN n /\ n[x] \in Agents
    <3>1. x \in Fresh
      BY <1>6, <2>1 DEF Fresh
    <3> QED
      BY <1>10, <2>1, <3>1 DEF Only
  <2>2. (\A x \in TreeOf(head) \ TreeOf(head - 1) : IsAgents(x) =>
             x \in DOMAIN proc[Committer].note /\ proc[Committer].note[x] \in Agents)'
    BY <1>1, <1>3, <1>5, <1>7, <2>1
  <2> QED
    BY <1>2, <1>7, <2>2 DEF Noted, NoteInv
<1>12. log[head] = EmptyLog
  BY <1>1 DEF Noted, CommitInv, Refreshing
<1>13. ASSUME NEW s \in Seq(Entry), Tells(s)' PROVE Knows(s)'
  <2>1. s = <<>>
    BY <1>2, <1>6, <1>8, <1>12, <1>13 DEF Tells, EmptyLog
  <2>2. ASSUME NEW x \in Fresh'
        PROVE  x \in content /\ x \in DOMAIN i.attr /\ i.attr[x] \in Agents
    <3>1. x \in content \ TreeOf(head) /\ IsAgents(x)
      BY <1>2, <1>6, <1>7, <2>2 DEF Fresh
    <3>2. x \notin TreeOf(b)
      BY <1>1, <3>1 DEF Noted, CommitInv, Refreshing
    <3>3. x \in Fresh
      BY <1>6, <3>1, <3>2 DEF Fresh
    <3> QED
      BY <1>10, <3>1, <3>3 DEF Only
  <2>3. ASSUME NEW x \in Fresh'
        PROVE  x \in TextIn(s)' /\ x \in DOMAIN AttrIn(s)' /\ AttrIn(s)'[x] \in Agents
    <3>1. i.attr # NoAttr
      <4>1. DOMAIN NoAttr = {}
        BY DEF NoAttr
      <4>2. x \in DOMAIN i.attr
        BY <2>2, <2>3
      <4> QED
        BY <4>1, <4>2
    <3>2. TextIn(s)' = content /\ AttrIn(s)' = i.attr
      BY <1>6, <2>1, <3>1 DEF TextIn, AttrIn
    <3> QED
      BY <2>2, <2>3, <3>2
  <2> QED
    BY <2>1, <2>3 DEF Knows
<1>14. Carried'.content \subseteq Ever
  BY <1>6 DEF Noted, EverInv
<1>15. \A c \in Commits :
          c > head \/ (c = head /\ q.pc \in Refreshing \cup {"note", "initial"})
            => log'[c] = EmptyLog
  BY <1>2, <1>12 DEF Noted, CommitInv
<1>16. \A c \in Commits : ~log'[c].cut /\ (c > head => note'[c] = {})
  BY <1>2 DEF Noted, CommitInv
<1> QED
  BY <1>1, <1>2, <1>3, <1>4, <1>11, <1>13, <1>14, <1>15, <1>16, ProcessingFrame
     DEF AfterGit, Refreshing

LEMMA RefreshNotes ==
    ASSUME Calm, Types, Exclusion, Noted, Refresh(Committer) \/ Rewrite(Committer)
    PROVE  Noted'
<1> DEFINE me == proc[Committer]
           b == me.base
<1>1. /\ me.pc \in {"refresh", "rewrite"} /\ Committer \in Procs /\ me \in Process /\ b = head - 1
      /\ b \in Commits /\ ~log[b].cut /\ log \in [Commits -> Log]
  <2>1. me.pc \in {"refresh", "rewrite"} /\ Committer \in Procs
    BY Names DEF Refresh, Rewrite
  <2> QED
    BY <2>1 DEF Noted, CommitInv, AfterGit, Types, Process
<1>2. UNCHANGED <<content, wrote, tree, note>>
  BY DEF Refresh, Rewrite
<1>3. PICK q : /\ Moves(Committer, q) /\ q.base = b
               /\ \/ /\ me.pc = "refresh" /\ q.pc = "rewrite" /\ q.write = log[b].cps
                     /\ log' = [log EXCEPT ![b].cps = <<>>]
                  \/ /\ me.pc = "rewrite" /\ q.pc = "attribute"
                     /\ log' = [log EXCEPT ![b].cps = me.write]
  <2>1. CASE Refresh(Committer)
    <3> DEFINE q == [me EXCEPT !.pc = "rewrite", !.write = log[b].cps]
    <3>1. /\ Moves(Committer, q) /\ me.pc = "refresh"
          /\ log' = [log EXCEPT ![b].cps = <<>>]
      BY <1>1, <2>1 DEF Refresh, Moves
    <3>2. q.pc = "rewrite" /\ q.base = b /\ q.write = log[b].cps
      BY <1>1 DEF Process
    <3> QED
      BY <3>1, <3>2
  <2>2. CASE Rewrite(Committer)
    <3> DEFINE q == [me EXCEPT !.pc = "attribute"]
    <3>1. Moves(Committer, q) /\ me.pc = "rewrite" /\ log' = [log EXCEPT ![b].cps = me.write]
      BY <2>2 DEF Rewrite, Moves
    <3>2. q.pc = "attribute" /\ q.base = b
      BY <1>1 DEF Process
    <3> QED
      BY <3>1, <3>2
  <2> QED
    BY <2>1, <2>2
<1>4. \A r \in Procs : proc'[r] = IF r = Committer THEN q ELSE proc[r]
  BY <1>3 DEF Moves, Types
<1>5. proc'[Committer] = q
  BY <1>1, <1>4
<1>6. \A c \in Commits : /\ c # b => log'[c] = log[c]
                         /\ log'[c].cut = log[c].cut /\ log'[c].init = log[c].init
  BY <1>1, <1>3 DEF Log
<1>7. Base = b /\ Base' = b /\ Carried = log[b].init /\ Carried' = Carried
  BY <1>1, <1>3, <1>5, <1>6 DEF Base, Carried, Refreshing
<1>8. \A r \in Procs : \A c : r # Committer => ~WritesAt(r, c) /\ ~WritesAt(r, c)'
  BY <1>1, <1>4, CommitAlone DEF WritesAt, Writing
<1>9. ASSUME NEW s \in Seq(Entry), Tells(s)' PROVE Tells(s)
  <2>1. CASE me.pc = "refresh"
    <3>1. WritesAt(Committer, Base)' /\ ~WritesAt(Committer, Base)
      BY <1>3, <1>5, <1>7, <2>1 DEF WritesAt, Writing
    <3>2. q.write = log[b].cps
      BY <1>3, <2>1
    <3>3. \A r \in Procs : WritesAt(r, Base)' => r = Committer
      BY <1>8
    <3>4. s = proc'[Committer].write
      BY <1>1, <1>9, <3>1, <3>3 DEF Tells
    <3> QED
      BY <1>1, <1>5, <1>7, <1>8, <3>1, <3>2, <3>4 DEF Tells
  <2>2. CASE me.pc = "rewrite"
    <3>1. ~WritesAt(Committer, Base)' /\ WritesAt(Committer, Base)
      BY <1>3, <1>5, <1>7, <2>2 DEF WritesAt, Writing
    <3>2. log'[b].cps = me.write
      BY <1>1, <1>3, <2>2 DEF Log
    <3>3. s = me.write
      BY <1>7, <1>8, <1>9, <3>1, <3>2 DEF Tells
    <3> QED
      BY <1>1, <3>1, <3>3 DEF Tells
  <2> QED
    BY <1>1, <2>1, <2>2
<1>10. \A c \in Commits : ~log'[c].cut /\ (c # b => log'[c] = log[c])
  BY <1>6 DEF Noted, CommitInv
<1>11. /\ me.pc \in AfterGit \ {"idle"} /\ q.pc \in AfterGit \ {"note"}
       /\ (q.pc # "idle" => q.base = b) /\ me.pc \in Refreshing
       /\ q.pc \notin {"note", "initial"}
  BY <1>1, <1>3 DEF AfterGit, Refreshing
<1> QED
  BY <1>2, <1>4, <1>7, <1>9, <1>10, <1>11, QuietProcessing

LEMMA AddNoteNotes ==
    ASSUME Calm, Types, Exclusion, Noted, AddNote(Committer)
    PROVE  Noted'
<1> DEFINE me == proc[Committer]
           q == [me EXCEPT !.pc = "initial"]
<1>1. /\ me.pc = "note" /\ Committer \in Procs /\ me \in Process /\ me.base = head - 1
      /\ head \in Commits /\ head \in Nat /\ head - 1 \in Commits
  <2>1. me.pc = "note" /\ Committer \in Procs
    BY Names DEF AddNote
  <2> QED
    BY <2>1, HeadIsCommit DEF Noted, CommitInv, AfterGit, Types, Process
<1>2. /\ Moves(Committer, q) /\ UNCHANGED <<content, wrote, tree, log>>
      /\ note' = [note EXCEPT ![head] = {me.note}]
  BY DEF AddNote, Moves
<1>3. q.pc = "initial" /\ q.base = me.base /\ q.init = me.init
  BY <1>1 DEF Process
<1> HIDE DEF q
<1>4. \A r \in Procs : proc'[r] = IF r = Committer THEN q ELSE proc[r]
  BY <1>2 DEF Moves, Types
<1>5. proc'[Committer] = q
  BY <1>1, <1>4
<1>6. head' = head /\ \A c : TreeOf(c)' = TreeOf(c)
  BY <1>2 DEF head, TreeOf
<1>7. Base' = Base /\ Carried' = Carried
  BY <1>1, <1>3, <1>5, <1>6 DEF Base, Carried, Refreshing
<1>8. \A c \in Commits : note'[c] = IF c = head THEN {me.note} ELSE note[c]
  BY <1>1, <1>2 DEF Types
<1>9. NoteInv'
  <2> SUFFICES ASSUME NEW c \in 1..head, NEW n \in note'[c], NEW x \in TreeOf(c) \ TreeOf(c - 1),
                      tree[c + 1].by[x] \in Agents
               PROVE  x \in DOMAIN n /\ n[x] \in Agents
    BY <1>2, <1>3, <1>5, <1>6 DEF NoteInv
  <2>1. c \in Commits /\ c \in 0..head
    BY <1>1, HeadIsCommit DEF Commits
  <2>2. CASE c # head
    BY <1>8, <2>1, <2>2 DEF Noted, NoteInv
  <2>3. CASE c = head
    <3>1. n = me.note
      BY <1>8, <2>1, <2>3
    <3>2. x \in Lines /\ IsAgents(x)
      <4>1. x \in Lines
        BY <2>1, HeadIsCommit
      <4> QED
        BY <2>1, <4>1 DEF Noted, EverInv, IsAgents
    <3> QED
      BY <1>1, <2>3, <3>1, <3>2 DEF Noted, NoteInv
  <2> QED
    BY <2>2, <2>3
<1>10. \A s \in Seq(Entry) : Tells(s)' => Knows(s)'
  <2> SUFFICES ASSUME NEW s \in Seq(Entry), Tells(s)' PROVE Knows(s)'
    OBVIOUS
  <2>1. Tells(s)
    BY <1>1, <1>2, <1>3, <1>4, <1>7, TellsSame DEF Writing
  <2> QED
    BY <1>1, <1>2, <1>7, <2>1, CommitAlone, KnowsOn DEF Noted
<1>11. Carried'.content \subseteq Ever
  BY <1>7 DEF Noted, EverInv
<1>12. \A c \in Commits : c > head \/ (c = head /\ q.pc \in Refreshing \cup {"note", "initial"})
            => log'[c] = EmptyLog
  BY <1>1, <1>2 DEF Noted, CommitInv
<1>13. \A c \in Commits : ~log'[c].cut /\ (c > head => note'[c] = {})
  BY <1>1, <1>2, <1>8 DEF Noted, CommitInv
<1> QED
  BY <1>1, <1>2, <1>3, <1>4, <1>9, <1>10, <1>11, <1>12, <1>13, ProcessingFrame
     DEF AfterGit, Refreshing

LEMMA WriteInitialNotes ==
    ASSUME Calm, Types, Exclusion, Noted, WriteInitial(Committer)
    PROVE  Noted'
<1> DEFINE me == proc[Committer]
           q == [me EXCEPT !.pc = "archive"]
<1>1. /\ me.pc = "initial" /\ Committer \in Procs /\ me \in Process /\ me.base = head - 1
      /\ head \in Commits /\ head \in Nat /\ log[head] = EmptyLog
  <2>1. me.pc = "initial" /\ Committer \in Procs
    BY Names DEF WriteInitial
  <2> QED
    BY <2>1, HeadIsCommit DEF Noted, CommitInv, AfterGit, Types
<1>2. /\ Moves(Committer, q) /\ UNCHANGED <<content, wrote, tree, note>>
      /\ IF me.init.attr = NoAttr THEN UNCHANGED log
         ELSE log' = [log EXCEPT ![head].init = me.init]
  BY DEF WriteInitial, Moves
<1>3. q.pc = "archive" /\ q.base = me.base
  BY <1>1 DEF Process
<1> HIDE DEF q
<1>4. \A r \in Procs : proc'[r] = IF r = Committer THEN q ELSE proc[r]
  BY <1>2 DEF Moves, Types
<1>5. proc'[Committer] = q
  BY <1>1, <1>4
<1>6. head' = head /\ Base = head /\ Base' = head
  BY <1>1, <1>2, <1>3, <1>5 DEF head, Base, Refreshing
<1>7. Carried = me.init /\ Carried' = log'[head].init
  BY <1>1, <1>3, <1>5, <1>6 DEF Carried
<1>8. /\ \A c \in Commits : c # head => log'[c] = log[c]
      /\ log'[head].cut = log[head].cut /\ log'[head].cps = log[head].cps
      /\ log'[head].init = IF me.init.attr = NoAttr THEN NoInitial ELSE me.init
  <2>1. log[head] \in Log /\ log \in [Commits -> Log] /\ log[head].init = NoInitial
    <3>1. EmptyLog.init = NoInitial
      BY DEF EmptyLog
    <3> QED
      BY <1>1, <3>1 DEF Types
  <2> QED
    BY <1>1, <1>2, <2>1 DEF Log
<1>9. Carried' = Carried \/ (Carried.attr = NoAttr /\ Carried'.attr = NoAttr)
  BY <1>7, <1>8 DEF NoInitial
<1>10. Carried'.content \subseteq Ever
  BY <1>7, <1>8 DEF NoInitial, Noted, EverInv
<1>11. NoteInv'
  <2>1. \A c : TreeOf(c)' = TreeOf(c)
    BY <1>2 DEF TreeOf
  <2> QED
    BY <1>2, <1>3, <1>5, <1>6, <2>1 DEF Noted, NoteInv
<1>12. \A s \in Seq(Entry) : Tells(s)' => Knows(s)'
  <2> SUFFICES ASSUME NEW s \in Seq(Entry), Tells(s)' PROVE Knows(s)'
    OBVIOUS
  <2>1. Tells(s)
    BY <1>1, <1>3, <1>4, <1>6, <1>8, TellsSame DEF Writing
  <2> QED
    BY <1>1, <1>2, <1>6, <1>9, <2>1, CommitAlone, KnowsOn DEF Noted
<1>13. \A c \in Commits : ~log'[c].cut
  BY <1>1, <1>8 DEF Noted, CommitInv
<1>14. \A c \in Commits : c > head => log'[c] = EmptyLog /\ note'[c] = {}
  BY <1>1, <1>2, <1>8 DEF Noted, CommitInv, Commits
<1> QED
  BY <1>1, <1>2, <1>3, <1>4, <1>10, <1>11, <1>12, <1>13, <1>14, ProcessingFrame
     DEF AfterGit, Refreshing

LEMMA ArchiveNotes ==
    ASSUME Calm, Types, Exclusion, Noted, Archive(Committer)
    PROVE  Noted'
<1> DEFINE me == proc[Committer]
<1>1. /\ me.pc = "archive" /\ Committer \in Procs /\ me.base = head - 1 /\ me.base \in Commits
      /\ head \in Commits /\ head \in Nat
  <2>1. me.pc = "archive" /\ Committer \in Procs
    BY Names DEF Archive
  <2> QED
    BY <2>1, HeadIsCommit DEF Noted, CommitInv, AfterGit, Types, Process
<1>2. /\ Moves(Committer, Idle) /\ UNCHANGED <<content, wrote, tree, note>>
      /\ log' = [log EXCEPT ![me.base] = EmptyLog]
  BY DEF Archive, Moves
<1>3. Idle.pc = "idle"
  BY DEF Idle
<1>4. \A r \in Procs : proc'[r] = IF r = Committer THEN Idle ELSE proc[r]
  BY <1>2 DEF Moves, Types
<1>5. \A c \in Commits : log'[c] = IF c = me.base THEN EmptyLog ELSE log[c]
  BY <1>1, <1>2 DEF Types
<1>6. head' = head /\ head # me.base /\ Base = head /\ Base' = head
  BY <1>1, <1>2, <1>3, <1>4 DEF head, Base, Refreshing
<1>7. Carried' = Carried
  BY <1>1, <1>3, <1>4, <1>5, <1>6 DEF Carried
<1>8. \A s \in Seq(Entry) : Tells(s)' => Tells(s)
  BY <1>1, <1>3, <1>4, <1>5, <1>6, TellsSame DEF Writing
<1>9. \A c \in Commits : ~log'[c].cut /\ (c # me.base => log'[c] = log[c])
  BY <1>5 DEF Noted, CommitInv, EmptyLog
<1> QED
  BY <1>1, <1>2, <1>3, <1>4, <1>6, <1>7, <1>8, <1>9, QuietProcessing DEF AfterGit, Refreshing

LEMMA PostCommitNotes ==
    ASSUME Calm, Types, Exclusion, Noted, PostCommit(Committer)
    PROVE  Noted'
BY RefreshNotes, AttributeNotes, AddNoteNotes, WriteInitialNotes, ArchiveNotes DEF PostCommit

Unharmed == faults = 0 => Noted

LEMMA NotedStutter ==
    ASSUME Noted, UNCHANGED vars
    PROVE  Noted'
<1>1. /\ head' = head /\ (\A c : TreeOf(c)' = TreeOf(c)) /\ Ever' = Ever
      /\ (\A x : IsAgents(x)' = IsAgents(x)) /\ Base' = Base /\ Carried' = Carried
      /\ content' = content /\ log' = log /\ proc' = proc
  BY DEF vars, head, TreeOf, Ever, IsAgents, Base, Carried
<1>2. EverInv'
  BY <1>1 DEF vars, Noted, EverInv
<1>3. CommitInv'
  BY <1>1 DEF vars, Noted, CommitInv
<1>4. NoteInv'
  BY <1>1 DEF vars, Noted, NoteInv
<1>5. \A p \in Procs : StageOf(p)'
  <2>1. \A p : PlacesOf(p)' = PlacesOf(p) /\ KindsOf(p)' = KindsOf(p)
    BY DEF PlacesOf, KindsOf
  <2> QED
    BY <1>1, <2>1 DEF Noted, StageOf, CommitRuns
<1>6. \A s \in Seq(Entry) : Tells(s)' => Knows(s)'
  <2> SUFFICES ASSUME NEW s \in Seq(Entry), Tells(s)' PROVE Knows(s)'
    OBVIOUS
  <2>1. Tells(s)
    BY <1>1 DEF Tells, WritesAt
  <2>2. UNCHANGED <<wrote, tree>> /\ \A a : Unrecorded(a)' = Unrecorded(a)
    BY <1>1 DEF vars, Unrecorded
  <2> QED
    BY <1>1, <2>1, <2>2, KnowsOn DEF Noted
<1> QED
  BY <1>2, <1>3, <1>4, <1>5, <1>6 DEF Noted

LEMMA NotedStep ==
    ASSUME Calm
    PROVE  Types /\ Undisturbed /\ Unharmed /\ [Next]_vars => Unharmed'
<1> SUFFICES ASSUME Types, Undisturbed, Unharmed, [Next]_vars, faults' = 0
             PROVE  Noted'
  BY DEF Unharmed
<1>1. CASE UNCHANGED vars
  <2>1. Noted
    BY <1>1 DEF vars, Unharmed
  <2> QED
    BY <1>1, <2>1, NotedStutter
<1>2. CASE Next
  <2>1. faults = 0 /\ \A p \in Procs : ~Killed(p) /\ ~LockTimeout(p)
    BY <1>2, NoFaultYet
  <2>2. Noted /\ Exclusion
    BY <2>1 DEF Unharmed, Undisturbed
  <2> QED
    BY <1>2, <2>1, <2>2, UserNotes, AgentNotes, HookNotes, BeginsNotes, CheckpointNotes,
       GitNotes, PostCommitNotes DEF Next
<1> QED
  BY <1>1, <1>2

LEMMA InitNoted == Init => Noted
<1> SUFFICES ASSUME Init PROVE Noted
  OBVIOUS
<1>1. /\ head = 0 /\ content = {} /\ (\A x \in Lines : wrote[x] = Human) /\ TreeOf(0) = {}
      /\ tree[1].by = wrote
  BY DEF Init, head, TreeOf
<1>2. /\ \A p \in Procs : proc[p] = Idle
      /\ \A c \in Commits : log[c] = EmptyLog /\ note[c] = {}
  BY DEF Init
<1>3. /\ Idle.pc = "idle" /\ EmptyLog.cps = <<>> /\ ~EmptyLog.cut
      /\ EmptyLog.init = NoInitial /\ NoInitial.content = {} /\ NoInitial.attr = NoAttr
  BY DEF Idle, EmptyLog, NoInitial
<1>4. 0 \in Commits /\ Committer \in Procs
  BY Names, BoundsAssumption DEF Commits
<1>5. Base = 0 /\ Carried = NoInitial
  BY <1>1, <1>2, <1>3, <1>4 DEF Base, Carried, Refreshing
<1>6. ~ \E x \in Lines : IsAgents(x)
  BY <1>1, Names DEF IsAgents
<1>7. EverInv
  BY <1>1, <1>3, <1>5, Names DEF EverInv
<1>8. CommitInv
  BY <1>1, <1>2, <1>3, <1>4 DEF CommitInv, Refreshing, AfterGit
<1>9. NoteInv
  BY <1>1, <1>2, <1>3, <1>4 DEF NoteInv
<1>10. \A p \in Procs : StageOf(p)
  BY <1>2, <1>3 DEF StageOf, PlacesOf, Pcs, CommitRuns, Checkpointing
<1>11. \A s \in Seq(Entry) : Tells(s) => Knows(s)
  <2> SUFFICES ASSUME NEW s \in Seq(Entry), Tells(s) PROVE Knows(s)
    OBVIOUS
  <2>1. s = <<>>
    BY <1>2, <1>3, <1>4, <1>5 DEF Tells, WritesAt, Writing
  <2>2. Fresh = {}
    BY <1>1, <1>5 DEF Fresh
  <2> QED
    BY <2>1, <2>2 DEF Knows
<1> QED
  BY <1>7, <1>8, <1>9, <1>10, <1>11 DEF Noted

(* What the one agent of a calm repository has written is the agent's in the *)
(* note of the commit that adds it, however its checkpoints, the saves of    *)
(* the user's editor and the commits come between each other, whatever the   *)
(* user types in between and whichever lines a commit takes: what it leaves  *)
(* out is carried to the next.  Killed processes and lost locks excepted.    *)
THEOREM AgentLinesAreNoted ==
    ASSUME Calm
    PROVE  Spec => []AiLinesNoted
<1>1. Init => Unharmed
  BY InitNoted DEF Unharmed
<1>2. Unharmed => AiLinesNoted
  BY DEF Unharmed, Noted, NoteInv, AiLinesNoted
<1> QED
  BY <1>1, <1>2, InitTypes, InitUndisturbed, TypesStep, UndisturbedStep, NotedStep, PTL DEF Spec
=============================================================================
