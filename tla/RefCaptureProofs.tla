---------------------------- MODULE RefCaptureProofs ----------------------------
(***************************************************************************)
(* What the daemon learns of git commands, for any number of commands,      *)
(* worktrees and shells, however late it reads and whether or not the wait  *)
(* for the wrapper's state runs out.                                        *)
(***************************************************************************)
EXTENDS RefCapture, TLAPS

\* No command starts git in the repository of another.
OneRepository == \A c \in Cmds : Child[c] \in {Home[c], Nowhere}

Events == {"start", "def_param", "def_repo", "exit", "atexit"}

\* The order in which a root writes its events.
Rank(e) == CASE e = "start"     -> 1
             [] e = "def_param" -> 2
             [] e = "def_repo"  -> 3
             [] e = "exit"      -> 4
             [] e = "atexit"    -> 5
             [] OTHER           -> 0

\* How far it has come with that.
Written(c) == CASE phase[c] = "idle" -> 0
                [] phase[c] = "started" -> 2
                [] phase[c] \in {"announced", "forked", "moved"} -> 3
                [] OTHER -> 5

Root(c) == pipe[c]["root"]
Busy(c) == reading[c]["root"] # Idle
ReadEv(c) == reading[c]["root"].ev

\* A payload of c that only its root can have sent.
Of(c, p) == p.cmd = c /\ p.ev # "def_repo"
Holds(c, e) == \E i \in 1..Len(queue) : queue[i].cmd = c /\ queue[i].ev = e

\* An event that was written and has not been ingested.
Unseen(c, e) == \/ \E i \in 1..Len(Root(c)) : Root(c)[i] = e
                \/ Busy(c) /\ ReadEv(c) = e

OrderOf(c) ==
    /\ \A i \in 1..Len(Root(c)) : Rank(Root(c)[i]) <= Written(c)
    /\ \A i, j \in 1..Len(Root(c)) : i < j => Rank(Root(c)[i]) < Rank(Root(c)[j])
    /\ Busy(c) => /\ Rank(ReadEv(c)) <= Written(c)
                  /\ \A i \in 1..Len(Root(c)) : Rank(ReadEv(c)) < Rank(Root(c)[i])
    /\ \A q \in 1..Len(queue) : Of(c, queue[q]) =>
          /\ Rank(queue[q].ev) <= Written(c)
          /\ Busy(c) => Rank(queue[q].ev) < Rank(ReadEv(c))
          /\ \A i \in 1..Len(Root(c)) : Rank(queue[q].ev) < Rank(Root(c)[i])
    /\ \A q, r \in 1..Len(queue) : q < r /\ Of(c, queue[q]) /\ Of(c, queue[r]) =>
          Rank(queue[q].ev) < Rank(queue[r].ev)

\* One start makes one pending command, and that one emitted.
OnceOf(c) ==
    /\ Len(pending[c]) <= 1 /\ Len(emitted[c]) <= 1 /\ Len(applied[c]) <= Len(emitted[c])
    /\ phase[c] = "idle" => pending[c] = <<>>
    /\ emitted[c] # <<>> => phase[c] \in {"exited", "done"}
    /\ Unseen(c, "start") \/ Holds(c, "start") => pending[c] = <<>> /\ emitted[c] = <<>>
    /\ pending[c] # <<>> => emitted[c] = <<>>
    /\ c \in Range(completed) => emitted[c] # <<>>

\* None is lost: the start is on its way, pending or emitted, and the exit is on its
\* way or has ended the command.
NoneLostOf(c) ==
    /\ phase[c] # "idle" => \/ Unseen(c, "start") \/ Holds(c, "start")
                            \/ pending[c] # <<>> \/ emitted[c] # <<>>
    /\ phase[c] \in {"exited", "done"} =>
          Unseen(c, "exit") \/ Holds(c, "exit") \/ emitted[c] # <<>>

\* The worktree is known before the exit is ingested.
PlacedOf(c) ==
    /\ phase[c] \notin {"idle", "started"} =>
          \/ Unseen(c, "def_repo") \/ sidTree[c] = Home[c] \/ emitted[c] # <<>>
          \/ \E q \in 1..Len(queue) :
                /\ queue[q].cmd = c /\ queue[q].ev = "def_repo"
                /\ \A r \in 1..(q - 1) : queue[r].cmd = c => ~Terminal(queue[r].ev)
    /\ pending[c] # <<>> /\ sidTree[c] = Home[c] => pending[c][1].tree = Home[c]
    /\ sidTree[c] \in {Nowhere, Home[c]}

\* A window of the reflog of c's worktree holds the move of c.
InWindow(c, from, to) ==
    \E i \in 1..Len(log[Home[c]]) : from < i /\ i <= to /\ log[Home[c]][i] = c

ExitAhead(c) == phase[c] \notin {"exited", "done"} \/ Unseen(c, "exit")

WindowOf(c) ==
    /\ tree[c] \in {Nowhere, Home[c]}
    /\ start[c] # None => start[c] <= Len(log[Home[c]])
    /\ \A k \in Conns : reading[c][k] # Idle => reading[c][k].tree = Home[c]
    /\ ExitAhead(c) => /\ start[c] # None => tree[c] = Home[c]
                       /\ \A k \in Conns : reading[c][k] # Idle => tree[c] = Home[c]
    /\ \A q \in 1..Len(queue) : queue[q].cmd = c =>
          /\ queue[q].ev = "def_repo" => queue[q].tree = Home[c]
          /\ queue[q].tree \in {Nowhere, Home[c]}
          /\ queue[q].to # None =>
                0 <= queue[q].from /\ queue[q].from <= queue[q].to /\ queue[q].to <= Len(log[Home[c]])
    /\ c \in timely =>
          /\ phase[c] # "idle"
          /\ ExitAhead(c) => start[c] # None

\* The commands whose start was read in time keep their move on the way.
TimelyOf(c) ==
    c \in timely \cap Movers =>
        /\ phase[c] \in {"moved", "exited", "done"} /\ ExitAhead(c) =>
              InWindow(c, start[c], Len(log[Home[c]]))
        /\ \A q \in 1..Len(queue) : queue[q].cmd = c /\ queue[q].ev = "exit" =>
              queue[q].to # None /\ InWindow(c, queue[q].from, queue[q].to)
        /\ \A i \in 1..Len(emitted[c]) :
              emitted[c][i].tree = Home[c] /\ c \in Range(emitted[c][i].moves)
        /\ \A i \in 1..Len(applied[c]) :
              applied[c][i].tree = Home[c] /\ c \in Range(applied[c][i].moves)

\* What is on the child's connection.
ChildOf(c) ==
    /\ \A i \in 1..Len(pipe[c]["child"]) : pipe[c]["child"][i] = "def_repo"
    /\ pipe[c]["child"] # <<>> \/ reading[c]["child"] # Idle =>
          Child[c] = Home[c] /\ phase[c] \notin {"idle", "started"}
    /\ reading[c]["child"] # Idle => reading[c]["child"].ev = "def_repo"

FlowOf(c) == /\ OrderOf(c) /\ OnceOf(c) /\ NoneLostOf(c) /\ PlacedOf(c)
             /\ WindowOf(c) /\ TimelyOf(c) /\ ChildOf(c)

FlowInv == \A c \in Cmds : FlowOf(c)

-----------------------------------------------------------------------------
(* Types.                                                                   *)

Places   == Trees \cup {Nowhere}
Readings == {Idle} \cup [ev : Events, tree : Trees, pre : Int, post : Int]
Payloads == [cmd : Cmds, ev : Events, tree : Places, pre : Int, post : Int, from : Int, to : Int]
Commands == [tree : Places, pre : Int, post : Int, moves : Seq(Cmds), wrapped : BOOLEAN]

GitTypes == /\ log \in [Trees -> Seq(Cmds)] /\ phase \in [Cmds -> Phases]
            /\ states \in [Cmds -> [pre : Int, post : Int]]

IngressTypes ==
    /\ pipe \in [Cmds -> [Conns -> Seq(Events)]]
    /\ reading \in [Cmds -> [Conns -> Readings]]
    /\ tree \in [Cmds -> Places] /\ pre \in [Cmds -> Int]
    /\ start \in [Cmds -> Nat \cup {None}]
    /\ timely \subseteq Cmds

QueueTypes == queue \in Seq(Payloads)

NormalizerTypes ==
    /\ pending \in [Cmds -> Seq(Commands)] /\ emitted \in [Cmds -> Seq(Commands)]
    /\ applied \in [Cmds -> Seq(Commands)]
    /\ sidTree \in [Cmds -> Places] /\ completed \in Seq(Cmds)
    /\ deferred \subseteq Cmds /\ wrapperId \subseteq Cmds

Types == GitTypes /\ IngressTypes /\ QueueTypes /\ NormalizerTypes

LEMMA CommandNumbers == Cmds \subseteq Int
BY CmdsAssumption

\* What an event names.
LEMMA TreeOfIs ==
    ASSUME NEW c \in Cmds, NEW k \in Conns, NEW e \in Events
    PROVE  /\ TreeOf(c, k, e) \in Places
           /\ k = "root" => TreeOf(c, k, e) \in {Nowhere, Home[c]}
           /\ k = "root" /\ e = "def_repo" => TreeOf(c, k, e) = Home[c]
           /\ k = "child" /\ e = "def_repo" => TreeOf(c, k, e) = Child[c]
           /\ Home[c] \in Trees /\ Nowhere # Home[c]
BY PlacesAssumption DEF TreeOf, Places, Conns, Events

LEMMA HeadType ==
    ASSUME GitTypes, NEW t \in Trees
    PROVE  HeadOf(t) \in Int
<1>1. CASE log[t] = <<>>
  BY <1>1 DEF HeadOf
<1>2. CASE log[t] # <<>>
  <2>1. log[t] \in Seq(Cmds) /\ Len(log[t]) \in 1..Len(log[t])
    BY <1>2 DEF GitTypes
  <2>2. log[t][Len(log[t])] \in Cmds
    BY <2>1
  <2> QED
    BY <1>2, <2>2, CommandNumbers DEF HeadOf, Last
<1> QED
  BY <1>1, <1>2

LEMMA One ==
    ASSUME NEW n \in Nat, n <= 1, n # 0
    PROVE  n = 1
OBVIOUS

LEMMA AtMostOne ==
    ASSUME NEW S, NEW s \in Seq(S), Len(s) <= 1, s # <<>>
    PROVE  Len(s) = 1 /\ s = <<s[1]>> /\ s[1] \in S
<1>1. Len(s) \in Nat /\ Len(s) # 0
  OBVIOUS
<1>2. Len(s) = 1
  BY <1>1, One
<1> QED
  BY <1>2

LEMMA TailIs ==
    ASSUME NEW S, NEW s \in Seq(S), s # <<>>
    PROVE  \A i \in 1..Len(Tail(s)) : i + 1 \in 1..Len(s) /\ Tail(s)[i] = s[i + 1]
OBVIOUS

\* The connection k of c has x in it.
LEMMA AtConnection ==
    ASSUME NEW S, NEW f \in [Cmds -> [Conns -> S]], NEW c \in Cmds, NEW k \in Conns, NEW x \in S
    PROVE  /\ [f EXCEPT ![c][k] = x] \in [Cmds -> [Conns -> S]]
           /\ \A d \in Cmds, l \in Conns :
                 [f EXCEPT ![c][k] = x][d][l] = IF d = c /\ l = k THEN x ELSE f[d][l]
OBVIOUS

\* What the threads of connections leave alone.
LEMMA ReadLeaves ==
    ASSUME Read
    PROVE  UNCHANGED <<gitVars, normalizerVars, states, applied>>
<1>1. ASSUME NEW c \in Cmds, NEW k \in Conns, ReadHead(c, k)
      PROVE  UNCHANGED <<gitVars, normalizerVars, states, applied>>
  BY <1>1 DEF ReadHead
<1>2. ASSUME NEW c \in Cmds, NEW k \in Conns, ReadCuts(c, k)
      PROVE  UNCHANGED <<gitVars, normalizerVars, states, applied>>
  BY <1>2 DEF ReadCuts
<1> QED
  BY <1>1, <1>2 DEF Read

LEMMA GitTypesStep ==
    ASSUME Types, [Next]_vars
    PROVE  GitTypes'
<1>0. /\ log \in [Trees -> Seq(Cmds)] /\ phase \in [Cmds -> Phases]
      /\ states \in [Cmds -> [pre : Int, post : Int]]
      /\ Home \in [Cmds -> Trees]
      /\ \A c \in Cmds : HeadOf(Home[c]) \in Int /\ states[c] \in [pre : Int, post : Int]
  BY HeadType, PlacesAssumption DEF Types, GitTypes
<1>1. ASSUME NEW c \in Cmds, Move(c) PROVE GitTypes'
  <2>1. Append(log[Home[c]], c) \in Seq(Cmds)
    BY <1>0
  <2>2. log' \in [Trees -> Seq(Cmds)]
    BY <1>0, <1>1, <2>1 DEF Move
  <2>3. phase' \in [Cmds -> Phases] /\ states' = states
    BY <1>0, <1>1 DEF Move, Phases
  <2> QED
    BY <1>0, <2>2, <2>3 DEF GitTypes
<1>2. ASSUME NEW c \in Cmds, Start(c) \/ PostState(c) PROVE GitTypes'
  <2>1. [states[c] EXCEPT !.pre = HeadOf(Home[c])] \in [pre : Int, post : Int]
        /\ [states[c] EXCEPT !.post = HeadOf(Home[c])] \in [pre : Int, post : Int]
    BY <1>0
  <2>2. states' \in [Cmds -> [pre : Int, post : Int]]
    BY <1>0, <1>2, <2>1 DEF Start, PostState, StateRead
  <2>3. phase' \in [Cmds -> Phases] /\ log' = log
    BY <1>0, <1>2 DEF Start, PostState, Phases
  <2> QED
    BY <1>0, <2>2, <2>3 DEF GitTypes
<1>3. ASSUME NEW c \in Cmds, Announce(c) \/ Fork(c) \/ Exit(c) PROVE GitTypes'
  BY <1>0, <1>3 DEF Announce, Fork, Exit, GitTypes, Phases
<1>4. ASSUME NEW c \in Cmds, Overlay(c) \/ OverlayTimeout(c) PROVE GitTypes'
  <2>1. states' = [states EXCEPT ![c] = NoState] /\ UNCHANGED gitVars
    BY <1>4 DEF Overlay, OverlayTimeout
  <2>2. NoState \in [pre : Int, post : Int]
    BY DEF NoState, None
  <2> QED
    BY <1>0, <2>1, <2>2 DEF GitTypes, gitVars
<1>5. ASSUME NEW c \in Cmds, AsCaptured(c) PROVE GitTypes'
  BY <1>0, <1>5 DEF AsCaptured, GitTypes, gitVars
<1>6. CASE Read \/ Ingest \/ UNCHANGED vars
  <2>1. UNCHANGED <<gitVars, states>>
    BY <1>6, ReadLeaves DEF Ingest, vars
  <2> QED
    BY <1>0, <2>1 DEF gitVars, GitTypes
<1> QED
  BY <1>1, <1>2, <1>3, <1>4, <1>5, <1>6 DEF Next, Git, Apply

\* Git's own events.
LEMMA PipeTypesStep ==
    ASSUME Types, NEW c \in Cmds, Start(c) \/ Announce(c) \/ Fork(c) \/ Exit(c)
    PROVE  pipe' \in [Cmds -> [Conns -> Seq(Events)]]
<1>0. /\ pipe \in [Cmds -> [Conns -> Seq(Events)]]
      /\ "root" \in Conns /\ "child" \in Conns
      /\ pipe[c]["root"] \in Seq(Events)
  BY DEF Types, IngressTypes, Conns
<1>1. ASSUME NEW k \in Conns, NEW s \in Seq(Events), pipe' = [pipe EXCEPT ![c][k] = s]
      PROVE  pipe' \in [Cmds -> [Conns -> Seq(Events)]]
  BY <1>0, <1>1
<1>2. CASE Start(c)
  <2>1. /\ <<"start">> \o <<"def_param">> \in Seq(Events)
        /\ <<"start">> \o <<>> \in Seq(Events)
    BY DEF Events
  <2>2. PICK s \in Seq(Events) : pipe' = [pipe EXCEPT ![c]["root"] = s]
    BY <1>2, <2>1 DEF Start
  <2> QED
    BY <1>0, <1>1, <2>2
<1>3. CASE Announce(c)
  <2>1. Append(pipe[c]["root"], "def_repo") \in Seq(Events)
    BY <1>0 DEF Events
  <2>2. pipe' = [pipe EXCEPT ![c]["root"] = Append(pipe[c]["root"], "def_repo")]
    BY <1>3 DEF Announce
  <2> QED
    BY <1>0, <1>1, <2>1, <2>2
<1>4. CASE Fork(c)
  <2>1. <<"def_repo">> \in Seq(Events)
    BY DEF Events
  <2> QED
    BY <1>0, <1>1, <1>4, <2>1 DEF Fork
<1>5. CASE Exit(c)
  <2>1. pipe[c]["root"] \o <<"exit", "atexit">> \in Seq(Events)
    BY <1>0 DEF Events
  <2>2. pipe' = [pipe EXCEPT ![c]["root"] = pipe[c]["root"] \o <<"exit", "atexit">>]
    BY <1>5 DEF Exit
  <2> QED
    BY <1>0, <1>1, <2>1, <2>2
<1> QED
  BY <1>2, <1>3, <1>4, <1>5

-----------------------------------------------------------------------------
(* What the steps do to the places an event goes through.                   *)

Pushed(p) == queue' = Append(queue, p)
Popped    == queue # <<>> /\ queue' = Tail(queue)

LEMMA PushedQueue ==
    ASSUME QueueTypes, NEW p \in Payloads, Pushed(p)
    PROVE  /\ queue' \in Seq(Payloads)
           /\ Len(queue) \in Nat /\ Len(queue') = Len(queue) + 1
           /\ \A i \in 1..Len(queue) : queue'[i] = queue[i]
           /\ queue'[Len(queue) + 1] = p
           /\ \A i \in 1..Len(queue') : i \in 1..Len(queue) \/ i = Len(queue) + 1
           /\ \A i \in 1..Len(queue) : i \in 1..Len(queue')
BY DEF QueueTypes, Pushed

LEMMA PoppedQueue ==
    ASSUME QueueTypes, Popped
    PROVE  /\ queue' \in Seq(Payloads)
           /\ Len(queue') \in Nat /\ Len(queue) = Len(queue') + 1
           /\ \A i \in 1..Len(queue') : i + 1 \in 1..Len(queue) /\ queue'[i] = queue[i + 1]
           /\ \A i \in 1..Len(queue) : i = 1 \/ i - 1 \in 1..Len(queue')
           /\ queue[1] \in Payloads /\ 1 \in 1..Len(queue)
<1>1. queue \in Seq(Payloads) /\ Len(queue) \in Nat \ {0}
  BY DEF QueueTypes, Popped
<1>2. queue' \in Seq(Payloads) /\ Len(queue') = Len(queue) - 1
      /\ \A i \in 1..Len(queue') : queue'[i] = queue[i + 1]
  BY <1>1 DEF Popped
<1> QED
  BY <1>1, <1>2

LEMMA ReadHeadIs ==
    ASSUME Types, NEW c \in Cmds, NEW k \in Conns, ReadHead(c, k)
    PROVE  \E e \in Events, t \in Places :
             /\ pipe[c][k] # <<>> /\ e = pipe[c][k][1]
             /\ t = IF TreeOf(c, k, e) # Nowhere THEN TreeOf(c, k, e) ELSE tree[c]
             /\ reading[c][k] = Idle
             /\ pipe' = [pipe EXCEPT ![c][k] = Tail(pipe[c][k])]
             /\ Tail(pipe[c][k]) \in Seq(Events)
             /\ tree' = [tree EXCEPT ![c] = t]
             /\ \/ /\ t = Nowhere /\ UNCHANGED reading
                   /\ Pushed(Payload(c, e, Nowhere)) /\ Payload(c, e, Nowhere) \in Payloads
                \/ /\ t # Nowhere /\ UNCHANGED queue
                   /\ \E r \in Readings : /\ r # Idle /\ r.ev = e /\ r.tree = t
                                          /\ reading' = [reading EXCEPT ![c][k] = r]
             /\ pre' \in [Cmds -> Int]
<1>1. pipe[c][k] # <<>> /\ pipe[c][k] \in Seq(Events)
  BY DEF ReadHead, Types, IngressTypes
<1> DEFINE e == pipe[c][k][1]
           t == IF TreeOf(c, k, e) # Nowhere THEN TreeOf(c, k, e) ELSE tree[c]
<1>2. e \in Events /\ Tail(pipe[c][k]) \in Seq(Events)
  BY <1>1
<1>3. t \in Places
  BY <1>2, TreeOfIs DEF Types, IngressTypes
<1>4. /\ reading[c][k] = Idle /\ tree' = [tree EXCEPT ![c] = t]
      /\ pipe' = [pipe EXCEPT ![c][k] = Tail(pipe[c][k])]
  BY DEF ReadHead
<1>5. pre \in [Cmds -> Int]
  BY DEF Types, IngressTypes
<1>6. CASE t = Nowhere
  <2>1. /\ UNCHANGED <<reading, pre>> /\ Pushed(Payload(c, e, Nowhere))
    BY <1>6 DEF ReadHead, Pushed
  <2>2. Payload(c, e, Nowhere) \in Payloads
    BY <1>2 DEF Payload, Payloads, Places, None
  <2> QED
    BY <1>1, <1>2, <1>3, <1>4, <1>5, <1>6, <2>1, <2>2
<1>7. CASE t # Nowhere
  <2>1. t \in Trees
    BY <1>3, <1>7 DEF Places
  <2>2. HeadOf(t) \in Int
    BY <2>1, HeadType DEF Types
  <2> DEFINE x == IF pre[c] = None THEN HeadOf(t) ELSE pre[c]
             r == [ev |-> e, tree |-> t, pre |-> x,
                   post |-> IF Terminal(e) THEN HeadOf(t) ELSE None]
  <2>3. pre' = [pre EXCEPT ![c] = x] /\ x \in Int /\ pre' \in [Cmds -> Int]
    <3>1. pre' = IF pre[c] = None THEN [pre EXCEPT ![c] = HeadOf(t)] ELSE pre
      BY <1>7 DEF ReadHead
    <3> QED
      BY <1>5, <2>2, <3>1
  <2>4. pre'[c] = x
    BY <1>5, <2>3
  <2>5. reading' = [reading EXCEPT ![c][k] = r] /\ UNCHANGED queue
    BY <1>7, <2>4 DEF ReadHead
  <2>6. r \in Readings /\ r.ev = e /\ r.tree = t
    BY <1>2, <2>1, <2>2, <2>3 DEF Readings, None
  <2>7. r # Idle
    BY <1>2, <2>6 DEF Idle, Events
  <2> QED
    BY <1>1, <1>2, <1>3, <1>4, <1>7, <2>3, <2>5, <2>6, <2>7
<1> QED
  BY <1>6, <1>7

LEMMA ReadCutsIs ==
    ASSUME Types, NEW c \in Cmds, NEW k \in Conns, ReadCuts(c, k)
    PROVE  \E e \in Events, t \in Trees, p \in Payloads, s \in Nat :
             /\ reading[c][k] # Idle /\ e = reading[c][k].ev /\ t = reading[c][k].tree
             /\ s = IF start[c] = None THEN Len(log[t]) ELSE start[c]
             /\ p.cmd = c /\ p.ev = e /\ p.tree = TreeOf(c, k, e)
             /\ IF Terminal(e) THEN p.from = s /\ p.to = Len(log[t]) /\ Len(log[t]) \in Nat
                ELSE p.to = None
             /\ Pushed(p)
             /\ reading' = [reading EXCEPT ![c][k] = Idle]
             /\ start' = [start EXCEPT ![c] = IF Terminal(e) THEN None ELSE s]
             /\ tree' = IF Terminal(e) THEN [tree EXCEPT ![c] = Nowhere] ELSE tree
             /\ timely' = IF start[c] = None /\ phase[c] \in {"started", "announced", "forked"}
                          THEN timely \cup {c} ELSE timely
             /\ pre' \in [Cmds -> Int]
<1> DEFINE e == reading[c][k].ev
           t == reading[c][k].tree
           s == StartOffset(c, t)
           n == Len(log[t])
           p0 == Payload(c, e, TreeOf(c, k, e))
           p1 == [p0 EXCEPT !.pre = reading[c][k].pre]
           p2 == [p1 EXCEPT !.post = reading[c][k].post, !.from = s, !.to = n]
<1>1. reading[c][k] # Idle /\ reading[c][k] \in Readings
  BY DEF ReadCuts, Types, IngressTypes
<1>2. e \in Events /\ t \in Trees /\ reading[c][k].pre \in Int /\ reading[c][k].post \in Int
  BY <1>1 DEF Readings
<1>3. n \in Nat /\ s \in Nat /\ s = IF start[c] = None THEN n ELSE start[c]
  <2>1. log[t] \in Seq(Cmds)
    BY <1>2 DEF Types, GitTypes
  <2>2. n \in Nat
    BY <2>1
  <2>3. start[c] \in Nat \cup {None}
    BY DEF Types, IngressTypes
  <2> QED
    BY <2>2, <2>3 DEF StartOffset
<1>4. TreeOf(c, k, e) \in Places
  BY <1>2, TreeOfIs
<1>5. PICK p \in Payloads :
        /\ p.cmd = c /\ p.ev = e /\ p.tree = TreeOf(c, k, e)
        /\ IF Terminal(e) THEN p.from = s /\ p.to = n ELSE p.to = None
        /\ Pushed(p)
  <2>0. queue' = Append(queue, IF Terminal(e) THEN p2 ELSE p1)
    BY DEF ReadCuts
  <2> HIDE DEF e, t, s, n
  <2>1. /\ p0 \in Payloads /\ p0.cmd = c /\ p0.ev = e /\ p0.tree = TreeOf(c, k, e)
        /\ p0.to = None
    BY <1>2, <1>4 DEF Payload, Payloads, None, e
  <2> HIDE DEF p0
  <2>4. /\ p1 \in Payloads /\ p1.cmd = c /\ p1.ev = e /\ p1.tree = TreeOf(c, k, e)
        /\ p1.to = None
    BY <1>2, <2>1 DEF Payloads
  <2> HIDE DEF p1
  <2>5. p2.cmd = c /\ p2.ev = e /\ p2.tree = TreeOf(c, k, e) /\ p2.from = s /\ p2.to = n
    BY <2>4 DEF Payloads
  <2>6. p2 \in Payloads
    <3>1. s \in Int /\ n \in Int
      BY <1>3
    <3>2. [p1 EXCEPT !.post = reading[c][k].post] \in Payloads
      BY <1>2, <2>4 DEF Payloads
    <3>3. [[p1 EXCEPT !.post = reading[c][k].post] EXCEPT !.from = s] \in Payloads
      BY <3>1, <3>2 DEF Payloads
    <3>4. [[[p1 EXCEPT !.post = reading[c][k].post] EXCEPT !.from = s] EXCEPT !.to = n] \in Payloads
      BY <3>1, <3>3 DEF Payloads
    <3> QED
      BY <3>4
  <2> HIDE DEF p2
  <2>2. CASE Terminal(e)
    BY <2>0, <2>2, <2>5, <2>6 DEF Pushed
  <2>3. CASE ~Terminal(e)
    BY <2>0, <2>3, <2>4 DEF Pushed
  <2> QED
    BY <2>2, <2>3
<1>6. /\ reading' = [reading EXCEPT ![c][k] = Idle]
      /\ start' = [start EXCEPT ![c] = IF Terminal(e) THEN None ELSE s]
      /\ tree' = IF Terminal(e) THEN [tree EXCEPT ![c] = Nowhere] ELSE tree
      /\ timely' = IF start[c] = None /\ phase[c] \in {"started", "announced", "forked"}
                   THEN timely \cup {c} ELSE timely
  BY DEF ReadCuts
<1>7. pre' \in [Cmds -> Int]
  <2>1. pre' = IF Terminal(e) THEN [pre EXCEPT ![c] = None] ELSE pre
    BY DEF ReadCuts
  <2> QED
    BY <2>1 DEF Types, IngressTypes, None
<1> HIDE DEF e, t, s, n
<1>8. /\ e \in Events /\ t \in Trees /\ s \in Nat /\ n = Len(log[t])
      /\ e = reading[c][k].ev /\ t = reading[c][k].tree
  BY <1>2, <1>3 DEF e, t, n
<1> QED
  BY <1>1, <1>3, <1>5, <1>6, <1>7, <1>8

LEMMA IngressTypesStep ==
    ASSUME Types, [Next]_vars
    PROVE  IngressTypes' /\ QueueTypes'
<1>0. IngressTypes /\ QueueTypes /\ queue \in Seq(Payloads)
  BY DEF Types, QueueTypes
<1>1. ASSUME NEW c \in Cmds, Start(c) \/ Announce(c) \/ Fork(c) \/ Exit(c)
      PROVE  IngressTypes' /\ QueueTypes'
  <2>1. pipe' \in [Cmds -> [Conns -> Seq(Events)]]
    BY <1>1, PipeTypesStep
  <2>2. UNCHANGED <<reading, tree, pre, start, timely, queue>>
    BY <1>1 DEF Start, Announce, Fork, Exit
  <2> QED
    BY <1>0, <2>1, <2>2 DEF IngressTypes, QueueTypes
<1>2. ASSUME NEW c \in Cmds, NEW k \in Conns, ReadHead(c, k) PROVE IngressTypes' /\ QueueTypes'
  <2>1. PICK e \in Events, t \in Places :
             /\ pipe' = [pipe EXCEPT ![c][k] = Tail(pipe[c][k])]
             /\ Tail(pipe[c][k]) \in Seq(Events)
             /\ tree' = [tree EXCEPT ![c] = t]
             /\ \/ /\ UNCHANGED reading
                   /\ Pushed(Payload(c, e, Nowhere)) /\ Payload(c, e, Nowhere) \in Payloads
                \/ /\ UNCHANGED queue
                   /\ \E r \in Readings : reading' = [reading EXCEPT ![c][k] = r]
             /\ pre' \in [Cmds -> Int]
    BY <1>2, ReadHeadIs
  <2>2. pipe' \in [Cmds -> [Conns -> Seq(Events)]]
    <3>1. PICK x \in Seq(Events) : x = Tail(pipe[c][k])
      BY <2>1
    <3>2. pipe' = [pipe EXCEPT ![c][k] = x] /\ pipe \in [Cmds -> [Conns -> Seq(Events)]]
      BY <1>0, <2>1, <3>1 DEF IngressTypes
    <3> QED
      BY <3>2
  <2>3. reading' \in [Cmds -> [Conns -> Readings]]
    <3>1. UNCHANGED reading \/ \E r \in Readings : reading' = [reading EXCEPT ![c][k] = r]
      BY <2>1
    <3>2. reading \in [Cmds -> [Conns -> Readings]]
      BY <1>0 DEF IngressTypes
    <3> QED
      BY <3>1, <3>2
  <2>4. queue' \in Seq(Payloads)
    BY <1>0, <2>1, PushedQueue
  <2>5. UNCHANGED <<start, timely>> /\ tree' \in [Cmds -> Places]
    BY <1>0, <1>2, <2>1 DEF ReadHead, IngressTypes
  <2> QED
    BY <1>0, <2>1, <2>2, <2>3, <2>4, <2>5 DEF IngressTypes, QueueTypes
<1>3. ASSUME NEW c \in Cmds, NEW k \in Conns, ReadCuts(c, k) PROVE IngressTypes' /\ QueueTypes'
  <2>1. PICK e \in Events, p \in Payloads, s \in Nat :
             /\ Pushed(p)
             /\ reading' = [reading EXCEPT ![c][k] = Idle]
             /\ start' = [start EXCEPT ![c] = IF Terminal(e) THEN None ELSE s]
             /\ tree' = IF Terminal(e) THEN [tree EXCEPT ![c] = Nowhere] ELSE tree
             /\ timely' = IF start[c] = None /\ phase[c] \in {"started", "announced", "forked"}
                          THEN timely \cup {c} ELSE timely
             /\ pre' \in [Cmds -> Int]
    BY <1>3, ReadCutsIs
  <2>2. UNCHANGED pipe
    BY <1>3 DEF ReadCuts
  <2>3. reading' \in [Cmds -> [Conns -> Readings]]
    <3>1. Idle \in Readings
      BY DEF Readings
    <3> QED
      BY <1>0, <2>1, <3>1, AtConnection DEF IngressTypes
  <2>4. queue' \in Seq(Payloads)
    BY <1>0, <2>1, PushedQueue
  <2>5. start' \in [Cmds -> Nat \cup {None}] /\ tree' \in [Cmds -> Places] /\ timely' \subseteq Cmds
    BY <1>0, <2>1 DEF IngressTypes, Places
  <2> QED
    BY <1>0, <2>1, <2>2, <2>3, <2>4, <2>5 DEF IngressTypes, QueueTypes
<1>4. CASE Ingest
  <2>1. Popped /\ UNCHANGED <<pipe, reading, tree, pre, start, timely>>
    BY <1>4 DEF Ingest, Popped
  <2> QED
    BY <1>0, <2>1, PoppedQueue DEF IngressTypes, QueueTypes
<1>5. ASSUME NEW c \in Cmds, Move(c) \/ PostState(c) \/ Apply(c) PROVE IngressTypes' /\ QueueTypes'
  BY <1>0, <1>5 DEF Move, PostState, Apply, AsCaptured, Overlay, OverlayTimeout, ingressVars,
                    IngressTypes, QueueTypes
<1>6. CASE UNCHANGED vars
  BY <1>0, <1>6 DEF vars, ingressVars, IngressTypes, QueueTypes
<1> QED
  BY <1>1, <1>2, <1>3, <1>4, <1>5, <1>6 DEF Next, Read, Git

-----------------------------------------------------------------------------
(* The normalizer and the queue's head.                                     *)

Inv == Types /\ FlowInv

\* What the ingestion of an event does to its command.
Kept(c, e) == /\ emitted[c] # <<>> \/ e = "def_param"
              /\ UNCHANGED <<pending, sidTree, emitted, completed>>

Begun(c, e) ==
    /\ e = "start"
    /\ \E x \in Commands : x.tree \in {sidTree[c], Home[c]} /\ pending' = [pending EXCEPT ![c] = <<x>>]
    /\ UNCHANGED <<sidTree, emitted, completed>>

Placed(c, e) ==
    /\ e = "def_repo"
    /\ sidTree' = [sidTree EXCEPT ![c] = Home[c]]
    /\ \/ pending[c] = <<>> /\ UNCHANGED pending
       \/ /\ pending[c] # <<>>
          /\ \E x \in Commands : x.tree = Home[c] /\ pending' = [pending EXCEPT ![c] = <<x>>]
    /\ UNCHANGED <<emitted, completed>>

Ended(c, e) ==
    /\ Terminal(e)
    /\ pending[c] # <<>> /\ emitted[c] = <<>>
    /\ pending' = [pending EXCEPT ![c] = <<>>]
    /\ \E x \in Commands :
          /\ emitted' = [emitted EXCEPT ![c] = <<x>>]
          /\ c \in timely \cap Movers => x.tree = Home[c] /\ c \in Range(x.moves)
    /\ sidTree' = [sidTree EXCEPT ![c] = Nowhere]
    /\ completed' \in Seq(Cmds) /\ Range(completed') \subseteq Range(completed) \cup {c}

IngestDoes(p) == /\ \/ Kept(p.cmd, p.ev) \/ Begun(p.cmd, p.ev)
                    \/ Placed(p.cmd, p.ev) \/ Ended(p.cmd, p.ev)
                 /\ deferred' \subseteq Cmds /\ wrapperId' \subseteq Cmds

LEMMA RememberType ==
    ASSUME completed \in Seq(Cmds), NEW c \in Cmds
    PROVE  Remember(c) \in Seq(Cmds) /\ Range(Remember(c)) \subseteq Range(completed) \cup {c}
<1> DEFINE q == Append(completed, c)
<1>1. q \in Seq(Cmds) /\ q # <<>> /\ Range(q) \subseteq Range(completed) \cup {c}
  BY DEF Range
<1> HIDE DEF q
<1>2. Tail(q) \in Seq(Cmds) /\ Range(Tail(q)) \subseteq Range(q)
  BY <1>1 DEF Range
<1> QED
  BY <1>1, <1>2 DEF Remember, q

LEMMA WindowMoves ==
    ASSUME NEW s \in Seq(Cmds), NEW m \in Nat, NEW n \in Nat, m <= n, n <= Len(s)
    PROVE  /\ SubSeq(s, m + 1, n) \in Seq(Cmds)
           /\ \A i \in 1..Len(s) : m < i /\ i <= n => s[i] \in Range(SubSeq(s, m + 1, n))
<1>1. SubSeq(s, m + 1, n) \in Seq(Cmds) /\ Len(SubSeq(s, m + 1, n)) = n - m
      /\ \A j \in 1..(n - m) : SubSeq(s, m + 1, n)[j] = s[m + j]
  OBVIOUS
<1>2. ASSUME NEW i \in 1..Len(s), m < i, i <= n PROVE s[i] \in Range(SubSeq(s, m + 1, n))
  <2>1. i - m \in 1..(n - m) /\ s[m + (i - m)] = s[i]
    BY <1>2
  <2>2. SubSeq(s, m + 1, n)[i - m] = s[i] /\ i - m \in DOMAIN SubSeq(s, m + 1, n)
    BY <1>1, <2>1
  <2> QED
    BY <2>2 DEF Range
<1> QED
  BY <1>1, <1>2

LEMMA RankIs ==
    /\ Rank("start") = 1 /\ Rank("def_param") = 2 /\ Rank("def_repo") = 3
    /\ Rank("exit") = 4 /\ Rank("atexit") = 5
BY DEF Rank

\* What is still ahead of an event of a root that is at the head of the queue.
LEMMA AheadOfHead ==
    ASSUME Types, NEW c \in Cmds, OrderOf(c), queue # <<>>, Of(c, queue[1]), NEW e \in Events,
           Unseen(c, e) \/ \E i \in 2..Len(queue) : Of(c, queue[i]) /\ queue[i].ev = e
    PROVE  Rank(queue[1].ev) < Rank(e)
<1>1. 1 \in 1..Len(queue)
  BY DEF Types, QueueTypes
<1>2. \A i \in 2..Len(queue) : i \in 1..Len(queue) /\ 1 < i
  BY <1>1
<1>3. \A i \in 2..Len(queue) : Of(c, queue[i]) => Rank(queue[1].ev) < Rank(queue[i].ev)
  BY <1>1, <1>2 DEF OrderOf
<1>4. /\ \A i \in 1..Len(Root(c)) : Rank(queue[1].ev) < Rank(Root(c)[i])
      /\ Busy(c) => Rank(queue[1].ev) < Rank(ReadEv(c))
  BY <1>1 DEF OrderOf
<1> QED
  BY <1>3, <1>4 DEF Unseen

\* A terminal event at the head of the queue finds its command emitted, or pending
\* in its worktree with a window that holds a move that was read in time.
LEMMA TerminalFinds ==
    ASSUME Inv, NEW c \in Cmds, queue # <<>>, NEW p \in Payloads, p = queue[1], p.cmd = c,
           Terminal(p.ev)
    PROVE  \/ emitted[c] # <<>> /\ pending[c] = <<>>
           \/ /\ emitted[c] = <<>> /\ pending[c] # <<>>
              /\ pending[c][1].tree = Home[c]
              /\ p.to # None => 0 <= p.from /\ p.from <= p.to /\ p.to <= Len(log[Home[c]])
              /\ c \in timely \cap Movers => p.to # None /\ InWindow(c, p.from, p.to)
<1>1. /\ Types /\ OrderOf(c) /\ OnceOf(c) /\ NoneLostOf(c) /\ PlacedOf(c) /\ WindowOf(c)
      /\ TimelyOf(c)
  BY DEF Inv, FlowInv, FlowOf
<1>2. 1 \in 1..Len(queue) /\ p.ev \in {"exit", "atexit"} /\ Of(c, queue[1])
  BY <1>1 DEF Types, QueueTypes, Terminal, Of
<1>3. Rank(p.ev) >= 4 /\ (p.ev = "atexit" => Rank(p.ev) = 5)
  BY <1>2, RankIs
<1>4. Rank(p.ev) <= Written(c)
  BY <1>1, <1>2 DEF OrderOf
<1>5. phase[c] \in {"exited", "done"}
  <2>1. phase[c] \in Phases
    BY <1>1 DEF Types, GitTypes
  <2>2. Written(c) <= 3 \/ phase[c] \in {"exited", "done"}
    BY <2>1 DEF Written, Phases
  <2>3. Rank(p.ev) \in {4, 5}
    BY <1>2, RankIs
  <2>4. Written(c) \in 0..5
    BY <2>1 DEF Written, Phases
  <2> QED
    BY <1>4, <2>2, <2>3, <2>4
<1>6. ASSUME NEW e \in Events, Rank(e) <= 3 \/ (p.ev = "atexit" /\ e = "exit"), e # "def_repo"
      PROVE  ~Unseen(c, e) /\ ~Holds(c, e)
  <2>1. Rank(e) \in 1..5 /\ ~(Rank(p.ev) < Rank(e)) /\ e # p.ev
    BY <1>2, <1>6, RankIs DEF Events
  <2>2. Holds(c, e) => \E i \in 2..Len(queue) : Of(c, queue[i]) /\ queue[i].ev = e
    <3>1. Len(queue) \in Nat
      BY <1>1 DEF Types, QueueTypes
    <3> QED
      BY <1>6, <2>1, <3>1 DEF Holds, Of
  <2> QED
    BY <1>1, <1>2, <2>1, <2>2, AheadOfHead
<1>7. ~Unseen(c, "start") /\ ~Holds(c, "start")
  BY <1>6, RankIs DEF Events
<1>8. ~Unseen(c, "def_repo")
  <2>1. ~(Rank(p.ev) < Rank("def_repo")) /\ "def_repo" \in Events
    BY <1>2, RankIs DEF Events
  <2> QED
    BY <1>1, <1>2, <2>1, AheadOfHead
<1>9. pending[c] # <<>> \/ emitted[c] # <<>>
  BY <1>1, <1>5, <1>7 DEF NoneLostOf
<1>10. CASE pending[c] # <<>>
  <2>1. emitted[c] = <<>>
    BY <1>1, <1>10 DEF OnceOf
  <2>2. p.ev = "exit"
    <3>1. p.ev = "atexit" => ~Unseen(c, "exit") /\ ~Holds(c, "exit")
      BY <1>6 DEF Events
    <3> QED
      BY <1>1, <1>2, <1>5, <2>1, <3>1 DEF NoneLostOf
  <2>3. sidTree[c] = Home[c]
    <3>1. ASSUME NEW q \in 1..Len(queue), queue[q].cmd = c, queue[q].ev = "def_repo",
                 \A r \in 1..(q - 1) : queue[r].cmd = c => ~Terminal(queue[r].ev)
          PROVE  FALSE
      <4>1. q # 1
        BY <1>2, <3>1
      <4>2. 1 \in 1..(q - 1)
        BY <4>1
      <4> QED
        BY <3>1, <4>2
    <3> QED
      BY <1>1, <1>5, <1>8, <2>1, <3>1 DEF PlacedOf
  <2>4. pending[c][1].tree = Home[c]
    BY <1>1, <1>10, <2>3 DEF PlacedOf
  <2>5. p.to # None => 0 <= p.from /\ p.from <= p.to /\ p.to <= Len(log[Home[c]])
    BY <1>1, <1>2 DEF WindowOf
  <2>6. c \in timely \cap Movers => p.to # None /\ InWindow(c, p.from, p.to)
    BY <1>1, <1>2, <2>2 DEF TimelyOf
  <2> QED
    BY <1>10, <2>1, <2>4, <2>5, <2>6
<1>11. CASE pending[c] = <<>>
  BY <1>9, <1>11
<1> QED
  BY <1>10, <1>11

LEMMA IngestIs ==
    ASSUME Inv, Ingest
    PROVE  Popped /\ IngestDoes(queue[1])
<1>1. Popped
  BY DEF Ingest, Popped
<1>0. PICK p \in Payloads : p = queue[1]
  BY <1>1, PoppedQueue DEF Inv, Types
<1>00. PICK c \in Cmds : c = p.cmd
  BY DEF Payloads
<1> SUFFICES IngestDoes(p)
  BY <1>0, <1>1
<1>2. p.ev \in Events /\ 1 \in 1..Len(queue) /\ p.pre \in Int /\ p.post \in Int
  BY <1>1, PoppedQueue DEF Inv, Types, Payloads
<1>3. OrderOf(c) /\ OnceOf(c) /\ NoneLostOf(c) /\ PlacedOf(c) /\ WindowOf(c) /\ TimelyOf(c)
  BY DEF Inv, FlowInv, FlowOf
<1>4. /\ pending \in [Cmds -> Seq(Commands)] /\ emitted \in [Cmds -> Seq(Commands)]
      /\ sidTree \in [Cmds -> Places] /\ completed \in Seq(Cmds)
      /\ deferred \subseteq Cmds /\ wrapperId \subseteq Cmds
  BY DEF Inv, Types, NormalizerTypes
<1>5. /\ c \in Range(completed) => UNCHANGED normalizerVars
      /\ c \notin Range(completed) =>
            \/ p.ev = "start" /\ HandleStart(p)
            \/ p.ev = "def_param" /\ HandleParam(p)
            \/ p.ev = "def_repo" /\ HandleRepo(p)
            \/ Terminal(p.ev) /\ HandleExit(p)
  BY <1>0, <1>00, <1>2 DEF Ingest, Events, Terminal
<1>6. CASE UNCHANGED normalizerVars /\ c \in Range(completed)
  BY <1>00, <1>3, <1>4, <1>6 DEF normalizerVars, IngestDoes, Kept, OnceOf
<1>7. CASE p.ev = "start" /\ HandleStart(p)
  <2> DEFINE t == IF p.tree # Nowhere THEN p.tree ELSE sidTree[c]
  <2>0. t \in Places /\ t \in {sidTree[c], Home[c]}
    <3>1. p.tree \in {Nowhere, Home[c]} /\ p.tree \in Places
      BY <1>0, <1>00, <1>2, <1>3 DEF WindowOf, Payloads
    <3> QED
      BY <1>4, <3>1
  <2>4. pending' = [pending EXCEPT ![c] = <<[NoCommand EXCEPT !.tree = t, !.pre = p.pre]>>]
        /\ UNCHANGED <<sidTree, completed, deferred, wrapperId, emitted>>
    BY <1>00, <1>7 DEF HandleStart
  <2> HIDE DEF t
  <2>1. PICK x \in Commands : x = [NoCommand EXCEPT !.tree = t, !.pre = p.pre]
    <3>1. NoCommand \in Commands
      BY DEF NoCommand, Commands, Places, None
    <3> QED
      BY <1>2, <2>0, <3>1 DEF Commands
  <2>2. x.tree = t
    BY <2>1 DEF NoCommand
  <2>3. Begun(c, p.ev)
    BY <1>7, <2>0, <2>1, <2>2, <2>4 DEF Begun
  <2> QED
    BY <1>00, <1>4, <2>3, <2>4 DEF IngestDoes
<1>8. CASE p.ev = "def_param" /\ HandleParam(p)
  BY <1>00, <1>2, <1>4, <1>8 DEF HandleParam, IngestDoes, Kept
<1>9. CASE p.ev = "def_repo" /\ HandleRepo(p)
  <2>1. p.tree = Home[c]
    BY <1>0, <1>00, <1>2, <1>3, <1>9 DEF WindowOf
  <2>2. sidTree' = [sidTree EXCEPT ![c] = Home[c]] /\ UNCHANGED <<emitted, completed>>
    BY <1>00, <1>9, <2>1 DEF HandleRepo
  <2>3. ASSUME pending[c] = <<>> PROVE Placed(c, p.ev)
    BY <1>00, <1>9, <2>2, <2>3 DEF HandleRepo, Placed
  <2>4. ASSUME pending[c] # <<>> PROVE Placed(c, p.ev)
    <3>1. Len(pending[c]) = 1 /\ pending[c] \in Seq(Commands)
      <4>1. pending[c] \in Seq(Commands)
        BY <1>4
      <4>2. Len(pending[c]) <= 1
        BY <1>3 DEF OnceOf
      <4> QED
        BY <2>4, <4>1, <4>2, AtMostOne
    <3>2. PICK y \in Commands : y = pending[c][1] /\ pending[c] = <<y>>
      BY <3>1
    <3>3. PICK z \in Int : z = IF y.pre = None THEN p.pre ELSE y.pre
      BY <1>2 DEF Commands
    <3>4. PICK x \in Commands : x = [y EXCEPT !.tree = Home[c], !.pre = z]
      <4>1. Home[c] \in Places
        BY PlacesAssumption DEF Places
      <4> QED
        BY <4>1 DEF Commands
    <3>5. x.tree = Home[c]
      BY <3>4 DEF Commands
    <3>6. pending' = [pending EXCEPT ![c] = [pending[c] EXCEPT ![1] = x]]
      BY <1>00, <1>9, <2>1, <2>4, <3>2, <3>3, <3>4 DEF HandleRepo
    <3>7. [pending[c] EXCEPT ![1] = x] = <<x>>
      BY <3>2
    <3> QED
      BY <1>9, <2>2, <2>4, <3>5, <3>6, <3>7 DEF Placed
  <2> QED
    BY <1>00, <1>4, <1>9, <2>3, <2>4 DEF IngestDoes, HandleRepo
<1>10. CASE Terminal(p.ev) /\ HandleExit(p) /\ pending[c] = <<>>
  <2>1. emitted[c] # <<>>
    BY <1>0, <1>00, <1>1, <1>10, TerminalFinds DEF Popped
  <2> QED
    BY <1>00, <1>2, <1>4, <1>10, <2>1 DEF HandleExit, IngestDoes, Kept
<1>11. CASE Terminal(p.ev) /\ HandleExit(p) /\ pending[c] # <<>>
  <2>1. /\ emitted[c] = <<>> /\ pending[c][1].tree = Home[c]
        /\ p.to # None => 0 <= p.from /\ p.from <= p.to /\ p.to <= Len(log[Home[c]])
        /\ c \in timely \cap Movers => p.to # None /\ InWindow(c, p.from, p.to)
    BY <1>0, <1>00, <1>1, <1>11, TerminalFinds DEF Popped
  <2>2. p.from \in Int /\ p.to \in Int
    BY DEF Payloads
  <2>3. log[Home[c]] \in Seq(Cmds)
    BY PlacesAssumption DEF Inv, Types, GitTypes
  <2>4. PICK moves \in Seq(Cmds) : /\ moves = Moves(p, Home[c])
                                   /\ c \in timely \cap Movers => c \in Range(moves)
    <3>1. CASE p.to = None
      <4>1. <<>> \in Seq(Cmds) /\ ~(c \in timely \cap Movers) /\ Moves(p, Home[c]) = <<>>
        BY <2>1, <3>1 DEF Moves
      <4> QED
        BY <4>1
    <3>2. CASE p.to # None /\ log[Home[c]] = <<>>
      <4>1. <<>> \in Seq(Cmds) /\ Moves(p, Home[c]) = <<>>
        BY <3>2 DEF Moves
      <4>2. ~(c \in timely \cap Movers)
        BY <2>1, <3>2 DEF InWindow
      <4> QED
        BY <4>1, <4>2
    <3>3. CASE p.to # None /\ log[Home[c]] # <<>>
      <4>1. p.from \in Nat /\ p.to \in Nat /\ p.from <= p.to /\ p.to <= Len(log[Home[c]])
        BY <2>1, <2>2, <3>3
      <4>2. /\ SubSeq(log[Home[c]], p.from + 1, p.to) \in Seq(Cmds)
            /\ \A i \in 1..Len(log[Home[c]]) : p.from < i /\ i <= p.to =>
                  log[Home[c]][i] \in Range(SubSeq(log[Home[c]], p.from + 1, p.to))
        BY <2>3, <4>1, WindowMoves
      <4>3. c \in timely \cap Movers =>
               \E i \in 1..Len(log[Home[c]]) : p.from < i /\ i <= p.to /\ log[Home[c]][i] = c
        BY <2>1 DEF InWindow
      <4>4. Moves(p, Home[c]) = SubSeq(log[Home[c]], p.from + 1, p.to)
        BY <3>3 DEF Moves
      <4> QED
        BY <4>2, <4>3, <4>4
    <3> QED
      BY <3>1, <3>2, <3>3
  <2>5. PICK y \in Commands : y = pending[c][1]
    <3>1. Len(pending[c]) = 1 /\ pending[c] \in Seq(Commands)
      <4>1. pending[c] \in Seq(Commands)
        BY <1>4
      <4>2. Len(pending[c]) <= 1
        BY <1>3 DEF OnceOf
      <4> QED
        BY <1>11, <4>1, <4>2, AtMostOne
    <3> QED
      BY <3>1
  <2>6. PICK z \in Int : z = IF y.pre = None THEN p.pre ELSE y.pre
    BY <1>2 DEF Commands
  <2>7. PICK w \in BOOLEAN : w = (c \in wrapperId)
    <3>1. CASE c \in wrapperId
      <4>1. (c \in wrapperId) = TRUE
        BY <3>1
      <4> QED
        BY <4>1
    <3>2. CASE c \notin wrapperId
      <4>1. (c \in wrapperId) = FALSE
        BY <3>2
      <4> QED
        BY <4>1
    <3> QED
      BY <3>1, <3>2
  <2>8. PICK x \in Commands : x = [y EXCEPT !.pre = z, !.post = p.post, !.moves = moves, !.wrapped = w]
    BY <1>2 DEF Commands
  <2>9. x.tree = Home[c] /\ x.moves = moves
    BY <2>1, <2>5, <2>8 DEF Commands
  <2>10. /\ pending' = [pending EXCEPT ![c] = <<>>]
         /\ emitted' = [emitted EXCEPT ![c] = Append(@, x)]
         /\ completed' = Remember(c) /\ wrapperId' = wrapperId \ {c} /\ UNCHANGED deferred
         /\ sidTree' = [sidTree EXCEPT ![c] = Nowhere]
    <3>1. Finalize(p)
      BY <1>00, <1>11 DEF HandleExit
    <3>2. ~Misplaced(p, Home[c])
      <4>1. p.to # None => 0 <= p.from /\ p.from <= p.to /\ p.to <= Len(log[Home[c]])
        BY <2>1
      <4>2. Len(log[Home[c]]) \in Nat
        BY <2>3
      <4> QED
        BY <2>2, <4>1, <4>2 DEF Misplaced
    <3> QED
      BY <1>00, <2>1, <2>4, <2>5, <2>6, <2>7, <2>8, <3>1, <3>2 DEF Finalize, Taken, Forget
  <2>11. emitted' = [emitted EXCEPT ![c] = <<x>>]
    BY <2>1, <2>10
  <2>12. completed' \in Seq(Cmds) /\ Range(completed') \subseteq Range(completed) \cup {c}
    BY <1>4, <2>10, RememberType
  <2>13. Ended(c, p.ev)
    BY <1>11, <2>1, <2>4, <2>9, <2>10, <2>11, <2>12 DEF Ended
  <2> QED
    BY <1>00, <1>4, <2>10, <2>13 DEF IngestDoes
<1> QED
  BY <1>5, <1>6, <1>7, <1>8, <1>9, <1>10, <1>11

\* A command that is waiting is applied as it was emitted, up to HEAD before and
\* after it.
LEMMA ApplyIs ==
    ASSUME Inv, NEW c \in Cmds, Apply(c)
    PROVE  /\ applied[c] = <<>> /\ Len(emitted[c]) = 1
           /\ \E y \in Commands : /\ y.tree = emitted[c][1].tree /\ y.moves = emitted[c][1].moves
                                  /\ applied' = [applied EXCEPT ![c] = <<y>>]
           /\ UNCHANGED <<gitVars, ingressVars, normalizerVars>>
<1>1. emitted[c] \in Seq(Commands) /\ applied[c] \in Seq(Commands) /\ states[c] \in [pre : Int, post : Int]
  BY DEF Inv, Types, NormalizerTypes, GitTypes
<1>2. Len(emitted[c]) <= 1 /\ Len(applied[c]) <= Len(emitted[c])
  BY DEF Inv, FlowInv, FlowOf, OnceOf
<1>3. Len(applied[c]) < Len(emitted[c])
  BY DEF Apply, AsCaptured, Overlay, OverlayTimeout, Waiting
<1>4. emitted[c] # <<>>
  BY <1>1, <1>3
<1>5. Len(emitted[c]) = 1 /\ emitted[c][1] \in Commands
  BY <1>1, <1>2, <1>4, AtMostOne
<1>6. Len(applied[c]) = 0
  <2>1. Len(applied[c]) \in Nat
    BY <1>1
  <2> QED
    BY <1>3, <1>5, <2>1
<1>7. applied[c] = <<>>
  BY <1>1, <1>6
<1>8. PICK x \in Commands : x = emitted[c][1] /\ x = Command(c)
  BY <1>5, <1>6 DEF Command
<1>9. PICK y \in Commands : /\ y.tree = x.tree /\ y.moves = x.moves
                            /\ applied' = [applied EXCEPT ![c] = Append(applied[c], y)]
  <2>1. CASE applied' = [applied EXCEPT ![c] = Append(@, Command(c))]
    BY <1>8, <2>1
  <2>2. CASE applied' = [applied EXCEPT ![c] =
                Append(@, [Command(c) EXCEPT !.pre = states[c].pre, !.post = states[c].post])]
    <3>1. PICK m \in Int, n \in Int : m = states[c].pre /\ n = states[c].post
      BY <1>1
    <3>2. PICK y \in Commands : y = [x EXCEPT !.pre = m, !.post = n]
      BY DEF Commands
    <3>3. y.tree = x.tree /\ y.moves = x.moves
      BY <3>2 DEF Commands
    <3> QED
      BY <1>8, <2>2, <3>1, <3>2, <3>3
  <2> QED
    BY <2>1, <2>2 DEF Apply, AsCaptured, Overlay, OverlayTimeout
<1>10. applied' = [applied EXCEPT ![c] = <<y>>]
  BY <1>7, <1>9
<1>11. UNCHANGED <<gitVars, ingressVars, normalizerVars>>
  BY DEF Apply, AsCaptured, Overlay, OverlayTimeout
<1> QED
  BY <1>5, <1>7, <1>8, <1>9, <1>10, <1>11

LEMMA NormalizerTypesStep ==
    ASSUME Inv, [Next]_vars
    PROVE  NormalizerTypes'
<1>0. /\ pending \in [Cmds -> Seq(Commands)] /\ emitted \in [Cmds -> Seq(Commands)]
      /\ applied \in [Cmds -> Seq(Commands)]
      /\ sidTree \in [Cmds -> Places] /\ completed \in Seq(Cmds)
      /\ deferred \subseteq Cmds /\ wrapperId \subseteq Cmds
  BY DEF Inv, Types, NormalizerTypes
<1>1. ASSUME NEW c \in Cmds, Apply(c) PROVE NormalizerTypes'
  <2>1. PICK y \in Commands : applied' = [applied EXCEPT ![c] = <<y>>]
    BY <1>1, ApplyIs
  <2>2. <<y>> \in Seq(Commands)
    OBVIOUS
  <2>3. UNCHANGED normalizerVars
    BY <1>1, ApplyIs
  <2> QED
    BY <1>0, <2>1, <2>2, <2>3 DEF NormalizerTypes, normalizerVars
<1>2. CASE Ingest
  <2>1. PICK p \in Payloads : p = queue[1] /\ IngestDoes(p)
    BY <1>2, IngestIs, PoppedQueue DEF Inv, Types
  <2>2. PICK c \in Cmds, e \in Events : c = p.cmd /\ e = p.ev
    BY DEF Payloads
  <2>3. UNCHANGED applied
    BY <1>2 DEF Ingest
  <2>4. \/ Kept(c, e) \/ Begun(c, e) \/ Placed(c, e) \/ Ended(c, e)
    BY <2>1, <2>2 DEF IngestDoes
  <2>5. Home[c] \in Places /\ Nowhere \in Places
    BY PlacesAssumption DEF Places
  <2>6. <<>> \in Seq(Commands) /\ \A x \in Commands : <<x>> \in Seq(Commands)
    OBVIOUS
  <2>7. pending' \in [Cmds -> Seq(Commands)]
    BY <1>0, <2>4, <2>6 DEF Kept, Begun, Placed, Ended
  <2>8. emitted' \in [Cmds -> Seq(Commands)]
    <3>1. CASE UNCHANGED emitted
      BY <1>0, <3>1
    <3>2. CASE \E x \in Commands : emitted' = [emitted EXCEPT ![c] = <<x>>]
      BY <1>0, <2>6, <3>2
    <3> QED
      BY <2>4, <3>1, <3>2 DEF Kept, Begun, Placed, Ended
  <2>9. sidTree' \in [Cmds -> Places]
    BY <1>0, <2>4, <2>5 DEF Kept, Begun, Placed, Ended
  <2>10. completed' \in Seq(Cmds)
    BY <1>0, <2>4 DEF Kept, Begun, Placed, Ended
  <2> QED
    BY <1>0, <2>1, <2>3, <2>7, <2>8, <2>9, <2>10 DEF NormalizerTypes, IngestDoes
<1>3. ASSUME NEW c \in Cmds, Start(c) \/ Git(c) PROVE NormalizerTypes'
  BY <1>0, <1>3 DEF Start, Git, Announce, Fork, Move, Exit, PostState, normalizerVars, NormalizerTypes
<1>4. CASE Read \/ UNCHANGED vars
  <2>1. UNCHANGED <<normalizerVars, applied>>
    BY <1>4, ReadLeaves DEF vars
  <2> QED
    BY <1>0, <2>1 DEF normalizerVars, NormalizerTypes
<1> QED
  BY <1>1, <1>2, <1>3, <1>4 DEF Next

-----------------------------------------------------------------------------
(* A step that is none of c's.                                              *)

\* The payloads of c stay in the queue in their order, k places further ahead.
QueueStays(c, k) ==
    /\ \A i \in 1..Len(queue') : queue'[i].cmd = c =>
          i + k \in 1..Len(queue) /\ queue'[i] = queue[i + k]
    /\ \A i \in 1..Len(queue) : queue[i].cmd = c =>
          i - k \in 1..Len(queue') /\ queue'[i - k] = queue[i]

\* The moves of a tree are only added to.
LogGrows(t) == /\ log[t] \in Seq(Cmds) /\ log'[t] \in Seq(Cmds)
               /\ Len(log[t]) <= Len(log'[t])
               /\ \A i \in 1..Len(log[t]) : log'[t][i] = log[t][i]

NoStepOf(c) ==
    /\ phase'[c] = phase[c] /\ pipe'[c] = pipe[c] /\ reading'[c] = reading[c]
    /\ tree'[c] = tree[c] /\ start'[c] = start[c] /\ (c \in timely' <=> c \in timely)
    /\ pending'[c] = pending[c] /\ sidTree'[c] = sidTree[c] /\ emitted'[c] = emitted[c]
    /\ applied'[c] = applied[c]
    /\ Range(completed') \ {c} \subseteq Range(completed) \cup Cmds
    /\ c \in Range(completed') => c \in Range(completed)
    /\ LogGrows(Home[c])
    /\ \/ UNCHANGED queue
       \/ \E p \in Payloads : Pushed(p) /\ p.cmd # c
       \/ Popped /\ queue[1].cmd # c

LEMMA QueueStaysFor ==
    ASSUME Types, NEW c,
           \/ UNCHANGED queue
           \/ \E p \in Payloads : Pushed(p) /\ p.cmd # c
           \/ Popped /\ queue[1].cmd # c
    PROVE  /\ Len(queue) \in Nat /\ Len(queue') \in Nat
           /\ \E k \in {0, 1} : QueueStays(c, k)
<1>0. QueueTypes /\ Len(queue) \in Nat
  BY DEF Types, QueueTypes
<1>1. CASE UNCHANGED queue
  <2>1. QueueStays(c, 0)
    BY <1>0, <1>1 DEF QueueStays
  <2> QED
    BY <1>0, <1>1, <2>1
<1>2. ASSUME NEW p \in Payloads, Pushed(p), p.cmd # c
      PROVE  Len(queue') \in Nat /\ QueueStays(c, 0)
  <2>1. /\ Len(queue') = Len(queue) + 1
        /\ \A i \in 1..Len(queue) : queue'[i] = queue[i]
        /\ queue'[Len(queue) + 1] = p
    BY <1>0, <1>2, PushedQueue
  <2> QED
    BY <1>0, <1>2, <2>1 DEF QueueStays
<1>3. CASE Popped /\ queue[1].cmd # c
  <2>1. /\ Len(queue') \in Nat /\ Len(queue) = Len(queue') + 1
        /\ \A i \in 1..Len(queue') : i + 1 \in 1..Len(queue) /\ queue'[i] = queue[i + 1]
    BY <1>0, <1>3, PoppedQueue
  <2>2. QueueStays(c, 1)
    <3>1. ASSUME NEW i \in 1..Len(queue), queue[i].cmd = c
          PROVE  i - 1 \in 1..Len(queue') /\ queue'[i - 1] = queue[i]
      <4>1. i # 1
        BY <1>3, <3>1
      <4>2. PICK j \in 1..Len(queue') : i = j + 1
        <5>1. i - 1 \in 1..Len(queue') /\ i = (i - 1) + 1
          BY <1>0, <2>1, <4>1
        <5> QED
          BY <5>1
      <4> QED
        BY <2>1, <4>2
    <3> QED
      BY <2>1, <3>1 DEF QueueStays
  <2> QED
    BY <1>0, <2>1, <2>2
<1> QED
  BY <1>0, <1>1, <1>2, <1>3

LEMMA OthersKeep ==
    ASSUME Types, Types', NEW c \in Cmds, FlowOf(c), NoStepOf(c)
    PROVE  FlowOf(c)'
<1> USE DEF FlowOf
<1>0. PICK k \in {0, 1} : QueueStays(c, k)
  BY QueueStaysFor DEF NoStepOf
<1>1. Len(queue) \in Nat /\ Len(queue') \in Nat
  BY QueueStaysFor DEF NoStepOf
<1>2. \A i \in 1..Len(queue') : queue'[i].cmd = c => i + k \in 1..Len(queue) /\ queue'[i] = queue[i + k]
  BY <1>0 DEF QueueStays
<1>3. \A i \in 1..Len(queue) : queue[i].cmd = c => i - k \in 1..Len(queue') /\ queue'[i - k] = queue[i]
  BY <1>0 DEF QueueStays
<1>4. /\ Root(c)' = Root(c) /\ (Busy(c)' <=> Busy(c)) /\ ReadEv(c)' = ReadEv(c)
      /\ Written(c)' = Written(c) /\ (ExitAhead(c)' <=> ExitAhead(c))
      /\ \A e : Unseen(c, e)' <=> Unseen(c, e)
  BY DEF NoStepOf, Root, Busy, ReadEv, Written, ExitAhead, Unseen
<1>5. \A e : Holds(c, e)' <=> Holds(c, e)
  BY <1>2, <1>3 DEF Holds
<1>6. OrderOf(c)'
  <2>1. \A q \in 1..Len(queue') : Of(c, queue[q])' =>
          q + k \in 1..Len(queue) /\ queue'[q] = queue[q + k] /\ Of(c, queue[q + k])
    BY <1>2 DEF Of
  <2>2. \A q, r \in 1..Len(queue') : q < r /\ Of(c, queue[q])' /\ Of(c, queue[r])' =>
          Rank(queue'[q].ev) < Rank(queue'[r].ev)
    <3> SUFFICES ASSUME NEW q \in 1..Len(queue'), NEW r \in 1..Len(queue'), q < r,
                        Of(c, queue[q])', Of(c, queue[r])'
                 PROVE  Rank(queue'[q].ev) < Rank(queue'[r].ev)
      OBVIOUS
    <3>1. q + k < r + k
      OBVIOUS
    <3> QED
      BY <2>1, <3>1 DEF OrderOf
  <2>3. \A q \in 1..Len(queue') : Of(c, queue[q])' =>
          /\ Rank(queue'[q].ev) <= Written(c)
          /\ Busy(c) => Rank(queue'[q].ev) < Rank(ReadEv(c))
          /\ \A i \in 1..Len(Root(c)) : Rank(queue'[q].ev) < Rank(Root(c)[i])
    BY <2>1 DEF OrderOf
  <2> QED
    BY <1>4, <2>2, <2>3 DEF OrderOf
<1>7. OnceOf(c)' /\ NoneLostOf(c)' /\ ChildOf(c)'
  BY <1>4, <1>5 DEF NoStepOf, OnceOf, NoneLostOf, ChildOf
<1>8. PlacedOf(c)'
  <2>1. ASSUME NEW q \in 1..Len(queue), queue[q].cmd = c, queue[q].ev = "def_repo",
               \A r \in 1..(q - 1) : queue[r].cmd = c => ~Terminal(queue[r].ev)
        PROVE  \E s \in 1..Len(queue') :
                  /\ queue'[s].cmd = c /\ queue'[s].ev = "def_repo"
                  /\ \A r \in 1..(s - 1) : queue'[r].cmd = c => ~Terminal(queue'[r].ev)
    <3>1. PICK s \in 1..Len(queue') : s = q - k /\ queue'[s] = queue[q]
      BY <1>3, <2>1
    <3>2. ASSUME NEW r \in 1..(s - 1), queue'[r].cmd = c PROVE ~Terminal(queue'[r].ev)
      <4>1. r \in 1..Len(queue')
        BY <1>1
      <4>2. queue'[r] = queue[r + k]
        BY <1>2, <3>2, <4>1
      <4>3. r + k \in 1..(q - 1)
        BY <1>1, <3>1
      <4> QED
        BY <2>1, <3>2, <4>2, <4>3
    <3> QED
      BY <2>1, <3>1, <3>2
  <2> QED
    BY <1>4, <2>1 DEF NoStepOf, PlacedOf
<1>9. /\ Len(log[Home[c]]) \in Nat /\ Len(log'[Home[c]]) \in Nat
      /\ Len(log[Home[c]]) <= Len(log'[Home[c]])
      /\ \A i \in 1..Len(log[Home[c]]) : log'[Home[c]][i] = log[Home[c]][i]
  BY DEF NoStepOf, LogGrows
<1>10. WindowOf(c)'
  <2>1. start[c] \in Nat \cup {None} /\ start'[c] = start[c]
    BY DEF Types, IngressTypes, NoStepOf
  <2>2. start'[c] # None => start'[c] <= Len(log'[Home[c]])
    BY <1>9, <2>1 DEF WindowOf
  <2>3. \A q \in 1..Len(queue') : queue'[q].cmd = c =>
          /\ queue'[q].ev = "def_repo" => queue'[q].tree = Home[c]
          /\ queue'[q].tree \in {Nowhere, Home[c]}
          /\ queue'[q].to # None => /\ 0 <= queue'[q].from /\ queue'[q].from <= queue'[q].to
                                    /\ queue'[q].to <= Len(log'[Home[c]])
    <3> SUFFICES ASSUME NEW q \in 1..Len(queue'), queue'[q].cmd = c
                 PROVE  /\ queue'[q].ev = "def_repo" => queue'[q].tree = Home[c]
                        /\ queue'[q].tree \in {Nowhere, Home[c]}
                        /\ queue'[q].to # None =>
                              /\ 0 <= queue'[q].from /\ queue'[q].from <= queue'[q].to
                              /\ queue'[q].to <= Len(log'[Home[c]])
      OBVIOUS
    <3>1. PICK p \in Payloads : p = queue'[q] /\ \E r \in 1..Len(queue) : p = queue[r]
      BY <1>2 DEF Types, QueueTypes
    <3>2. /\ p.ev = "def_repo" => p.tree = Home[c]
          /\ p.tree \in {Nowhere, Home[c]}
          /\ p.to # None => 0 <= p.from /\ p.from <= p.to /\ p.to <= Len(log[Home[c]])
      BY <3>1 DEF WindowOf
    <3>3. p.to \in Int
      BY DEF Payloads
    <3>4. p.to # None => p.to <= Len(log'[Home[c]])
      BY <1>9, <3>2, <3>3
    <3> QED
      BY <3>1, <3>2, <3>4
  <2>4. /\ tree'[c] = tree[c] /\ reading'[c] = reading[c] /\ phase'[c] = phase[c]
        /\ c \in timely' <=> c \in timely
    BY DEF NoStepOf
  <2> QED
    BY <1>4, <2>1, <2>2, <2>3, <2>4 DEF WindowOf
<1>11. TimelyOf(c)'
  <2>1. ASSUME NEW from, NEW to, InWindow(c, from, to) PROVE InWindow(c, from, to)'
    BY <1>9, <2>1 DEF InWindow
  <2>2. ASSUME NEW from \in Int, InWindow(c, from, Len(log[Home[c]]))
        PROVE  InWindow(c, from, Len(log[Home[c]]))'
    BY <1>9, <2>2 DEF InWindow
  <2>3. start'[c] = start[c] /\ start[c] \in Int
    BY DEF NoStepOf, Types, IngressTypes, None
  <2>4. /\ c \in timely' <=> c \in timely
        /\ phase'[c] = phase[c] /\ emitted'[c] = emitted[c] /\ applied'[c] = applied[c]
    BY DEF NoStepOf
  <2> SUFFICES ASSUME c \in timely \cap Movers PROVE TimelyOf(c)'
    BY <2>4 DEF TimelyOf
  <2>5. phase[c] \in {"moved", "exited", "done"} /\ ExitAhead(c) =>
           InWindow(c, start[c], Len(log[Home[c]]))
    BY DEF TimelyOf
  <2>6. phase'[c] \in {"moved", "exited", "done"} /\ ExitAhead(c)' =>
           InWindow(c, start[c], Len(log[Home[c]]))'
    <3>1. PICK from \in Int : from = start[c]
      BY <2>3
    <3> QED
      BY <1>4, <2>2, <2>3, <2>4, <2>5, <3>1
  <2>7. \A q \in 1..Len(queue') : queue'[q].cmd = c /\ queue'[q].ev = "exit" =>
           queue'[q].to # None /\ InWindow(c, queue[q].from, queue[q].to)'
    <3> SUFFICES ASSUME NEW q \in 1..Len(queue'), queue'[q].cmd = c, queue'[q].ev = "exit"
                 PROVE  queue'[q].to # None /\ InWindow(c, queue[q].from, queue[q].to)'
      OBVIOUS
    <3>1. q + k \in 1..Len(queue) /\ queue'[q] = queue[q + k]
      BY <1>2
    <3>2. PICK from, to : from = queue'[q].from /\ to = queue'[q].to
      OBVIOUS
    <3>3. to # None /\ InWindow(c, from, to)
      BY <3>1, <3>2 DEF TimelyOf
    <3>4. InWindow(c, from, to)'
      BY <2>1, <3>3
    <3> QED
      BY <3>2, <3>3, <3>4 DEF InWindow
  <2> QED
    BY <2>4, <2>6, <2>7 DEF TimelyOf
<1> QED
  BY <1>6, <1>7, <1>8, <1>10, <1>11

-----------------------------------------------------------------------------
(* The steps of git.                                                        *)

LEMMA IdleIsEmpty ==
    ASSUME Types, NEW c \in Cmds, FlowOf(c), phase[c] = "idle"
    PROVE  /\ Root(c) = <<>> /\ ~Busy(c)
           /\ \A q \in 1..Len(queue) : ~Of(c, queue[q])
           /\ pending[c] = <<>> /\ emitted[c] = <<>> /\ Len(applied[c]) = 0
           /\ c \notin timely /\ c \notin Range(completed)
           /\ pipe[c]["child"] = <<>> /\ reading[c]["child"] = Idle
<1> USE DEF FlowOf
<1>1. Written(c) = 0
  BY DEF Written
<1>2. \A e \in Events : ~(Rank(e) <= 0)
  BY RankIs DEF Events
<1>3. Root(c) \in Seq(Events) /\ reading[c]["root"] \in Readings /\ queue \in Seq(Payloads)
  BY DEF Types, IngressTypes, QueueTypes, Root, Conns
<1>4. Root(c) = <<>>
  <2>1. ASSUME Root(c) # <<>> PROVE FALSE
    <3>1. 1 \in 1..Len(Root(c)) /\ Root(c)[1] \in Events
      BY <1>3, <2>1
    <3> QED
      BY <1>1, <1>2, <3>1 DEF OrderOf
  <2> QED
    BY <2>1
<1>5. ~Busy(c)
  BY <1>1, <1>2, <1>3 DEF OrderOf, Busy, ReadEv, Readings
<1>6. \A q \in 1..Len(queue) : ~Of(c, queue[q])
  <2> SUFFICES ASSUME NEW q \in 1..Len(queue), Of(c, queue[q]) PROVE FALSE
    OBVIOUS
  <2>1. queue[q].ev \in Events
    <3>1. queue \in Seq(Payloads)
      BY <1>3
    <3>2. queue[q] \in Payloads
      BY <3>1
    <3> QED
      BY <3>2 DEF Payloads
  <2> QED
    BY <1>1, <1>2, <2>1 DEF OrderOf
<1>7. pending[c] = <<>> /\ emitted[c] = <<>>
  BY DEF OnceOf
<1>8. Len(applied[c]) = 0
  <2>1. Len(applied[c]) \in Nat
    BY DEF Types, NormalizerTypes
  <2>2. Len(applied[c]) <= 0
    BY <1>7 DEF OnceOf
  <2> QED
    BY <2>1, <2>2
<1>9. c \notin timely /\ c \notin Range(completed)
  BY <1>7 DEF OnceOf, WindowOf
<1>10. pipe[c]["child"] = <<>> /\ reading[c]["child"] = Idle
  BY DEF ChildOf
<1> QED
  BY <1>4, <1>5, <1>6, <1>7, <1>8, <1>9, <1>10

\* A step of git's that leaves the ingress and the normalizer alone; it changes
\* what the root has written at most.
GitOnly(c) ==
    /\ UNCHANGED <<reading, tree, pre, start, timely, queue, normalizerVars, applied>>
    /\ \A d \in Cmds : d # c => phase'[d] = phase[d] /\ pipe'[d] = pipe[d]

LEMMA GitStepIs ==
    ASSUME Types, NEW c \in Cmds, Start(c) \/ Git(c)
    PROVE  GitOnly(c)
<1> USE DEF Types, GitTypes, IngressTypes
<1>1. CASE Start(c)
  BY <1>1 DEF Start, GitOnly
<1>2. CASE Announce(c)
  BY <1>2 DEF Announce, GitOnly
<1>3. CASE Fork(c)
  BY <1>3 DEF Fork, GitOnly
<1>4. CASE Move(c)
  BY <1>4 DEF Move, GitOnly, ingressVars
<1>5. CASE Exit(c)
  BY <1>5 DEF Exit, GitOnly
<1>6. CASE PostState(c)
  BY <1>6 DEF PostState, GitOnly, ingressVars
<1> QED
  BY <1>1, <1>2, <1>3, <1>4, <1>5, <1>6 DEF Git

LEMMA StartKeeps ==
    ASSUME Types, NEW c \in Cmds, FlowOf(c), Start(c)
    PROVE  FlowOf(c)'
<1> USE DEF FlowOf
<1>1. /\ Root(c) = <<>> /\ ~Busy(c)
      /\ \A q \in 1..Len(queue) : ~Of(c, queue[q])
      /\ pending[c] = <<>> /\ emitted[c] = <<>> /\ Len(applied[c]) = 0
      /\ c \notin timely /\ c \notin Range(completed)
      /\ pipe[c]["child"] = <<>> /\ reading[c]["child"] = Idle
  BY IdleIsEmpty DEF Start
<1>2. /\ phase[c] = "idle" /\ phase'[c] = "started"
      /\ UNCHANGED <<log, reading, tree, start, timely, queue, normalizerVars, applied>>
  BY DEF Start, Types, GitTypes
<1>3. /\ Len(Root(c)') \in {1, 2} /\ Root(c)'[1] = "start"
      /\ Len(Root(c)') = 2 => Root(c)'[2] = "def_param"
      /\ pipe'[c]["child"] = pipe[c]["child"]
  <2>1. PICK s : /\ Len(s) \in {1, 2} /\ s[1] = "start" /\ (Len(s) = 2 => s[2] = "def_param")
                 /\ pipe' = [pipe EXCEPT ![c]["root"] = s]
    <3>1. \A s : \/ s = <<"start">> \o <<"def_param">>
                 \/ s = <<"start">> \o <<>>
            => Len(s) \in {1, 2} /\ s[1] = "start" /\ (Len(s) = 2 => s[2] = "def_param")
      OBVIOUS
    <3>2. PICK s : /\ s = <<"start">> \o (IF c \in Wrapped THEN <<"def_param">> ELSE <<>>)
                   /\ pipe' = [pipe EXCEPT ![c]["root"] = s]
      BY DEF Start
    <3>3. s = <<"start">> \o <<"def_param">> \/ s = <<"start">> \o <<>>
      BY <3>2
    <3> QED
      BY <3>1, <3>2, <3>3
  <2> QED
    BY <2>1 DEF Root, Types, IngressTypes, Conns
<1>4. Written(c)' = 2
  BY <1>2 DEF Written
<1>5. OrderOf(c)'
  <2>1. ~Busy(c)' /\ \A q \in 1..Len(queue') : ~Of(c, queue[q])'
    BY <1>1, <1>2 DEF Busy, Of
  <2>2. /\ \A i \in 1..Len(Root(c)') : Rank(Root(c)[i])' <= 2
        /\ \A i, j \in 1..Len(Root(c)') : i < j => Rank(Root(c)[i])' < Rank(Root(c)[j])'
    <3>1. \A i \in 1..Len(Root(c)') : i = 1 \/ (i = 2 /\ Len(Root(c)') = 2)
      <4>1. CASE Len(Root(c)') = 1
        BY <4>1
      <4>2. CASE Len(Root(c)') = 2
        BY <4>2
      <4> QED
        BY <1>3, <4>1, <4>2
    <3> QED
      BY <1>3, <3>1, RankIs
  <2> QED
    BY <1>4, <2>1, <2>2 DEF OrderOf
<1>6. /\ pending'[c] = <<>> /\ emitted'[c] = <<>> /\ applied' = applied
      /\ Range(completed') = Range(completed) /\ sidTree' = sidTree
  BY <1>1, <1>2 DEF normalizerVars
<1>7. OnceOf(c)'
  BY <1>1, <1>2, <1>6 DEF OnceOf
<1>8. NoneLostOf(c)'
  <2>1. 1 \in 1..Len(Root(c)') /\ Root(c)'[1] = "start"
    BY <1>3
  <2> QED
    BY <1>2, <2>1 DEF NoneLostOf, Unseen
<1>9. PlacedOf(c)'
  BY <1>2, <1>6 DEF PlacedOf
<1>10. WindowOf(c)'
  BY <1>1, <1>2 DEF WindowOf, ExitAhead
<1>11. TimelyOf(c)' /\ ChildOf(c)'
  BY <1>1, <1>2, <1>3 DEF TimelyOf, ChildOf
<1> QED
  BY <1>5, <1>7, <1>8, <1>9, <1>10, <1>11

LEMMA AnnounceKeeps ==
    ASSUME Types, NEW c \in Cmds, FlowOf(c), Announce(c)
    PROVE  FlowOf(c)'
<1> USE DEF FlowOf
<1>1. /\ phase[c] = "started" /\ phase'[c] = "announced"
      /\ UNCHANGED <<log, reading, tree, start, timely, queue, normalizerVars, applied>>
  BY DEF Announce, Types, GitTypes
<1>2. Root(c) \in Seq(Events) /\ Len(Root(c)) \in Nat
  BY DEF Types, IngressTypes, Root, Conns
<1>3. Root(c)' = Append(Root(c), "def_repo") /\ pipe'[c]["child"] = pipe[c]["child"]
  BY DEF Announce, Root, Types, IngressTypes, Conns
<1>4. /\ Len(Root(c)') = Len(Root(c)) + 1
      /\ \A i \in 1..Len(Root(c)) : Root(c)'[i] = Root(c)[i]
      /\ Root(c)'[Len(Root(c)) + 1] = "def_repo"
      /\ \A i \in 1..Len(Root(c)') : i \in 1..Len(Root(c)) \/ i = Len(Root(c)) + 1
  BY <1>2, <1>3
<1>5. Written(c) = 2 /\ Written(c)' = 3
  BY <1>1 DEF Written
<1>6. (Busy(c)' <=> Busy(c)) /\ ReadEv(c)' = ReadEv(c)
  BY <1>1 DEF Busy, ReadEv
<1>7. \A e : Unseen(c, e)' <=> Unseen(c, e) \/ e = "def_repo"
  <2>1. \A e : (\E i \in 1..Len(Root(c)') : Root(c)'[i] = e)
                  <=> (\E i \in 1..Len(Root(c)) : Root(c)[i] = e) \/ e = "def_repo"
    BY <1>2, <1>4
  <2> QED
    BY <1>6, <2>1 DEF Unseen
<1>8. \A e : Holds(c, e)' <=> Holds(c, e)
  BY <1>1 DEF Holds
<1>9. OrderOf(c)'
  <2>0. \A e \in Events : Rank(e) \in Nat
    BY RankIs DEF Events
  <2>1. \A i \in 1..Len(Root(c)) : Rank(Root(c)[i]) \in Nat /\ Rank(Root(c)[i]) < 3
    <3> SUFFICES ASSUME NEW i \in 1..Len(Root(c)) PROVE Rank(Root(c)[i]) \in Nat /\ Rank(Root(c)[i]) < 3
      OBVIOUS
    <3>1. Root(c)[i] \in Events
      BY <1>2
    <3>2. Rank(Root(c)[i]) \in Nat
      BY <2>0, <3>1
    <3>3. Rank(Root(c)[i]) <= 2
      BY <1>5 DEF OrderOf
    <3> QED
      BY <3>2, <3>3
  <2>2. /\ \A i \in 1..Len(Root(c)') : Rank(Root(c)'[i]) <= 3
        /\ \A i, j \in 1..Len(Root(c)') : i < j => Rank(Root(c)'[i]) < Rank(Root(c)'[j])
    <3>1. \A i, j \in 1..Len(Root(c)) : i < j => Rank(Root(c)[i]) < Rank(Root(c)[j])
      BY DEF OrderOf
    <3>2. Rank(Root(c)'[Len(Root(c)) + 1]) = 3
      BY <1>4, RankIs
    <3>3. \A i \in 1..Len(Root(c)') : Rank(Root(c)'[i]) <= 3
      BY <1>4, <2>1, <3>2
    <3> QED
      BY <1>2, <1>4, <2>1, <3>1, <3>2, <3>3
  <2>3. Busy(c) => Rank(ReadEv(c)) \in Nat /\ Rank(ReadEv(c)) < 3
    <3> SUFFICES ASSUME Busy(c) PROVE Rank(ReadEv(c)) \in Nat /\ Rank(ReadEv(c)) < 3
      OBVIOUS
    <3>1. ReadEv(c) \in Events
      BY DEF Types, IngressTypes, Busy, ReadEv, Readings, Conns
    <3>2. Rank(ReadEv(c)) \in Nat
      BY <2>0, <3>1
    <3>3. Rank(ReadEv(c)) <= 2
      BY <1>5 DEF OrderOf
    <3> QED
      BY <3>2, <3>3
  <2>4. \A q \in 1..Len(queue) : Of(c, queue[q]) => Rank(queue[q].ev) \in Nat /\ Rank(queue[q].ev) < 3
    <3> SUFFICES ASSUME NEW q \in 1..Len(queue), Of(c, queue[q])
                 PROVE  Rank(queue[q].ev) \in Nat /\ Rank(queue[q].ev) < 3
      OBVIOUS
    <3>1. queue[q] \in Payloads
      BY DEF Types, QueueTypes
    <3>2. Rank(queue[q].ev) \in Nat
      BY <2>0, <3>1 DEF Payloads
    <3>3. Rank(queue[q].ev) <= 2
      BY <1>5 DEF OrderOf
    <3> QED
      BY <3>2, <3>3
  <2>5. Busy(c) => /\ Rank(ReadEv(c)) <= 3
                   /\ \A i \in 1..Len(Root(c)') : Rank(ReadEv(c)) < Rank(Root(c)'[i])
    BY <1>4, <2>3, RankIs DEF OrderOf
  <2>6. \A q \in 1..Len(queue) : Of(c, queue[q]) =>
          /\ Rank(queue[q].ev) <= 3
          /\ Busy(c) => Rank(queue[q].ev) < Rank(ReadEv(c))
          /\ \A i \in 1..Len(Root(c)') : Rank(queue[q].ev) < Rank(Root(c)'[i])
    BY <1>4, <2>4, RankIs DEF OrderOf
  <2>7. queue' = queue /\ \A q \in 1..Len(queue) : Of(c, queue[q])' <=> Of(c, queue[q])
    BY <1>1 DEF Of
  <2> QED
    BY <1>5, <1>6, <2>2, <2>5, <2>6, <2>7 DEF OrderOf
<1>10. /\ pending' = pending /\ emitted' = emitted /\ applied' = applied
       /\ completed' = completed /\ sidTree' = sidTree
  BY <1>1 DEF normalizerVars
<1>11. OnceOf(c)' /\ NoneLostOf(c)'
  BY <1>1, <1>7, <1>8, <1>10 DEF OnceOf, NoneLostOf
<1>12. PlacedOf(c)'
  BY <1>1, <1>7, <1>10 DEF PlacedOf
<1>13. WindowOf(c)'
  BY <1>1 DEF WindowOf, ExitAhead
<1>14. TimelyOf(c)' /\ ChildOf(c)'
  BY <1>1, <1>3, <1>10 DEF TimelyOf, ChildOf, InWindow
<1> QED
  BY <1>9, <1>11, <1>12, <1>13, <1>14

LEMMA OrderStays ==
    ASSUME NEW c \in Cmds, OrderOf(c), Root(c)' = Root(c), reading'[c] = reading[c],
           Written(c)' = Written(c), queue' = queue
    PROVE  OrderOf(c)'
<1>1. (Busy(c)' <=> Busy(c)) /\ ReadEv(c)' = ReadEv(c)
  BY DEF Busy, ReadEv
<1>2. \A q \in 1..Len(queue) : Of(c, queue[q])' <=> Of(c, queue[q])
  BY DEF Of
<1> QED
  BY <1>1, <1>2 DEF OrderOf

LEMMA UnseenStays ==
    ASSUME NEW c \in Cmds, Root(c)' = Root(c), reading'[c] = reading[c]
    PROVE  \A e : Unseen(c, e)' <=> Unseen(c, e)
BY DEF Unseen, Busy, ReadEv

LEMMA ForkKeeps ==
    ASSUME Types, OneRepository, NEW c \in Cmds, FlowOf(c), Fork(c)
    PROVE  FlowOf(c)'
<1> USE DEF FlowOf
<1>1. /\ phase[c] = "announced" /\ phase'[c] = "forked"
      /\ UNCHANGED <<log, reading, tree, start, timely, queue, normalizerVars, applied>>
  BY DEF Fork, Types, GitTypes
<1>2. /\ Root(c)' = Root(c)
      /\ \/ pipe'[c]["child"] = pipe[c]["child"]
         \/ pipe'[c]["child"] = <<"def_repo">> /\ Child[c] = Home[c]
  BY DEF Fork, Root, Types, IngressTypes, Conns, OneRepository
<1>3. Written(c)' = Written(c)
  BY <1>1 DEF Written
<1>4. OrderOf(c)'
  BY <1>1, <1>2, <1>3, OrderStays
<1>5. \A e : (Unseen(c, e)' <=> Unseen(c, e)) /\ (Holds(c, e)' <=> Holds(c, e))
  BY <1>1, <1>2, UnseenStays DEF Holds
<1>6. /\ pending' = pending /\ emitted' = emitted /\ applied' = applied
      /\ completed' = completed /\ sidTree' = sidTree
  BY <1>1 DEF normalizerVars
<1>7. OnceOf(c)' /\ NoneLostOf(c)'
  BY <1>1, <1>5, <1>6 DEF OnceOf, NoneLostOf
<1>8. PlacedOf(c)'
  BY <1>1, <1>5, <1>6 DEF PlacedOf
<1>9. WindowOf(c)'
  BY <1>1 DEF WindowOf, ExitAhead
<1>10. TimelyOf(c)'
  BY <1>1, <1>6 DEF TimelyOf, InWindow
<1>11. ChildOf(c)'
  BY <1>1, <1>2 DEF ChildOf
<1> QED
  BY <1>4, <1>7, <1>8, <1>9, <1>10, <1>11

LEMMA ExitKeeps ==
    ASSUME Types, NEW c \in Cmds, FlowOf(c), Exit(c)
    PROVE  FlowOf(c)'
<1> USE DEF FlowOf
<1>1. /\ phase[c] = "moved" /\ phase'[c] = "exited"
      /\ UNCHANGED <<log, reading, tree, start, timely, queue, normalizerVars, applied>>
  BY DEF Exit, Types, GitTypes
<1>2. Root(c) \in Seq(Events) /\ Len(Root(c)) \in Nat
  BY DEF Types, IngressTypes, Root, Conns
<1>3. Root(c)' = Root(c) \o <<"exit", "atexit">> /\ pipe'[c]["child"] = pipe[c]["child"]
  BY DEF Exit, Root, Types, IngressTypes, Conns
<1>4. /\ Len(Root(c)') = Len(Root(c)) + 2
      /\ \A i \in 1..Len(Root(c)) : Root(c)'[i] = Root(c)[i]
      /\ Root(c)'[Len(Root(c)) + 1] = "exit" /\ Root(c)'[Len(Root(c)) + 2] = "atexit"
      /\ \A i \in 1..Len(Root(c)') : \/ i \in 1..Len(Root(c))
                                     \/ i = Len(Root(c)) + 1 \/ i = Len(Root(c)) + 2
  BY <1>2, <1>3
<1>5. Written(c) = 3 /\ Written(c)' = 5
  BY <1>1 DEF Written
<1>6. (Busy(c)' <=> Busy(c)) /\ ReadEv(c)' = ReadEv(c)
  BY <1>1 DEF Busy, ReadEv
<1>7. \A e : Unseen(c, e)' <=> Unseen(c, e) \/ e = "exit" \/ e = "atexit"
  <2>1. \A e : (\E i \in 1..Len(Root(c)') : Root(c)'[i] = e)
                  <=> (\E i \in 1..Len(Root(c)) : Root(c)[i] = e) \/ e = "exit" \/ e = "atexit"
    BY <1>2, <1>4
  <2> QED
    BY <1>6, <2>1 DEF Unseen
<1>8. \A e : Holds(c, e)' <=> Holds(c, e)
  BY <1>1 DEF Holds
<1>9. OrderOf(c)'
  <2>0. \A e \in Events : Rank(e) \in Nat
    BY RankIs DEF Events
  <2>1. \A i \in 1..Len(Root(c)) : Rank(Root(c)[i]) \in Nat /\ Rank(Root(c)[i]) < 4
    <3> SUFFICES ASSUME NEW i \in 1..Len(Root(c)) PROVE Rank(Root(c)[i]) \in Nat /\ Rank(Root(c)[i]) < 4
      OBVIOUS
    <3>1. Root(c)[i] \in Events
      BY <1>2
    <3>2. Rank(Root(c)[i]) \in Nat
      BY <2>0, <3>1
    <3>3. Rank(Root(c)[i]) <= 3
      BY <1>5 DEF OrderOf
    <3> QED
      BY <3>2, <3>3
  <2>2. /\ \A i \in 1..Len(Root(c)') : Rank(Root(c)'[i]) <= 5
        /\ \A i, j \in 1..Len(Root(c)') : i < j => Rank(Root(c)'[i]) < Rank(Root(c)'[j])
    <3>1. \A i, j \in 1..Len(Root(c)) : i < j => Rank(Root(c)[i]) < Rank(Root(c)[j])
      BY DEF OrderOf
    <3>2. Rank(Root(c)'[Len(Root(c)) + 1]) = 4 /\ Rank(Root(c)'[Len(Root(c)) + 2]) = 5
      BY <1>4, RankIs
    <3>3. \A i \in 1..Len(Root(c)') : Rank(Root(c)'[i]) <= 5
      BY <1>4, <2>1, <3>2
    <3> QED
      BY <1>2, <1>4, <2>1, <3>1, <3>2, <3>3
  <2>3. Busy(c) => Rank(ReadEv(c)) \in Nat /\ Rank(ReadEv(c)) < 4
    <3> SUFFICES ASSUME Busy(c) PROVE Rank(ReadEv(c)) \in Nat /\ Rank(ReadEv(c)) < 4
      OBVIOUS
    <3>1. ReadEv(c) \in Events
      BY DEF Types, IngressTypes, Busy, ReadEv, Readings, Conns
    <3>2. Rank(ReadEv(c)) \in Nat
      BY <2>0, <3>1
    <3>3. Rank(ReadEv(c)) <= 3
      BY <1>5 DEF OrderOf
    <3> QED
      BY <3>2, <3>3
  <2>4. \A q \in 1..Len(queue) : Of(c, queue[q]) => Rank(queue[q].ev) \in Nat /\ Rank(queue[q].ev) < 4
    <3> SUFFICES ASSUME NEW q \in 1..Len(queue), Of(c, queue[q])
                 PROVE  Rank(queue[q].ev) \in Nat /\ Rank(queue[q].ev) < 4
      OBVIOUS
    <3>1. queue[q] \in Payloads
      BY DEF Types, QueueTypes
    <3>2. Rank(queue[q].ev) \in Nat
      BY <2>0, <3>1 DEF Payloads
    <3>3. Rank(queue[q].ev) <= 3
      BY <1>5 DEF OrderOf
    <3> QED
      BY <3>2, <3>3
  <2>5. Busy(c) => /\ Rank(ReadEv(c)) <= 5
                   /\ \A i \in 1..Len(Root(c)') : Rank(ReadEv(c)) < Rank(Root(c)'[i])
    BY <1>4, <2>3, RankIs DEF OrderOf
  <2>6. \A q \in 1..Len(queue) : Of(c, queue[q]) =>
          /\ Rank(queue[q].ev) <= 5
          /\ Busy(c) => Rank(queue[q].ev) < Rank(ReadEv(c))
          /\ \A i \in 1..Len(Root(c)') : Rank(queue[q].ev) < Rank(Root(c)'[i])
    BY <1>4, <2>4, RankIs, SMTT(60) DEF OrderOf
  <2>7. queue' = queue /\ \A q \in 1..Len(queue) : Of(c, queue[q])' <=> Of(c, queue[q])
    BY <1>1 DEF Of
  <2> QED
    BY <1>5, <1>6, <2>2, <2>5, <2>6, <2>7 DEF OrderOf
<1>10. /\ pending' = pending /\ emitted' = emitted /\ applied' = applied
       /\ completed' = completed /\ sidTree' = sidTree
  BY <1>1 DEF normalizerVars
<1>11. OnceOf(c)' /\ NoneLostOf(c)'
  BY <1>1, <1>7, <1>8, <1>10 DEF OnceOf, NoneLostOf
<1>12. PlacedOf(c)'
  BY <1>1, <1>7, <1>10 DEF PlacedOf
<1>13. WindowOf(c)'
  BY <1>1 DEF WindowOf, ExitAhead
<1>14. TimelyOf(c)'
  <2>1. ExitAhead(c)
    BY <1>1 DEF ExitAhead
  <2> QED
    BY <1>1, <1>10, <2>1 DEF TimelyOf, InWindow
<1>15. ChildOf(c)'
  BY <1>1, <1>3 DEF ChildOf
<1> QED
  BY <1>9, <1>11, <1>12, <1>13, <1>14, <1>15

LEMMA PostStateKeeps ==
    ASSUME Types, NEW c \in Cmds, FlowOf(c), PostState(c)
    PROVE  FlowOf(c)'
<1> USE DEF FlowOf
<1>1. /\ phase[c] = "exited" /\ phase'[c] = "done" /\ Root(c)' = Root(c)
      /\ UNCHANGED <<log, pipe, reading, tree, start, timely, queue, normalizerVars, applied>>
  BY DEF PostState, Types, GitTypes, ingressVars, Root
<1>2. Written(c)' = Written(c)
  BY <1>1 DEF Written
<1>3. OrderOf(c)'
  BY <1>1, <1>2, OrderStays
<1>4. \A e : (Unseen(c, e)' <=> Unseen(c, e)) /\ (Holds(c, e)' <=> Holds(c, e))
  BY <1>1, UnseenStays DEF Holds
<1>5. /\ pending' = pending /\ emitted' = emitted /\ applied' = applied
      /\ completed' = completed /\ sidTree' = sidTree
  BY <1>1 DEF normalizerVars
<1>6. OnceOf(c)' /\ NoneLostOf(c)'
  BY <1>1, <1>4, <1>5 DEF OnceOf, NoneLostOf
<1>7. PlacedOf(c)'
  BY <1>1, <1>4, <1>5 DEF PlacedOf
<1>8. ExitAhead(c)' <=> ExitAhead(c)
  BY <1>1, <1>4 DEF ExitAhead
<1>9. WindowOf(c)'
  BY <1>1, <1>8 DEF WindowOf
<1>10. TimelyOf(c)'
  BY <1>1, <1>5, <1>8 DEF TimelyOf, InWindow
<1>11. ChildOf(c)'
  BY <1>1 DEF ChildOf
<1> QED
  BY <1>3, <1>6, <1>7, <1>9, <1>10, <1>11

LEMMA ApplyKeeps ==
    ASSUME Inv, NEW c \in Cmds, Apply(c)
    PROVE  FlowOf(c)'
<1>0. FlowOf(c) /\ applied[c] = <<>> /\ Len(emitted[c]) = 1 /\ applied \in [Cmds -> Seq(Commands)]
  BY ApplyIs DEF Inv, FlowInv, Types, NormalizerTypes
<1> USE DEF FlowOf
<1>1. PICK y \in Commands : /\ y.tree = emitted[c][1].tree /\ y.moves = emitted[c][1].moves
                            /\ applied' = [applied EXCEPT ![c] = <<y>>]
  BY ApplyIs
<1>2. applied'[c] = <<y>> /\ Len(applied'[c]) = 1 /\ \A i \in 1..1 : applied'[c][i] = y
  BY <1>0, <1>1
<1>3. UNCHANGED <<gitVars, ingressVars, normalizerVars>>
  BY ApplyIs
<1>4. /\ UNCHANGED <<log, phase, pipe, reading, tree, start, timely, queue>>
      /\ UNCHANGED <<pending, emitted, completed, sidTree>> /\ Root(c)' = Root(c)
  BY <1>3 DEF gitVars, ingressVars, normalizerVars, Root
<1>5. Written(c)' = Written(c)
  BY <1>4 DEF Written
<1>6. OrderOf(c)'
  BY <1>0, <1>4, <1>5, OrderStays
<1>7. \A e : (Unseen(c, e)' <=> Unseen(c, e)) /\ (Holds(c, e)' <=> Holds(c, e))
  BY <1>4, UnseenStays DEF Holds
<1>8. OnceOf(c)' /\ NoneLostOf(c)'
  BY <1>0, <1>2, <1>4, <1>7 DEF OnceOf, NoneLostOf
<1>9. PlacedOf(c)'
  BY <1>0, <1>4, <1>7 DEF PlacedOf
<1>10. ExitAhead(c)' <=> ExitAhead(c)
  BY <1>4, <1>7 DEF ExitAhead
<1>11. WindowOf(c)'
  BY <1>0, <1>4, <1>10 DEF WindowOf
<1>12. TimelyOf(c)'
  BY <1>0, <1>1, <1>2, <1>4, <1>10 DEF TimelyOf, InWindow
<1>13. ChildOf(c)'
  BY <1>0, <1>4 DEF ChildOf
<1> QED
  BY <1>6, <1>8, <1>9, <1>11, <1>12, <1>13

LEMMA MoveKeeps ==
    ASSUME Types, NEW c \in Cmds, FlowOf(c), Move(c)
    PROVE  FlowOf(c)'
<1> USE DEF FlowOf
<1>1. /\ phase[c] = "forked" /\ phase'[c] = "moved" /\ Root(c)' = Root(c)
      /\ UNCHANGED <<pipe, reading, tree, start, timely, queue, normalizerVars, applied>>
  BY DEF Move, Types, GitTypes, ingressVars, Root
<1>2. /\ log[Home[c]] \in Seq(Cmds) /\ Home[c] \in Trees
      /\ log' = IF c \in Movers THEN [log EXCEPT ![Home[c]] = Append(log[Home[c]], c)] ELSE log
  BY PlacesAssumption DEF Move, Types, GitTypes
<1>3. PICK n \in Nat, m \in Nat :
        /\ n = Len(log[Home[c]]) /\ m = Len(log'[Home[c]]) /\ n <= m
        /\ \A i \in 1..n : log'[Home[c]][i] = log[Home[c]][i]
        /\ c \in Movers => m = n + 1 /\ log'[Home[c]][n + 1] = c
  <2>1. CASE c \in Movers
    <3>1. log'[Home[c]] = Append(log[Home[c]], c)
      BY <1>2, <2>1 DEF Types, GitTypes
    <3>2. /\ Len(log[Home[c]]) \in Nat /\ Len(log'[Home[c]]) = Len(log[Home[c]]) + 1
          /\ \A i \in 1..Len(log[Home[c]]) : log'[Home[c]][i] = log[Home[c]][i]
          /\ log'[Home[c]][Len(log[Home[c]]) + 1] = c
      BY <1>2, <3>1
    <3>3. PICK n \in Nat : n = Len(log[Home[c]])
      BY <3>2
    <3>4. Len(log'[Home[c]]) = n + 1 /\ n + 1 \in Nat /\ n <= n + 1
      BY <3>2, <3>3
    <3> QED
      BY <3>2, <3>3, <3>4
  <2>2. CASE c \notin Movers
    <3>1. log' = log
      BY <1>2, <2>2
    <3> QED
      BY <1>2, <2>2, <3>1
  <2> QED
    BY <2>1, <2>2
<1>4. Written(c)' = Written(c)
  BY <1>1 DEF Written
<1>5. OrderOf(c)'
  BY <1>1, <1>4, OrderStays
<1>6. \A e : (Unseen(c, e)' <=> Unseen(c, e)) /\ (Holds(c, e)' <=> Holds(c, e))
  BY <1>1, UnseenStays DEF Holds
<1>7. /\ pending' = pending /\ emitted' = emitted /\ applied' = applied
      /\ completed' = completed /\ sidTree' = sidTree
  BY <1>1 DEF normalizerVars
<1>8. OnceOf(c)' /\ NoneLostOf(c)'
  BY <1>1, <1>6, <1>7 DEF OnceOf, NoneLostOf
<1>9. PlacedOf(c)'
  BY <1>1, <1>6, <1>7 DEF PlacedOf
<1>10. ExitAhead(c) /\ ExitAhead(c)'
  BY <1>1 DEF ExitAhead
<1>11. start[c] \in Nat \cup {None}
  BY DEF Types, IngressTypes
<1>12. WindowOf(c)'
  <2>1. start[c] # None => start[c] <= m
    <3>1. start[c] # None => start[c] \in Nat /\ start[c] <= n
      BY <1>3, <1>11 DEF WindowOf
    <3> QED
      BY <1>3, <3>1
  <2>2. \A q \in 1..Len(queue) : queue[q].cmd = c =>
          /\ queue[q].ev = "def_repo" => queue[q].tree = Home[c]
          /\ queue[q].tree \in {Nowhere, Home[c]}
          /\ queue[q].to # None =>
                0 <= queue[q].from /\ queue[q].from <= queue[q].to /\ queue[q].to <= m
    <3> SUFFICES ASSUME NEW q \in 1..Len(queue), queue[q].cmd = c
                 PROVE  /\ queue[q].ev = "def_repo" => queue[q].tree = Home[c]
                        /\ queue[q].tree \in {Nowhere, Home[c]}
                        /\ queue[q].to # None =>
                              0 <= queue[q].from /\ queue[q].from <= queue[q].to /\ queue[q].to <= m
      OBVIOUS
    <3>1. queue[q] \in Payloads
      BY DEF Types, QueueTypes
    <3>2. queue[q].to \in Int
      BY <3>1 DEF Payloads
    <3>3. /\ queue[q].ev = "def_repo" => queue[q].tree = Home[c]
          /\ queue[q].tree \in {Nowhere, Home[c]}
          /\ queue[q].to # None =>
                0 <= queue[q].from /\ queue[q].from <= queue[q].to /\ queue[q].to <= n
      BY <1>3 DEF WindowOf
    <3> QED
      BY <1>3, <3>2, <3>3
  <2> QED
    BY <1>1, <1>3, <1>10, <2>1, <2>2 DEF WindowOf
<1>13. TimelyOf(c)'
  <2> SUFFICES ASSUME c \in timely \cap Movers PROVE TimelyOf(c)'
    BY <1>1 DEF TimelyOf
  <2>1. InWindow(c, start[c], Len(log[Home[c]]))'
    <3>1. start[c] \in Nat /\ start[c] <= n
      BY <1>3, <1>10, <1>11 DEF WindowOf
    <3>2. n + 1 \in 1..m /\ start[c] < n + 1 /\ n + 1 <= m /\ log'[Home[c]][n + 1] = c
      BY <1>3, <3>1
    <3> QED
      BY <1>1, <1>3, <3>2 DEF InWindow
  <2>2. \A from, to : InWindow(c, from, to) => InWindow(c, from, to)'
    BY <1>3 DEF InWindow
  <2>3. \A q \in 1..Len(queue) : queue[q].cmd = c /\ queue[q].ev = "exit" =>
           queue[q].to # None /\ InWindow(c, queue[q].from, queue[q].to)'
    <3>1. queue' = queue
      BY <1>1
    <3>2. \A q \in 1..Len(queue) : queue[q].cmd = c /\ queue[q].ev = "exit" =>
             queue[q].to # None /\ InWindow(c, queue[q].from, queue[q].to)
      BY DEF TimelyOf
    <3> QED
      BY <2>2, <3>1, <3>2 DEF InWindow
  <2> QED
    BY <1>1, <1>7, <2>1, <2>3 DEF TimelyOf
<1>14. ChildOf(c)'
  BY <1>1 DEF ChildOf
<1> QED
  BY <1>5, <1>8, <1>9, <1>12, <1>13, <1>14

-----------------------------------------------------------------------------
(* The steps of a connection.                                               *)

\* The event at the head of a root's connection goes to its thread.
LEMMA TakenStaysOrdered ==
    ASSUME Types, Types', NEW c \in Cmds, OrderOf(c), Root(c) # <<>>, ~Busy(c),
           Root(c)' = Tail(Root(c)), Busy(c)', ReadEv(c)' = Root(c)[1],
           Written(c)' = Written(c), queue' = queue
    PROVE  OrderOf(c)' /\ \A e : Unseen(c, e)' <=> Unseen(c, e)
<1>1. Root(c) \in Seq(Events)
  BY DEF Types, IngressTypes, Root, Conns
<1>2. /\ Len(Root(c)) \in Nat /\ Len(Root(c)') = Len(Root(c)) - 1 /\ 1 \in 1..Len(Root(c))
      /\ \A i \in 1..Len(Root(c)') : i + 1 \in 1..Len(Root(c)) /\ Root(c)'[i] = Root(c)[i + 1]
  BY <1>1
<1>3. \A i \in 1..Len(Root(c)) : i = 1 \/ (i - 1 \in 1..Len(Root(c)') /\ (i - 1) + 1 = i)
  BY <1>2
<1>4. \A i \in 1..Len(Root(c)') : 1 < i + 1
  BY <1>2
<1>5. \A q \in 1..Len(queue) : Of(c, queue[q])' <=> Of(c, queue[q])
  BY DEF Of
<1>6. \A i \in 1..Len(Root(c)') : Rank(Root(c)'[i]) <= Written(c)
  BY <1>2 DEF OrderOf
<1>7. \A i, j \in 1..Len(Root(c)') : i < j => Rank(Root(c)'[i]) < Rank(Root(c)'[j])
  <2> SUFFICES ASSUME NEW i \in 1..Len(Root(c)'), NEW j \in 1..Len(Root(c)'), i < j
               PROVE  Rank(Root(c)'[i]) < Rank(Root(c)'[j])
    OBVIOUS
  <2>1. i + 1 < j + 1
    BY <1>2
  <2> QED
    BY <1>2, <2>1 DEF OrderOf
<1>8. /\ Rank(Root(c)[1]) <= Written(c)
      /\ \A i \in 1..Len(Root(c)') : Rank(Root(c)[1]) < Rank(Root(c)'[i])
  BY <1>2, <1>4 DEF OrderOf
<1>9. \A q \in 1..Len(queue) : Of(c, queue[q]) =>
        /\ Rank(queue[q].ev) <= Written(c)
        /\ Rank(queue[q].ev) < Rank(Root(c)[1])
        /\ \A i \in 1..Len(Root(c)') : Rank(queue[q].ev) < Rank(Root(c)'[i])
  BY <1>2 DEF OrderOf
<1>10. OrderOf(c)'
  BY <1>5, <1>6, <1>7, <1>8, <1>9 DEF OrderOf
<1>11. \A e : Unseen(c, e)' <=> Unseen(c, e)
  <2>1. \A e : (\E i \in 1..Len(Root(c)) : Root(c)[i] = e)
                  <=> Root(c)[1] = e \/ \E i \in 1..Len(Root(c)') : Root(c)'[i] = e
    BY <1>2, <1>3, SMTT(60)
  <2> QED
    BY <2>1 DEF Unseen
<1> QED
  BY <1>10, <1>11

\* It goes to the queue, with no thread in between.
LEMMA PushedStaysOrdered ==
    ASSUME Types, Types', NEW c \in Cmds, OrderOf(c), Root(c) # <<>>, ~Busy(c),
           Root(c)' = Tail(Root(c)), ~Busy(c)', Written(c)' = Written(c),
           NEW p \in Payloads, Pushed(p), p.cmd = c, p.ev = Root(c)[1]
    PROVE  /\ OrderOf(c)'
           /\ \A e : Unseen(c, e) <=> Unseen(c, e)' \/ e = p.ev
           /\ \A e : Holds(c, e)' <=> Holds(c, e) \/ e = p.ev
<1>1. Root(c) \in Seq(Events)
  BY DEF Types, IngressTypes, Root, Conns
<1>2. /\ Len(Root(c)) \in Nat /\ Len(Root(c)') = Len(Root(c)) - 1 /\ 1 \in 1..Len(Root(c))
      /\ \A i \in 1..Len(Root(c)') : i + 1 \in 1..Len(Root(c)) /\ Root(c)'[i] = Root(c)[i + 1]
  BY <1>1
<1>3. \A i \in 1..Len(Root(c)) : i = 1 \/ (i - 1 \in 1..Len(Root(c)') /\ (i - 1) + 1 = i)
  BY <1>2
<1>4. \A i \in 1..Len(Root(c)') : 1 < i + 1
  BY <1>2
<1>5. /\ Len(queue) \in Nat /\ Len(queue') = Len(queue) + 1
      /\ \A i \in 1..Len(queue) : queue'[i] = queue[i]
      /\ queue'[Len(queue) + 1] = p
      /\ \A i \in 1..Len(queue') : i \in 1..Len(queue) \/ i = Len(queue) + 1
      /\ \A i \in 1..Len(queue) : i \in 1..Len(queue')
  BY PushedQueue DEF Types
<1>6. \A i \in 1..Len(Root(c)') : Rank(Root(c)'[i]) <= Written(c)
  BY <1>2 DEF OrderOf
<1>7. \A i, j \in 1..Len(Root(c)') : i < j => Rank(Root(c)'[i]) < Rank(Root(c)'[j])
  <2> SUFFICES ASSUME NEW i \in 1..Len(Root(c)'), NEW j \in 1..Len(Root(c)'), i < j
               PROVE  Rank(Root(c)'[i]) < Rank(Root(c)'[j])
    OBVIOUS
  <2>1. i + 1 < j + 1
    BY <1>2
  <2> QED
    BY <1>2, <2>1 DEF OrderOf
<1>8. /\ Rank(p.ev) <= Written(c)
      /\ \A i \in 1..Len(Root(c)') : Rank(p.ev) < Rank(Root(c)'[i])
  BY <1>2, <1>4 DEF OrderOf
<1>9. \A q \in 1..Len(queue) : Of(c, queue[q]) =>
        /\ Rank(queue[q].ev) <= Written(c)
        /\ Rank(queue[q].ev) < Rank(p.ev)
        /\ \A i \in 1..Len(Root(c)') : Rank(queue[q].ev) < Rank(Root(c)'[i])
  BY <1>2 DEF OrderOf
<1>10. \A q \in 1..Len(queue') : Of(c, queue[q])' =>
        /\ Rank(queue'[q].ev) <= Written(c)
        /\ \A i \in 1..Len(Root(c)') : Rank(queue'[q].ev) < Rank(Root(c)'[i])
  BY <1>5, <1>8, <1>9 DEF Of
<1>11. \A q, r \in 1..Len(queue') : q < r /\ Of(c, queue[q])' /\ Of(c, queue[r])' =>
          Rank(queue'[q].ev) < Rank(queue'[r].ev)
  <2> SUFFICES ASSUME NEW q \in 1..Len(queue'), NEW r \in 1..Len(queue'), q < r,
                      Of(c, queue[q])', Of(c, queue[r])'
               PROVE  Rank(queue'[q].ev) < Rank(queue'[r].ev)
    OBVIOUS
  <2>1. q \in 1..Len(queue) /\ queue'[q] = queue[q] /\ Of(c, queue[q])
    BY <1>5 DEF Of
  <2>2. CASE r = Len(queue) + 1
    BY <1>5, <1>9, <2>1, <2>2
  <2>3. CASE r \in 1..Len(queue)
    BY <1>5, <2>1, <2>3 DEF OrderOf, Of
  <2> QED
    BY <1>5, <2>2, <2>3
<1>12. OrderOf(c)'
  BY <1>6, <1>7, <1>10, <1>11 DEF OrderOf
<1>13. \A e : Unseen(c, e) <=> Unseen(c, e)' \/ e = p.ev
  <2>1. \A e : (\E i \in 1..Len(Root(c)) : Root(c)[i] = e)
                  <=> Root(c)[1] = e \/ \E i \in 1..Len(Root(c)') : Root(c)'[i] = e
    BY <1>2, <1>3
  <2> QED
    BY <2>1 DEF Unseen
<1>14. \A e : Holds(c, e)' <=> Holds(c, e) \/ e = p.ev
  <2>1. Len(queue) + 1 \in 1..Len(queue')
    BY <1>5
  <2> QED
    BY <1>5, <2>1 DEF Holds
<1> QED
  BY <1>12, <1>13, <1>14

LEMMA ReadHeadRootKeeps ==
    ASSUME Types, Types', NEW c \in Cmds, FlowOf(c), ReadHead(c, "root")
    PROVE  FlowOf(c)'
<1> USE DEF FlowOf
<1>1. /\ UNCHANGED <<log, phase, start, timely, normalizerVars, applied>>
      /\ "root" \in Conns /\ "child" \in Conns
  BY DEF ReadHead, gitVars, Conns
<1>2. PICK e \in Events, t \in Places :
         /\ pipe[c]["root"] # <<>> /\ e = pipe[c]["root"][1]
         /\ t = IF TreeOf(c, "root", e) # Nowhere THEN TreeOf(c, "root", e) ELSE tree[c]
         /\ reading[c]["root"] = Idle
         /\ pipe' = [pipe EXCEPT ![c]["root"] = Tail(pipe[c]["root"])]
         /\ Tail(pipe[c]["root"]) \in Seq(Events)
         /\ tree' = [tree EXCEPT ![c] = t]
         /\ \/ /\ t = Nowhere /\ UNCHANGED reading
               /\ Pushed(Payload(c, e, Nowhere)) /\ Payload(c, e, Nowhere) \in Payloads
            \/ /\ t # Nowhere /\ UNCHANGED queue
               /\ \E r \in Readings : /\ r # Idle /\ r.ev = e /\ r.tree = t
                                      /\ reading' = [reading EXCEPT ![c]["root"] = r]
  BY <1>1, ReadHeadIs
<1>3. /\ Root(c) # <<>> /\ e = Root(c)[1] /\ ~Busy(c)
      /\ Root(c)' = Tail(Root(c)) /\ pipe'[c]["child"] = pipe[c]["child"]
      /\ tree'[c] = t
  BY <1>1, <1>2 DEF Root, Busy, Types, IngressTypes
<1>4. t \in {Nowhere, Home[c]} /\ (e = "def_repo" => t = Home[c]) /\ Home[c] # Nowhere
      /\ (tree[c] # Nowhere => t = Home[c]) /\ (t = Nowhere => tree[c] = Nowhere)
  <2>1. tree[c] \in {Nowhere, Home[c]}
    BY DEF WindowOf
  <2>2. /\ TreeOf(c, "root", e) \in {Nowhere, Home[c]} /\ Home[c] # Nowhere
        /\ e = "def_repo" => TreeOf(c, "root", e) = Home[c]
    BY <1>1, TreeOfIs
  <2> QED
    BY <1>2, <2>1, <2>2
<1>5. Written(c)' = Written(c)
  BY <1>1 DEF Written
<1>6. /\ pending' = pending /\ emitted' = emitted /\ applied' = applied
      /\ completed' = completed /\ sidTree' = sidTree
  BY <1>1 DEF normalizerVars
<1>7. CASE t = Home[c]
  <2>1. PICK r \in Readings : /\ r # Idle /\ r.ev = e /\ r.tree = Home[c]
                              /\ reading' = [reading EXCEPT ![c]["root"] = r]
    BY <1>2, <1>4, <1>7
  <2>2. /\ reading'[c]["root"] = r /\ reading'[c]["child"] = reading[c]["child"]
        /\ queue' = queue /\ Busy(c)' /\ ReadEv(c)' = Root(c)[1]
    BY <1>1, <1>2, <1>3, <1>4, <1>7, <2>1 DEF Busy, ReadEv, Types, IngressTypes
  <2>3. OrderOf(c)' /\ \A e1 : Unseen(c, e1)' <=> Unseen(c, e1)
    BY <1>3, <1>5, <2>2, TakenStaysOrdered
  <2>4. \A e1 : Holds(c, e1)' <=> Holds(c, e1)
    BY <2>2 DEF Holds
  <2>5. OnceOf(c)' /\ NoneLostOf(c)'
    BY <1>1, <1>6, <2>3, <2>4 DEF OnceOf, NoneLostOf
  <2>6. PlacedOf(c)'
    BY <1>1, <1>6, <2>2, <2>3 DEF PlacedOf
  <2>7. ExitAhead(c)' <=> ExitAhead(c)
    BY <1>1, <2>3 DEF ExitAhead
  <2>8. \A k \in Conns : reading'[c][k] # Idle => reading'[c][k].tree = Home[c]
    BY <2>1, <2>2 DEF Conns, WindowOf
  <2>9. WindowOf(c)'
    BY <1>1, <1>3, <1>7, <2>2, <2>7, <2>8 DEF WindowOf
  <2>10. TimelyOf(c)'
    BY <1>1, <1>6, <2>2, <2>7 DEF TimelyOf, InWindow
  <2>11. ChildOf(c)'
    BY <1>1, <1>3, <2>2 DEF ChildOf
  <2> QED
    BY <2>3, <2>5, <2>6, <2>9, <2>10, <2>11
<1>8. CASE t = Nowhere
  <2>1. PICK p \in Payloads : p = Payload(c, e, Nowhere) /\ Pushed(p) /\ UNCHANGED reading
    BY <1>2, <1>8
  <2>2. /\ p.cmd = c /\ p.ev = e /\ p.to = None /\ p.tree = Nowhere
        /\ e # "def_repo" /\ tree[c] = Nowhere
    BY <1>4, <1>8, <2>1 DEF Payload
  <2>3. ~Busy(c)' /\ reading'[c] = reading[c]
    BY <1>3, <2>1 DEF Busy
  <2>4. /\ OrderOf(c)'
        /\ \A e1 : Unseen(c, e1) <=> Unseen(c, e1)' \/ e1 = e
        /\ \A e1 : Holds(c, e1)' <=> Holds(c, e1) \/ e1 = e
    BY <1>3, <1>5, <2>1, <2>2, <2>3, PushedStaysOrdered
  <2>5. /\ Len(queue) \in Nat
        /\ \A i \in 1..Len(queue) : queue'[i] = queue[i] /\ i \in 1..Len(queue')
        /\ \A i \in 1..Len(queue') : i \in 1..Len(queue) \/ queue'[i] = p
    BY <2>1, PushedQueue DEF Types
  <2>6. OnceOf(c)' /\ NoneLostOf(c)'
    BY <1>1, <1>6, <2>4 DEF OnceOf, NoneLostOf
  <2>7. PlacedOf(c)'
    <3>1. Unseen(c, "def_repo")' <=> Unseen(c, "def_repo")
      BY <2>2, <2>4
    <3>2. \A q \in 1..Len(queue) : \A r \in 1..(q - 1) : r \in 1..Len(queue)
      BY <2>5
    <3> QED
      BY <1>1, <1>6, <2>5, <3>1, <3>2 DEF PlacedOf
  <2>8. ExitAhead(c)' => ExitAhead(c)
    BY <1>1, <2>4 DEF ExitAhead
  <2>9. tree'[c] = tree[c]
    BY <1>3, <1>8, <2>2
  <2>10. WindowOf(c)'
    BY <1>1, <2>2, <2>3, <2>5, <2>8, <2>9 DEF WindowOf
  <2>11. TimelyOf(c)'
    <3>1. c \in timely => e # "exit"
      <4>1. e = "exit" => ExitAhead(c)
        BY <2>4 DEF ExitAhead
      <4> QED
        BY <1>4, <2>2, <4>1 DEF WindowOf
    <3>2. c \in timely => \A q \in 1..Len(queue') :
             queue'[q].cmd = c /\ queue'[q].ev = "exit" => q \in 1..Len(queue) /\ queue'[q] = queue[q]
      BY <2>2, <2>5, <3>1
    <3> QED
      BY <1>1, <1>6, <2>8, <3>2 DEF TimelyOf, InWindow
  <2>12. ChildOf(c)'
    BY <1>1, <1>3, <2>3 DEF ChildOf
  <2> QED
    BY <2>4, <2>6, <2>7, <2>10, <2>11, <2>12
<1> QED
  BY <1>4, <1>7, <1>8

LEMMA ReadHeadChildKeeps ==
    ASSUME Types, Types', NEW c \in Cmds, FlowOf(c), ReadHead(c, "child")
    PROVE  FlowOf(c)'
<1> USE DEF FlowOf
<1>1. /\ UNCHANGED <<log, phase, start, timely, normalizerVars, applied>>
      /\ "root" \in Conns /\ "child" \in Conns
  BY DEF ReadHead, gitVars, Conns
<1>2. PICK e \in Events, t \in Places :
         /\ pipe[c]["child"] # <<>> /\ e = pipe[c]["child"][1]
         /\ t = IF TreeOf(c, "child", e) # Nowhere THEN TreeOf(c, "child", e) ELSE tree[c]
         /\ pipe' = [pipe EXCEPT ![c]["child"] = Tail(pipe[c]["child"])]
         /\ tree' = [tree EXCEPT ![c] = t]
         /\ \/ t = Nowhere
            \/ /\ t # Nowhere /\ UNCHANGED queue
               /\ \E r \in Readings : /\ r # Idle /\ r.ev = e /\ r.tree = t
                                      /\ reading' = [reading EXCEPT ![c]["child"] = r]
  BY <1>1, ReadHeadIs
<1>3. /\ pipe[c]["child"] \in Seq(Events) /\ Len(pipe[c]["child"]) \in Nat
      /\ Root(c)' = Root(c) /\ pipe'[c]["child"] = Tail(pipe[c]["child"])
      /\ tree'[c] = t
  BY <1>1, <1>2 DEF Root, Types, IngressTypes
<1>4. e = "def_repo" /\ Child[c] = Home[c] /\ phase[c] \notin {"idle", "started"}
  <2>1. 1 \in 1..Len(pipe[c]["child"])
    BY <1>2, <1>3
  <2> QED
    BY <1>2, <2>1 DEF ChildOf
<1>5. t = Home[c] /\ Home[c] # Nowhere
  BY <1>2, <1>4, PlacesAssumption DEF TreeOf
<1>6. PICK r \in Readings : /\ r # Idle /\ r.ev = "def_repo" /\ r.tree = Home[c]
                            /\ reading' = [reading EXCEPT ![c]["child"] = r]
  BY <1>2, <1>4, <1>5
<1>7. /\ reading'[c]["child"] = r /\ reading'[c]["root"] = reading[c]["root"] /\ queue' = queue
  BY <1>1, <1>2, <1>5, <1>6 DEF Types, IngressTypes
<1>8. (Busy(c)' <=> Busy(c)) /\ ReadEv(c)' = ReadEv(c) /\ Written(c)' = Written(c)
  BY <1>1, <1>7 DEF Busy, ReadEv, Written
<1>9. OrderOf(c)'
  <2>1. \A q \in 1..Len(queue) : Of(c, queue[q])' <=> Of(c, queue[q])
    BY <1>7 DEF Of
  <2> QED
    BY <1>3, <1>7, <1>8, <2>1 DEF OrderOf
<1>10. /\ pending' = pending /\ emitted' = emitted /\ applied' = applied
       /\ completed' = completed /\ sidTree' = sidTree
  BY <1>1 DEF normalizerVars
<1>11. \A e1 : (Unseen(c, e1)' <=> Unseen(c, e1)) /\ (Holds(c, e1)' <=> Holds(c, e1))
  BY <1>3, <1>7, <1>8 DEF Unseen, Holds
<1>12. OnceOf(c)' /\ NoneLostOf(c)'
  BY <1>1, <1>10, <1>11 DEF OnceOf, NoneLostOf
<1>13. PlacedOf(c)'
  BY <1>1, <1>7, <1>10, <1>11 DEF PlacedOf
<1>14. ExitAhead(c)' <=> ExitAhead(c)
  BY <1>1, <1>11 DEF ExitAhead
<1>15. WindowOf(c)'
  <2>1. \A k \in Conns : reading'[c][k] # Idle => reading'[c][k].tree = Home[c]
    BY <1>6, <1>7 DEF Conns, WindowOf
  <2> QED
    BY <1>1, <1>3, <1>5, <1>7, <1>14, <2>1 DEF WindowOf
<1>16. TimelyOf(c)'
  BY <1>1, <1>7, <1>10, <1>14 DEF TimelyOf, InWindow
<1>17. ChildOf(c)'
  <2>1. \A i \in 1..Len(pipe'[c]["child"]) : pipe'[c]["child"][i] = "def_repo"
    <3>0. PICK s \in Seq(Events) : s = pipe[c]["child"] /\ s # <<>> /\ pipe'[c]["child"] = Tail(s)
      BY <1>2, <1>3
    <3>1. \A i \in 1..Len(pipe'[c]["child"]) :
             i + 1 \in 1..Len(pipe[c]["child"]) /\ pipe'[c]["child"][i] = pipe[c]["child"][i + 1]
      BY <3>0, TailIs
    <3> QED
      BY <3>1 DEF ChildOf
  <2> QED
    BY <1>1, <1>4, <1>6, <1>7, <2>1 DEF ChildOf
<1> QED
  BY <1>9, <1>12, <1>13, <1>15, <1>16, <1>17

\* The event of a thread goes to the queue.
LEMMA SentStaysOrdered ==
    ASSUME Types, NEW c \in Cmds, OrderOf(c), Busy(c), ~Busy(c)',
           Root(c)' = Root(c), Written(c)' = Written(c),
           NEW p \in Payloads, Pushed(p), p.cmd = c, p.ev = ReadEv(c)
    PROVE  /\ OrderOf(c)'
           /\ \A e : Unseen(c, e) <=> Unseen(c, e)' \/ e = p.ev
           /\ \A e : Holds(c, e)' <=> Holds(c, e) \/ e = p.ev
<1>1. /\ Len(queue) \in Nat /\ Len(queue') = Len(queue) + 1
      /\ \A i \in 1..Len(queue) : queue'[i] = queue[i]
      /\ queue'[Len(queue) + 1] = p
      /\ \A i \in 1..Len(queue') : i \in 1..Len(queue) \/ i = Len(queue) + 1
      /\ \A i \in 1..Len(queue) : i \in 1..Len(queue')
  BY PushedQueue DEF Types
<1>2. /\ Rank(p.ev) <= Written(c)
      /\ \A i \in 1..Len(Root(c)) : Rank(p.ev) < Rank(Root(c)[i])
      /\ \A q \in 1..Len(queue) : Of(c, queue[q]) => Rank(queue[q].ev) < Rank(p.ev)
  BY DEF OrderOf
<1>3. \A q \in 1..Len(queue') : Of(c, queue[q])' =>
        /\ Rank(queue'[q].ev) <= Written(c)
        /\ \A i \in 1..Len(Root(c)) : Rank(queue'[q].ev) < Rank(Root(c)[i])
  BY <1>1, <1>2 DEF Of, OrderOf
<1>4. \A q, r \in 1..Len(queue') : q < r /\ Of(c, queue[q])' /\ Of(c, queue[r])' =>
          Rank(queue'[q].ev) < Rank(queue'[r].ev)
  <2> SUFFICES ASSUME NEW q \in 1..Len(queue'), NEW r \in 1..Len(queue'), q < r,
                      Of(c, queue[q])', Of(c, queue[r])'
               PROVE  Rank(queue'[q].ev) < Rank(queue'[r].ev)
    OBVIOUS
  <2>1. q \in 1..Len(queue) /\ queue'[q] = queue[q] /\ Of(c, queue[q])
    BY <1>1 DEF Of
  <2>2. CASE r = Len(queue) + 1
    BY <1>1, <1>2, <2>1, <2>2
  <2>3. CASE r \in 1..Len(queue)
    BY <1>1, <2>1, <2>3 DEF OrderOf, Of
  <2> QED
    BY <1>1, <2>2, <2>3
<1>5. OrderOf(c)'
  BY <1>3, <1>4 DEF OrderOf
<1>6. \A e : Unseen(c, e) <=> Unseen(c, e)' \/ e = p.ev
  BY DEF Unseen
<1>7. \A e : Holds(c, e)' <=> Holds(c, e) \/ e = p.ev
  <2>1. Len(queue) + 1 \in 1..Len(queue')
    BY <1>1
  <2> QED
    BY <1>1, <2>1 DEF Holds
<1> QED
  BY <1>5, <1>6, <1>7

\* Before its exit is written nothing of a command is over.
LEMMA NotOverYet ==
    ASSUME Types, NEW c \in Cmds, FlowOf(c), phase[c] \in {"started", "announced", "forked"}
    PROVE  /\ emitted[c] = <<>> /\ Len(applied[c]) = 0
           /\ Busy(c) => ~Terminal(ReadEv(c))
           /\ \A q \in 1..Len(queue) : queue[q].cmd = c => queue[q].ev # "exit"
<1> USE DEF FlowOf
<1>1. Written(c) \in {2, 3}
  BY DEF Written
<1>2. emitted[c] = <<>>
  BY DEF OnceOf
<1>3. Len(applied[c]) = 0
  <2>1. Len(applied[c]) \in Nat /\ Len(applied[c]) <= 0
    BY <1>2 DEF OnceOf, Types, NormalizerTypes
  <2> QED
    BY <2>1
<1>4. Busy(c) => ~Terminal(ReadEv(c))
  BY <1>1, RankIs DEF OrderOf, Terminal
<1>5. \A q \in 1..Len(queue) : queue[q].cmd = c => queue[q].ev # "exit"
  <2> SUFFICES ASSUME NEW q \in 1..Len(queue), queue[q].cmd = c, queue[q].ev = "exit" PROVE FALSE
    OBVIOUS
  <2>1. Of(c, queue[q])
    BY DEF Of
  <2> QED
    BY <1>1, <2>1, RankIs DEF OrderOf
<1> QED
  BY <1>2, <1>3, <1>4, <1>5

\* A terminal event that is with a thread is one of a process that has ended, and
\* the exit is not behind it.
LEMMA TerminalRead ==
    ASSUME Types, NEW c \in Cmds, OrderOf(c), Busy(c), Terminal(ReadEv(c))
    PROVE  /\ phase[c] \in {"exited", "done"}
           /\ \A i \in 1..Len(Root(c)) : Root(c)[i] # "exit"
<1>1. ReadEv(c) \in {"exit", "atexit"} /\ Rank(ReadEv(c)) \in {4, 5}
  BY RankIs DEF Terminal
<1>2. Rank(ReadEv(c)) <= Written(c)
  BY DEF OrderOf
<1>3. phase[c] \in Phases
  BY DEF Types, GitTypes
<1>4. phase[c] \notin {"exited", "done"} => Written(c) \in {0, 2, 3}
  BY <1>3 DEF Written, Phases
<1>5. phase[c] \in {"exited", "done"}
  BY <1>1, <1>2, <1>4
<1>6. \A i \in 1..Len(Root(c)) : Root(c)[i] # "exit"
  BY <1>1, RankIs DEF OrderOf
<1> QED
  BY <1>5, <1>6

LEMMA ReadCutsRootKeeps ==
    ASSUME Types, Types', NEW c \in Cmds, FlowOf(c), ReadCuts(c, "root")
    PROVE  FlowOf(c)'
<1> USE DEF FlowOf
<1>1. /\ UNCHANGED <<log, phase, pipe, normalizerVars, applied>> /\ Root(c)' = Root(c)
      /\ "root" \in Conns /\ "child" \in Conns
  BY DEF ReadCuts, gitVars, Conns, Root
<1>2. PICK e \in Events, t \in Trees, p \in Payloads, s \in Nat :
         /\ reading[c]["root"] # Idle /\ e = reading[c]["root"].ev /\ t = reading[c]["root"].tree
         /\ s = IF start[c] = None THEN Len(log[t]) ELSE start[c]
         /\ p.cmd = c /\ p.ev = e /\ p.tree = TreeOf(c, "root", e)
         /\ IF Terminal(e) THEN p.from = s /\ p.to = Len(log[t]) ELSE p.to = None
         /\ Pushed(p)
         /\ reading' = [reading EXCEPT ![c]["root"] = Idle]
         /\ start' = [start EXCEPT ![c] = IF Terminal(e) THEN None ELSE s]
         /\ tree' = IF Terminal(e) THEN [tree EXCEPT ![c] = Nowhere] ELSE tree
         /\ timely' = IF start[c] = None /\ phase[c] \in {"started", "announced", "forked"}
                      THEN timely \cup {c} ELSE timely
  BY <1>1, ReadCutsIs
<1>3. t = Home[c] /\ Busy(c) /\ e = ReadEv(c)
  BY <1>1, <1>2 DEF WindowOf, Busy, ReadEv
<1>4. /\ reading'[c]["root"] = Idle /\ reading'[c]["child"] = reading[c]["child"] /\ ~Busy(c)'
      /\ start'[c] = (IF Terminal(e) THEN None ELSE s)
      /\ tree'[c] = (IF Terminal(e) THEN Nowhere ELSE tree[c])
  BY <1>1, <1>2 DEF Busy, Types, IngressTypes
<1>5. Written(c)' = Written(c)
  BY <1>1 DEF Written
<1>6. /\ OrderOf(c)'
      /\ \A x : Unseen(c, x) <=> Unseen(c, x)' \/ x = e
      /\ \A x : Holds(c, x)' <=> Holds(c, x) \/ x = e
  BY <1>1, <1>2, <1>3, <1>4, <1>5, SentStaysOrdered
<1>7. /\ pending' = pending /\ emitted' = emitted /\ applied' = applied
      /\ completed' = completed /\ sidTree' = sidTree
  BY <1>1 DEF normalizerVars
<1>8. OnceOf(c)' /\ NoneLostOf(c)'
  BY <1>1, <1>6, <1>7 DEF OnceOf, NoneLostOf
<1>9. /\ Len(queue) \in Nat /\ Len(queue) + 1 \in 1..Len(queue') /\ queue'[Len(queue) + 1] = p
      /\ \A i \in 1..Len(queue) : queue'[i] = queue[i] /\ i \in 1..Len(queue')
      /\ \A i \in 1..Len(queue') : i \in 1..Len(queue) \/ queue'[i] = p
  BY <1>2, PushedQueue DEF Types
<1>10. PlacedOf(c)'
  <2>1. CASE e = "def_repo"
    <3>1. \A r \in 1..Len(queue) : queue[r].cmd = c => ~Terminal(queue[r].ev)
      <4> SUFFICES ASSUME NEW r \in 1..Len(queue), queue[r].cmd = c, Terminal(queue[r].ev) PROVE FALSE
        OBVIOUS
      <4>1. Of(c, queue[r]) /\ Rank(queue[r].ev) \in {4, 5}
        BY RankIs DEF Of, Terminal
      <4> QED
        BY <1>3, <2>1, <4>1, RankIs DEF OrderOf
    <3>2. PICK q \in 1..Len(queue') : q = Len(queue) + 1 /\ queue'[q] = p
      BY <1>9
    <3>3. \A r \in 1..(q - 1) : r \in 1..Len(queue) /\ queue'[r] = queue[r]
      BY <1>9, <3>2
    <3>4. /\ queue'[q].cmd = c /\ queue'[q].ev = "def_repo"
          /\ \A r \in 1..(q - 1) : queue'[r].cmd = c => ~Terminal(queue'[r].ev)
      BY <1>2, <2>1, <3>1, <3>2, <3>3
    <3> QED
      BY <1>7, <3>4 DEF PlacedOf
  <2>2. CASE e # "def_repo"
    <3>1. Unseen(c, "def_repo")' <=> Unseen(c, "def_repo")
      BY <1>6, <2>2
    <3>2. \A q \in 1..Len(queue) : \A r \in 1..(q - 1) : r \in 1..Len(queue)
      BY <1>9
    <3> QED
      BY <1>1, <1>7, <1>9, <3>1, <3>2 DEF PlacedOf
  <2> QED
    BY <2>1, <2>2
<1>11. PICK n \in Nat : n = Len(log[Home[c]])
  BY PlacesAssumption DEF Types, GitTypes
<1>12. start[c] \in Nat \cup {None} /\ (start[c] # None => start[c] <= n /\ s = start[c])
       /\ (start[c] = None => s = n) /\ s <= n /\ s # None
  <2>1. start[c] \in Nat \cup {None}
    BY DEF Types, IngressTypes
  <2>2. s # None
    BY DEF None
  <2> QED
    BY <1>2, <1>3, <1>11, <2>1, <2>2 DEF WindowOf
<1>13. /\ Terminal(e) => phase[c] \in {"exited", "done"} /\ ~ExitAhead(c)'
       /\ ExitAhead(c)' => ExitAhead(c)
       /\ e = "exit" => ExitAhead(c)
  <2>1. Terminal(e) => phase[c] \in {"exited", "done"} /\ ~Unseen(c, "exit")'
    BY <1>1, <1>3, <1>4, TerminalRead DEF Unseen
  <2> QED
    BY <1>1, <1>6, <2>1 DEF ExitAhead
<1>14. WindowOf(c)'
  <2>1. tree'[c] \in {Nowhere, Home[c]}
    BY <1>4 DEF WindowOf
  <2>2. start'[c] # None => start'[c] <= n
    BY <1>4, <1>12
  <2>3. \A k \in Conns : reading'[c][k] # Idle => reading[c][k] # Idle /\ reading'[c][k].tree = Home[c]
    BY <1>4 DEF Conns, WindowOf
  <2>4. ExitAhead(c)' => tree'[c] = Home[c]
    BY <1>1, <1>2, <1>4, <1>13 DEF WindowOf
  <2>5. \A q \in 1..Len(queue') : queue'[q].cmd = c =>
          /\ queue'[q].ev = "def_repo" => queue'[q].tree = Home[c]
          /\ queue'[q].tree \in {Nowhere, Home[c]}
          /\ queue'[q].to # None =>
                0 <= queue'[q].from /\ queue'[q].from <= queue'[q].to /\ queue'[q].to <= n
    <3>1. p.tree \in {Nowhere, Home[c]} /\ (p.ev = "def_repo" => p.tree = Home[c])
      BY <1>1, <1>2, TreeOfIs
    <3>2. p.to # None => 0 <= p.from /\ p.from <= p.to /\ p.to <= n
      BY <1>2, <1>3, <1>11, <1>12
    <3>3. \A q \in 1..Len(queue) : queue[q].cmd = c =>
            /\ queue[q].ev = "def_repo" => queue[q].tree = Home[c]
            /\ queue[q].tree \in {Nowhere, Home[c]}
            /\ queue[q].to # None =>
                  0 <= queue[q].from /\ queue[q].from <= queue[q].to /\ queue[q].to <= n
      BY <1>11 DEF WindowOf
    <3> QED
      BY <1>9, <3>1, <3>2, <3>3
  <2>6. c \in timely' => phase'[c] # "idle" /\ (ExitAhead(c)' => start'[c] # None)
    BY <1>1, <1>2, <1>4, <1>12, <1>13 DEF WindowOf
  <2> QED
    BY <1>1, <1>11, <2>1, <2>2, <2>3, <2>4, <2>5, <2>6 DEF WindowOf
<1>15. \A from, to : InWindow(c, from, to)' <=> InWindow(c, from, to)
  BY <1>1 DEF InWindow
<1>16. TimelyOf(c)'
  <2>1. ASSUME c \in timely \cap Movers PROVE TimelyOf(c)'
    <3>1. phase'[c] \in {"moved", "exited", "done"} /\ ExitAhead(c)' => InWindow(c, start'[c], n)
      BY <1>1, <1>4, <1>11, <1>12, <1>13, <2>1 DEF TimelyOf, WindowOf
    <3>2. e = "exit" => p.to # None /\ InWindow(c, p.from, p.to)
      <4> SUFFICES ASSUME e = "exit" PROVE p.to # None /\ InWindow(c, p.from, p.to)
        OBVIOUS
      <4>1. Terminal(e)
        BY DEF Terminal
      <4>2. start[c] # None /\ InWindow(c, start[c], n)
        BY <1>11, <1>13, <2>1, <4>1 DEF TimelyOf, WindowOf
      <4> QED
        BY <1>2, <1>3, <1>11, <1>12, <4>1, <4>2 DEF None
    <3>3. \A q \in 1..Len(queue') : queue'[q].cmd = c /\ queue'[q].ev = "exit" =>
             queue'[q].to # None /\ InWindow(c, queue'[q].from, queue'[q].to)
      BY <1>2, <1>9, <2>1, <3>2 DEF TimelyOf
    <3>4. /\ \A i \in 1..Len(emitted'[c]) :
                emitted'[c][i].tree = Home[c] /\ c \in Range(emitted'[c][i].moves)
          /\ \A i \in 1..Len(applied'[c]) :
                applied'[c][i].tree = Home[c] /\ c \in Range(applied'[c][i].moves)
      BY <1>7, <2>1 DEF TimelyOf
    <3> QED
      BY <1>1, <1>11, <3>1, <3>3, <3>4 DEF TimelyOf, InWindow
  <2>2. ASSUME c \notin timely, c \in timely' PROVE TimelyOf(c)'
    <3>1. phase[c] \in {"started", "announced", "forked"}
      BY <1>2, <2>2
    <3>2. /\ emitted[c] = <<>> /\ Len(applied[c]) = 0 /\ ~Terminal(e)
          /\ \A q \in 1..Len(queue) : queue[q].cmd = c => queue[q].ev # "exit"
      BY <1>3, <3>1, NotOverYet
    <3>3. \A q \in 1..Len(queue') : queue'[q].cmd = c => queue'[q].ev # "exit"
      BY <1>2, <1>9, <3>2 DEF Terminal
    <3> QED
      BY <1>1, <1>7, <3>1, <3>2, <3>3 DEF TimelyOf
  <2>3. c \notin timely' => TimelyOf(c)'
    BY DEF TimelyOf
  <2>4. c \in timely /\ c \notin Movers => TimelyOf(c)'
    BY DEF TimelyOf
  <2> QED
    BY <2>1, <2>2, <2>3, <2>4
<1>17. ChildOf(c)'
  BY <1>1, <1>4 DEF ChildOf
<1> QED
  BY <1>6, <1>8, <1>10, <1>14, <1>16, <1>17

LEMMA ReadCutsChildKeeps ==
    ASSUME Types, Types', NEW c \in Cmds, FlowOf(c), ReadCuts(c, "child")
    PROVE  FlowOf(c)'
<1> USE DEF FlowOf
<1>1. /\ UNCHANGED <<log, phase, pipe, normalizerVars, applied>> /\ Root(c)' = Root(c)
      /\ "root" \in Conns /\ "child" \in Conns
  BY DEF ReadCuts, gitVars, Conns, Root
<1>2. PICK e \in Events, t \in Trees, p \in Payloads, s \in Nat :
         /\ reading[c]["child"] # Idle /\ e = reading[c]["child"].ev /\ t = reading[c]["child"].tree
         /\ s = IF start[c] = None THEN Len(log[t]) ELSE start[c]
         /\ p.cmd = c /\ p.ev = e /\ p.tree = TreeOf(c, "child", e)
         /\ IF Terminal(e) THEN TRUE ELSE p.to = None
         /\ Pushed(p)
         /\ reading' = [reading EXCEPT ![c]["child"] = Idle]
         /\ start' = [start EXCEPT ![c] = IF Terminal(e) THEN None ELSE s]
         /\ tree' = IF Terminal(e) THEN [tree EXCEPT ![c] = Nowhere] ELSE tree
         /\ timely' = IF start[c] = None /\ phase[c] \in {"started", "announced", "forked"}
                      THEN timely \cup {c} ELSE timely
  BY <1>1, ReadCutsIs
<1>3. e = "def_repo" /\ Child[c] = Home[c] /\ t = Home[c]
  BY <1>1, <1>2 DEF ChildOf, WindowOf
<1>4. ~Terminal(e) /\ p.tree = Home[c] /\ p.to = None /\ p.ev = "def_repo"
  BY <1>2, <1>3 DEF Terminal, TreeOf
<1>5. /\ reading'[c]["child"] = Idle /\ reading'[c]["root"] = reading[c]["root"]
      /\ start'[c] = s /\ tree' = tree
  BY <1>1, <1>2, <1>4 DEF Types, IngressTypes
<1>6. (Busy(c)' <=> Busy(c)) /\ ReadEv(c)' = ReadEv(c) /\ Written(c)' = Written(c)
  BY <1>1, <1>5 DEF Busy, ReadEv, Written
<1>7. /\ pending' = pending /\ emitted' = emitted /\ applied' = applied
      /\ completed' = completed /\ sidTree' = sidTree
  BY <1>1 DEF normalizerVars
<1>8. /\ Len(queue) \in Nat
      /\ \A i \in 1..Len(queue) : queue'[i] = queue[i] /\ i \in 1..Len(queue')
      /\ \A i \in 1..Len(queue') : i \in 1..Len(queue) \/ queue'[i] = p
  BY <1>2, PushedQueue DEF Types
<1>9. OrderOf(c)'
  <2>1. \A q \in 1..Len(queue') : Of(c, queue[q])' =>
           q \in 1..Len(queue) /\ queue'[q] = queue[q] /\ Of(c, queue[q])
    BY <1>4, <1>8 DEF Of
  <2> QED
    BY <1>1, <1>6, <2>1 DEF OrderOf
<1>10. /\ \A x : Unseen(c, x)' <=> Unseen(c, x)
       /\ \A x : x # "def_repo" => (Holds(c, x)' <=> Holds(c, x))
  <2>1. \A x : Unseen(c, x)' <=> Unseen(c, x)
    BY <1>1, <1>6 DEF Unseen
  <2>2. \A x : x # "def_repo" => (Holds(c, x)' <=> Holds(c, x))
    BY <1>4, <1>8 DEF Holds
  <2> QED
    BY <2>1, <2>2
<1>11. OnceOf(c)' /\ NoneLostOf(c)'
  <2>1. \A x \in {"start", "exit"} :
           (Unseen(c, x)' <=> Unseen(c, x)) /\ (Holds(c, x)' <=> Holds(c, x))
    BY <1>10
  <2> QED
    BY <1>1, <1>7, <2>1 DEF OnceOf, NoneLostOf
<1>12. PlacedOf(c)'
  <2>1. ASSUME NEW q \in 1..Len(queue), queue[q].cmd = c, queue[q].ev = "def_repo",
               \A r \in 1..(q - 1) : queue[r].cmd = c => ~Terminal(queue[r].ev)
        PROVE  /\ q \in 1..Len(queue') /\ queue'[q].cmd = c /\ queue'[q].ev = "def_repo"
               /\ \A r \in 1..(q - 1) : queue'[r].cmd = c => ~Terminal(queue'[r].ev)
    <3>1. \A r \in 1..(q - 1) : r \in 1..Len(queue)
      BY <1>8
    <3>2. \A r \in 1..(q - 1) : queue'[r] = queue[r]
      BY <1>8, <3>1
    <3>3. q \in 1..Len(queue') /\ queue'[q] = queue[q]
      BY <1>8
    <3> QED
      BY <2>1, <3>2, <3>3
  <2>2. phase'[c] \notin {"idle", "started"} =>
          \/ Unseen(c, "def_repo")' \/ sidTree'[c] = Home[c] \/ emitted'[c] # <<>>
          \/ \E q \in 1..Len(queue) :
                /\ queue[q].cmd = c /\ queue[q].ev = "def_repo"
                /\ \A r \in 1..(q - 1) : queue[r].cmd = c => ~Terminal(queue[r].ev)
    <3>1. phase' = phase
      BY <1>1
    <3>2. Unseen(c, "def_repo")' <=> Unseen(c, "def_repo")
      BY <1>10
    <3> QED
      BY <1>7, <3>1, <3>2 DEF PlacedOf
  <2>3. phase'[c] \notin {"idle", "started"} =>
          \/ Unseen(c, "def_repo")' \/ sidTree'[c] = Home[c] \/ emitted'[c] # <<>>
          \/ \E q \in 1..Len(queue') :
                /\ queue'[q].cmd = c /\ queue'[q].ev = "def_repo"
                /\ \A r \in 1..(q - 1) : queue'[r].cmd = c => ~Terminal(queue'[r].ev)
    BY <2>1, <2>2
  <2>4. /\ pending'[c] # <<>> /\ sidTree'[c] = Home[c] => pending'[c][1].tree = Home[c]
        /\ sidTree'[c] \in {Nowhere, Home[c]}
    BY <1>7 DEF PlacedOf
  <2> QED
    BY <2>3, <2>4 DEF PlacedOf, Terminal
<1>13. ExitAhead(c)' <=> ExitAhead(c)
  BY <1>1, <1>10 DEF ExitAhead
<1>14. PICK n \in Nat : n = Len(log[Home[c]])
  BY PlacesAssumption DEF Types, GitTypes
<1>15. (start[c] # None => s = start[c]) /\ s <= n /\ s # None
  <2>1. start[c] \in Nat \cup {None}
    BY DEF Types, IngressTypes
  <2>2. s # None
    BY DEF None
  <2> QED
    BY <1>2, <1>3, <1>14, <2>1, <2>2 DEF WindowOf
<1>16. WindowOf(c)'
  <2>1. \A k \in Conns : reading'[c][k] # Idle => reading[c][k] # Idle /\ reading'[c][k].tree = Home[c]
    BY <1>5 DEF Conns, WindowOf
  <2>2. ExitAhead(c)' => tree'[c] = Home[c]
    BY <1>1, <1>2, <1>5, <1>13 DEF WindowOf
  <2>3. \A q \in 1..Len(queue') : queue'[q].cmd = c =>
          /\ queue'[q].ev = "def_repo" => queue'[q].tree = Home[c]
          /\ queue'[q].tree \in {Nowhere, Home[c]}
          /\ queue'[q].to # None =>
                0 <= queue'[q].from /\ queue'[q].from <= queue'[q].to /\ queue'[q].to <= n
    BY <1>4, <1>8, <1>14 DEF WindowOf
  <2>4. c \in timely' => phase'[c] # "idle" /\ (ExitAhead(c)' => start'[c] # None)
    BY <1>1, <1>2, <1>5, <1>15 DEF WindowOf
  <2>5. tree'[c] \in {Nowhere, Home[c]}
    BY <1>5 DEF WindowOf
  <2> QED
    BY <1>1, <1>5, <1>14, <1>15, <2>1, <2>2, <2>3, <2>4, <2>5 DEF WindowOf
<1>17. TimelyOf(c)'
  <2>0. \A q \in 1..Len(queue') : queue'[q].ev = "exit" => q \in 1..Len(queue) /\ queue'[q] = queue[q]
    BY <1>4, <1>8
  <2>1. ASSUME c \in timely \cap Movers PROVE TimelyOf(c)'
    <3>1. phase'[c] \in {"moved", "exited", "done"} /\ ExitAhead(c)' => InWindow(c, start'[c], n)
      BY <1>1, <1>5, <1>13, <1>14, <1>15, <2>1 DEF TimelyOf, WindowOf
    <3>2. \A q \in 1..Len(queue') : queue'[q].cmd = c /\ queue'[q].ev = "exit" =>
             queue'[q].to # None /\ InWindow(c, queue'[q].from, queue'[q].to)
      BY <2>0, <2>1 DEF TimelyOf
    <3> QED
      BY <1>1, <1>7, <1>14, <2>1, <3>1, <3>2 DEF TimelyOf, InWindow
  <2>2. ASSUME c \notin timely, c \in timely' PROVE TimelyOf(c)'
    <3>1. phase[c] \in {"started", "announced", "forked"}
      BY <1>2, <2>2
    <3>2. /\ emitted[c] = <<>> /\ Len(applied[c]) = 0
          /\ \A q \in 1..Len(queue) : queue[q].cmd = c => queue[q].ev # "exit"
      BY <3>1, NotOverYet
    <3>3. \A q \in 1..Len(queue') : queue'[q].cmd = c => queue'[q].ev # "exit"
      BY <2>0, <3>2
    <3> QED
      BY <1>1, <1>7, <3>1, <3>2, <3>3 DEF TimelyOf
  <2>3. c \notin timely' => TimelyOf(c)'
    BY DEF TimelyOf
  <2>4. c \in timely /\ c \notin Movers => TimelyOf(c)'
    BY DEF TimelyOf
  <2> QED
    BY <2>1, <2>2, <2>3, <2>4
<1>18. ChildOf(c)'
  BY <1>1, <1>5 DEF ChildOf
<1> QED
  BY <1>9, <1>11, <1>12, <1>16, <1>17, <1>18

-----------------------------------------------------------------------------
(* The normalizer's step.                                                   *)

\* What the ingestion of an event of c leaves as it is, and what it does to the queue.
Ingests(c) ==
    /\ UNCHANGED <<log, phase, pipe, reading, tree, start, timely, applied>>
    /\ Popped /\ queue[1].cmd = c

LEMMA IngestedQueue ==
    ASSUME Types, NEW c \in Cmds, Ingests(c)
    PROVE  /\ Len(queue) \in Nat /\ Len(queue') \in Nat /\ Len(queue) = Len(queue') + 1
           /\ \A i \in 1..Len(queue') : i + 1 \in 2..Len(queue) /\ i + 1 \in 1..Len(queue)
                                        /\ queue'[i] = queue[i + 1]
           /\ \A i \in 1..Len(queue) : i # 1 =>
                 i - 1 \in 1..Len(queue') /\ queue'[i - 1] = queue[i]
           /\ \A x : Unseen(c, x)' <=> Unseen(c, x)
           /\ \A x : Holds(c, x)' => \E i \in 2..Len(queue) : queue[i].cmd = c /\ queue[i].ev = x
           /\ \A x : Holds(c, x)' => Holds(c, x)
           /\ \A x : Holds(c, x) => Holds(c, x)' \/ x = queue[1].ev
<1>1. /\ Len(queue) \in Nat /\ Len(queue') \in Nat /\ Len(queue) = Len(queue') + 1
      /\ \A i \in 1..Len(queue') : i + 1 \in 1..Len(queue) /\ queue'[i] = queue[i + 1]
      /\ \A i \in 1..Len(queue) : i = 1 \/ i - 1 \in 1..Len(queue')
  BY PoppedQueue DEF Ingests, Types, QueueTypes
<1>2. \A i \in 1..Len(queue') : i + 1 \in 2..Len(queue) /\ i + 1 \in 1..Len(queue)
                                /\ queue'[i] = queue[i + 1]
  BY <1>1
<1>3. ASSUME NEW i \in 1..Len(queue), i # 1
      PROVE  i - 1 \in 1..Len(queue') /\ queue'[i - 1] = queue[i]
  <2>1. PICK j \in 1..Len(queue') : j = i - 1 /\ j + 1 = i
    BY <1>1, <1>3
  <2> QED
    BY <1>1, <2>1
<1>4. \A x : Unseen(c, x)' <=> Unseen(c, x)
  BY UnseenStays DEF Ingests, Root
<1>5. \A x : Holds(c, x)' => \E i \in 2..Len(queue) : queue[i].cmd = c /\ queue[i].ev = x
  BY <1>2 DEF Holds
<1>6. \A x : Holds(c, x)' => Holds(c, x)
  BY <1>2 DEF Holds
<1>7. \A x : Holds(c, x) => Holds(c, x)' \/ x = queue[1].ev
  <2> SUFFICES ASSUME NEW x, NEW i \in 1..Len(queue), queue[i].cmd = c, queue[i].ev = x
               PROVE  Holds(c, x)' \/ x = queue[1].ev
    BY DEF Holds
  <2>1. i # 1 => i - 1 \in 1..Len(queue') /\ queue'[i - 1] = queue[i]
    BY <1>3
  <2> QED
    BY <2>1 DEF Holds
<1> QED
  BY <1>1, <1>2, <1>3, <1>4, <1>5, <1>6, <1>7

\* What holds after any ingestion.
LEMMA IngestKeepsFlow ==
    ASSUME Types, Types', NEW c \in Cmds, FlowOf(c), Ingests(c)
    PROVE  OrderOf(c)' /\ WindowOf(c)' /\ ChildOf(c)'
<1> USE DEF FlowOf
<1>1. /\ Len(queue) \in Nat /\ Len(queue') \in Nat
      /\ \A i \in 1..Len(queue') : i + 1 \in 1..Len(queue) /\ queue'[i] = queue[i + 1]
      /\ \A x : Unseen(c, x)' <=> Unseen(c, x)
  BY IngestedQueue
<1>2. /\ UNCHANGED <<log, phase, pipe, reading, tree, start, timely, applied>>
      /\ Root(c)' = Root(c) /\ (Busy(c)' <=> Busy(c)) /\ ReadEv(c)' = ReadEv(c)
      /\ Written(c)' = Written(c) /\ (ExitAhead(c)' <=> ExitAhead(c))
  BY <1>1 DEF Ingests, Root, Busy, ReadEv, Written, ExitAhead
<1>3. OrderOf(c)'
  <2>1. \A q \in 1..Len(queue') : Of(c, queue[q])' =>
          q + 1 \in 1..Len(queue) /\ queue'[q] = queue[q + 1] /\ Of(c, queue[q + 1])
    BY <1>1 DEF Of
  <2>2. \A q, r \in 1..Len(queue') : q < r /\ Of(c, queue[q])' /\ Of(c, queue[r])' =>
          Rank(queue'[q].ev) < Rank(queue'[r].ev)
    <3> SUFFICES ASSUME NEW q \in 1..Len(queue'), NEW r \in 1..Len(queue'), q < r,
                        Of(c, queue[q])', Of(c, queue[r])'
                 PROVE  Rank(queue'[q].ev) < Rank(queue'[r].ev)
      OBVIOUS
    <3>1. q + 1 < r + 1
      BY <1>1
    <3> QED
      BY <2>1, <3>1 DEF OrderOf
  <2>3. \A q \in 1..Len(queue') : Of(c, queue[q])' =>
          /\ Rank(queue'[q].ev) <= Written(c)
          /\ Busy(c) => Rank(queue'[q].ev) < Rank(ReadEv(c))
          /\ \A i \in 1..Len(Root(c)) : Rank(queue'[q].ev) < Rank(Root(c)[i])
    BY <2>1 DEF OrderOf
  <2> QED
    BY <1>2, <2>2, <2>3 DEF OrderOf
<1>4. WindowOf(c)'
  <2>1. \A q \in 1..Len(queue') : queue'[q].cmd = c =>
          /\ queue'[q].ev = "def_repo" => queue'[q].tree = Home[c]
          /\ queue'[q].tree \in {Nowhere, Home[c]}
          /\ queue'[q].to # None => /\ 0 <= queue'[q].from /\ queue'[q].from <= queue'[q].to
                                    /\ queue'[q].to <= Len(log[Home[c]])
    BY <1>1 DEF WindowOf
  <2> QED
    BY <1>2, <2>1 DEF WindowOf
<1>5. ChildOf(c)'
  BY <1>2 DEF ChildOf
<1> QED
  BY <1>3, <1>4, <1>5

\* A def_repo in the queue that no terminal event is before, stays one as long as
\* it is not the head.
LEMMA PlacingStays ==
    ASSUME Types, NEW c \in Cmds, Ingests(c), queue[1].ev # "def_repo", NEW q \in 1..Len(queue),
           queue[q].cmd = c, queue[q].ev = "def_repo",
           \A r \in 1..(q - 1) : queue[r].cmd = c => ~Terminal(queue[r].ev)
    PROVE  \E s \in 1..Len(queue') :
              /\ queue'[s].cmd = c /\ queue'[s].ev = "def_repo"
              /\ \A r \in 1..(s - 1) : queue'[r].cmd = c => ~Terminal(queue'[r].ev)
<1>1. /\ Len(queue) \in Nat /\ Len(queue') \in Nat
      /\ \A i \in 1..Len(queue') : i + 1 \in 1..Len(queue) /\ queue'[i] = queue[i + 1]
      /\ q # 1 => q - 1 \in 1..Len(queue') /\ queue'[q - 1] = queue[q]
  BY IngestedQueue
<1>2. PICK s \in 1..Len(queue') : s = q - 1 /\ queue'[s] = queue[q]
  BY <1>1
<1>3. ASSUME NEW r \in 1..(s - 1), queue'[r].cmd = c PROVE ~Terminal(queue'[r].ev)
  <2>1. r \in 1..Len(queue') /\ r + 1 \in 1..(q - 1)
    BY <1>1, <1>2
  <2>2. queue'[r] = queue[r + 1]
    BY <1>1, <2>1
  <2> QED
    BY <1>3, <2>1, <2>2
<1> QED
  BY <1>2, <1>3

\* The windows of timely commands, of what is still queued.
LEMMA IngestKeepsWindows ==
    ASSUME Types, NEW c \in Cmds, FlowOf(c), Ingests(c)
    PROVE  c \in timely \cap Movers =>
             /\ phase'[c] \in {"moved", "exited", "done"} /\ ExitAhead(c)' =>
                   InWindow(c, start[c], Len(log[Home[c]]))'
             /\ \A q \in 1..Len(queue') : queue'[q].cmd = c /\ queue'[q].ev = "exit" =>
                   queue'[q].to # None /\ InWindow(c, queue[q].from, queue[q].to)'
             /\ \A i \in 1..Len(applied'[c]) :
                   applied'[c][i].tree = Home[c] /\ c \in Range(applied'[c][i].moves)
<1> USE DEF FlowOf
<1>1. /\ \A i \in 1..Len(queue') : i + 1 \in 1..Len(queue) /\ queue'[i] = queue[i + 1]
      /\ \A x : Unseen(c, x)' <=> Unseen(c, x)
  BY IngestedQueue
<1>2. /\ UNCHANGED <<log, phase, start, applied>> /\ (ExitAhead(c)' <=> ExitAhead(c))
  BY <1>1 DEF Ingests, ExitAhead
<1> SUFFICES ASSUME c \in timely \cap Movers
             PROVE  /\ phase'[c] \in {"moved", "exited", "done"} /\ ExitAhead(c)' =>
                          InWindow(c, start[c], Len(log[Home[c]]))'
                    /\ \A q \in 1..Len(queue') : queue'[q].cmd = c /\ queue'[q].ev = "exit" =>
                          queue'[q].to # None /\ InWindow(c, queue[q].from, queue[q].to)'
                    /\ \A i \in 1..Len(applied'[c]) :
                          applied'[c][i].tree = Home[c] /\ c \in Range(applied'[c][i].moves)
  OBVIOUS
<1>3. phase'[c] \in {"moved", "exited", "done"} /\ ExitAhead(c)' =>
         InWindow(c, start[c], Len(log[Home[c]]))'
  BY <1>2 DEF TimelyOf, InWindow
<1>4. \A q \in 1..Len(queue') : queue'[q].cmd = c /\ queue'[q].ev = "exit" =>
         queue'[q].to # None /\ InWindow(c, queue'[q].from, queue'[q].to)
  BY <1>1 DEF TimelyOf
<1>5. \A q \in 1..Len(queue') : queue'[q].cmd = c /\ queue'[q].ev = "exit" =>
         queue'[q].to # None /\ InWindow(c, queue[q].from, queue[q].to)'
  BY <1>2, <1>4 DEF InWindow
<1> QED
  BY <1>2, <1>3, <1>5 DEF TimelyOf

\* The rest of the flow, by what the event did.
RestOf(c) == OnceOf(c) /\ NoneLostOf(c) /\ PlacedOf(c) /\ TimelyOf(c)

LEMMA TimelyAfter ==
    ASSUME Types, NEW c \in Cmds, FlowOf(c), Ingests(c),
           c \in timely \cap Movers => \A i \in 1..Len(emitted'[c]) :
              emitted'[c][i].tree = Home[c] /\ c \in Range(emitted'[c][i].moves)
    PROVE  TimelyOf(c)'
<1>1. timely' = timely
  BY DEF Ingests
<1>2. CASE c \in timely \cap Movers
  BY <1>1, <1>2, IngestKeepsWindows DEF TimelyOf
<1>3. CASE c \notin timely \cap Movers
  BY <1>1, <1>3 DEF TimelyOf
<1> QED
  BY <1>2, <1>3

LEMMA KeptKeeps ==
    ASSUME Types, NEW c \in Cmds, FlowOf(c), Ingests(c), Kept(c, queue[1].ev)
    PROVE  RestOf(c)'
<1> USE DEF FlowOf
<1>1. /\ \A x : Unseen(c, x)' <=> Unseen(c, x)
      /\ \A x : Holds(c, x)' => Holds(c, x)
      /\ \A x : Holds(c, x) => Holds(c, x)' \/ x = queue[1].ev
  BY IngestedQueue
<1>2. UNCHANGED <<phase, applied, pending, sidTree, emitted, completed>>
  BY DEF Ingests, Kept
<1>3. OnceOf(c)'
  BY <1>1, <1>2 DEF OnceOf
<1>4. NoneLostOf(c)' /\ PlacedOf(c)'
  <2>1. CASE emitted[c] # <<>>
    BY <1>2, <2>1 DEF NoneLostOf, PlacedOf
  <2>2. CASE queue[1].ev = "def_param"
    <3>1. \A x \in {"start", "exit"} : (Unseen(c, x)' <=> Unseen(c, x)) /\ (Holds(c, x)' <=> Holds(c, x))
      BY <1>1, <2>2
    <3>2. NoneLostOf(c)'
      BY <1>2, <3>1 DEF NoneLostOf
    <3>3. ASSUME NEW q \in 1..Len(queue), queue[q].cmd = c, queue[q].ev = "def_repo",
                 \A r \in 1..(q - 1) : queue[r].cmd = c => ~Terminal(queue[r].ev)
          PROVE  \E s \in 1..Len(queue') :
                    /\ queue'[s].cmd = c /\ queue'[s].ev = "def_repo"
                    /\ \A r \in 1..(s - 1) : queue'[r].cmd = c => ~Terminal(queue'[r].ev)
      BY <2>2, <3>3, PlacingStays
    <3>4. PlacedOf(c)'
      BY <1>1, <1>2, <3>3 DEF PlacedOf
    <3> QED
      BY <3>2, <3>4
  <2> QED
    BY <2>1, <2>2 DEF Kept
<1>5. TimelyOf(c)'
  BY <1>2, TimelyAfter DEF TimelyOf
<1> QED
  BY <1>3, <1>4, <1>5 DEF RestOf

LEMMA BegunKeeps ==
    ASSUME Types, NEW c \in Cmds, FlowOf(c), Ingests(c), Begun(c, queue[1].ev)
    PROVE  RestOf(c)'
<1> USE DEF FlowOf
<1>1. /\ \A x : Unseen(c, x)' <=> Unseen(c, x)
      /\ \A x : Holds(c, x)' => \E i \in 2..Len(queue) : queue[i].cmd = c /\ queue[i].ev = x
      /\ \A x : Holds(c, x) => Holds(c, x)' \/ x = queue[1].ev
      /\ Len(queue) \in Nat
  BY IngestedQueue
<1>2. UNCHANGED <<phase, applied, sidTree, emitted, completed>> /\ queue[1].ev = "start"
  BY DEF Ingests, Begun
<1>3. 1 \in 1..Len(queue) /\ Of(c, queue[1]) /\ queue # <<>>
  BY <1>2, PoppedQueue DEF Ingests, Types, Of
<1>4. emitted[c] = <<>> /\ phase[c] # "idle" /\ c \notin Range(completed)
  <2>1. Holds(c, "start")
    BY <1>2, <1>3 DEF Holds, Of
  <2>2. phase[c] # "idle"
    BY <1>3, IdleIsEmpty
  <2> QED
    BY <2>1, <2>2 DEF OnceOf
<1>5. ~Unseen(c, "start")' /\ ~Holds(c, "start")'
  <2>1. ~(Rank(queue[1].ev) < Rank("start")) /\ "start" \in Events
    BY <1>2, RankIs DEF Events
  <2>2. ~(Unseen(c, "start") \/ \E i \in 2..Len(queue) : Of(c, queue[i]) /\ queue[i].ev = "start")
    BY <1>3, <2>1, AheadOfHead
  <2>3. \A i \in 2..Len(queue) : queue[i].cmd = c /\ queue[i].ev = "start" => Of(c, queue[i])
    BY DEF Of
  <2> QED
    BY <1>1, <2>2, <2>3
<1>6. PICK x \in Commands : x.tree \in {sidTree[c], Home[c]} /\ pending'[c] = <<x>>
  BY DEF Begun, Types, NormalizerTypes
<1>7. Len(pending'[c]) = 1 /\ pending'[c][1] = x /\ pending'[c] # <<>>
  BY <1>6
<1>8. OnceOf(c)'
  BY <1>2, <1>4, <1>5, <1>7 DEF OnceOf
<1>9. NoneLostOf(c)'
  BY <1>1, <1>2, <1>7 DEF NoneLostOf
<1>10. PlacedOf(c)'
  <2>1. ASSUME NEW q \in 1..Len(queue), queue[q].cmd = c, queue[q].ev = "def_repo",
               \A r \in 1..(q - 1) : queue[r].cmd = c => ~Terminal(queue[r].ev)
        PROVE  \E s \in 1..Len(queue') :
                  /\ queue'[s].cmd = c /\ queue'[s].ev = "def_repo"
                  /\ \A r \in 1..(s - 1) : queue'[r].cmd = c => ~Terminal(queue'[r].ev)
    BY <1>2, <2>1, PlacingStays
  <2> QED
    BY <1>1, <1>2, <1>6, <1>7, <2>1 DEF PlacedOf
<1>11. TimelyOf(c)'
  BY <1>2, TimelyAfter DEF TimelyOf
<1> QED
  BY <1>8, <1>9, <1>10, <1>11 DEF RestOf

LEMMA PlacedKeeps ==
    ASSUME Types, NEW c \in Cmds, FlowOf(c), Ingests(c), Placed(c, queue[1].ev)
    PROVE  RestOf(c)'
<1> USE DEF FlowOf
<1>1. /\ \A x : Unseen(c, x)' <=> Unseen(c, x)
      /\ \A x : Holds(c, x)' => Holds(c, x)
      /\ \A x : Holds(c, x) => Holds(c, x)' \/ x = queue[1].ev
  BY IngestedQueue
<1>2. /\ UNCHANGED <<phase, applied, emitted, completed>> /\ queue[1].ev = "def_repo"
      /\ sidTree'[c] = Home[c]
  BY DEF Ingests, Placed, Types, NormalizerTypes
<1>3. \/ pending[c] = <<>> /\ pending'[c] = <<>>
      \/ pending[c] # <<>> /\ \E x \in Commands : x.tree = Home[c] /\ pending'[c] = <<x>>
  BY DEF Placed, Types, NormalizerTypes
<1>4. /\ Len(pending'[c]) <= 1 /\ (pending'[c] # <<>> => pending'[c][1].tree = Home[c])
      /\ (pending'[c] = <<>> <=> pending[c] = <<>>)
  <2>1. CASE pending[c] = <<>> /\ pending'[c] = <<>>
    BY <2>1
  <2>2. ASSUME pending[c] # <<>>, NEW x \in Commands, x.tree = Home[c], pending'[c] = <<x>>
        PROVE  /\ Len(pending'[c]) <= 1 /\ pending'[c][1].tree = Home[c] /\ pending'[c] # <<>>
    BY <2>2
  <2> QED
    BY <1>3, <2>1, <2>2
<1>5. OnceOf(c)'
  BY <1>1, <1>2, <1>4 DEF OnceOf
<1>6. NoneLostOf(c)'
  <2>1. \A x \in {"start", "exit"} : (Unseen(c, x)' <=> Unseen(c, x)) /\ (Holds(c, x)' <=> Holds(c, x))
    BY <1>1, <1>2
  <2> QED
    BY <1>2, <1>4, <2>1 DEF NoneLostOf
<1>7. PlacedOf(c)'
  BY <1>2, <1>4 DEF PlacedOf
<1>8. TimelyOf(c)'
  BY <1>2, TimelyAfter DEF TimelyOf
<1> QED
  BY <1>5, <1>6, <1>7, <1>8 DEF RestOf

LEMMA EndedKeeps ==
    ASSUME Types, NEW c \in Cmds, FlowOf(c), Ingests(c), Ended(c, queue[1].ev)
    PROVE  RestOf(c)'
<1> USE DEF FlowOf
<1>1. /\ \A x : Unseen(c, x)' <=> Unseen(c, x)
      /\ \A x : Holds(c, x)' => \E i \in 2..Len(queue) : queue[i].cmd = c /\ queue[i].ev = x
  BY IngestedQueue
<1>2. /\ UNCHANGED <<phase, applied>> /\ queue[1].ev \in {"exit", "atexit"}
      /\ sidTree'[c] = Nowhere /\ pending'[c] = <<>> /\ emitted[c] = <<>>
      /\ Range(completed') \subseteq Range(completed) \cup {c}
  BY DEF Ingests, Ended, Terminal, Types, NormalizerTypes
<1>3. 1 \in 1..Len(queue) /\ Of(c, queue[1]) /\ queue # <<>>
  BY <1>2, PoppedQueue DEF Ingests, Types, Of
<1>4. phase[c] \in {"exited", "done"}
  <2>1. phase[c] \in Phases
    BY DEF Types, GitTypes
  <2>2. phase[c] \notin {"exited", "done"} => Written(c) \in {0, 2, 3}
    BY <2>1 DEF Written, Phases
  <2>3. Rank(queue[1].ev) \in {4, 5}
    BY <1>2, RankIs
  <2>4. Rank(queue[1].ev) <= Written(c)
    BY <1>3 DEF OrderOf
  <2> QED
    BY <2>2, <2>3, <2>4
<1>5. ~Unseen(c, "start")' /\ ~Holds(c, "start")'
  <2>1. ~(Rank(queue[1].ev) < Rank("start")) /\ "start" \in Events
    BY <1>2, RankIs DEF Events
  <2>2. ~(Unseen(c, "start") \/ \E i \in 2..Len(queue) : Of(c, queue[i]) /\ queue[i].ev = "start")
    BY <1>3, <2>1, AheadOfHead
  <2>3. \A i \in 2..Len(queue) : queue[i].cmd = c /\ queue[i].ev = "start" => Of(c, queue[i])
    BY DEF Of
  <2> QED
    BY <1>1, <2>2, <2>3
<1>6. PICK x \in Commands : /\ emitted'[c] = <<x>>
                            /\ c \in timely \cap Movers => x.tree = Home[c] /\ c \in Range(x.moves)
  BY DEF Ended, Types, NormalizerTypes
<1>7. Len(emitted'[c]) = 1 /\ emitted'[c] # <<>> /\ \A i \in 1..1 : emitted'[c][i] = x
  BY <1>6
<1>8. Len(applied[c]) <= 1
  <2>1. Len(applied[c]) \in Nat /\ Len(applied[c]) <= 0
    BY <1>2 DEF OnceOf, Types, NormalizerTypes
  <2> QED
    BY <2>1
<1>9. OnceOf(c)'
  BY <1>2, <1>4, <1>5, <1>7, <1>8 DEF OnceOf
<1>10. NoneLostOf(c)' /\ PlacedOf(c)'
  <2>1. Home[c] # Nowhere
    BY PlacesAssumption
  <2> QED
    BY <1>2, <1>7, <2>1 DEF NoneLostOf, PlacedOf
<1>11. TimelyOf(c)'
  BY <1>6, <1>7, TimelyAfter
<1> QED
  BY <1>9, <1>10, <1>11 DEF RestOf

LEMMA IngestKeeps ==
    ASSUME Inv, Types', NEW c \in Cmds, Ingest, queue[1].cmd = c
    PROVE  FlowOf(c)'
<1>1. Types /\ FlowOf(c)
  BY DEF Inv, FlowInv
<1>2. Ingests(c)
  BY IngestIs DEF Ingests, Ingest, gitVars
<1>3. PICK e : e = queue[1].ev
  OBVIOUS
<1>4. Kept(c, e) \/ Begun(c, e) \/ Placed(c, e) \/ Ended(c, e)
  BY <1>3, IngestIs DEF IngestDoes
<1>5. RestOf(c)'
  BY <1>1, <1>2, <1>3, <1>4, KeptKeeps, BegunKeeps, PlacedKeeps, EndedKeeps
<1>6. OrderOf(c)' /\ WindowOf(c)' /\ ChildOf(c)'
  BY <1>1, <1>2, IngestKeepsFlow
<1> QED
  BY <1>5, <1>6 DEF FlowOf, RestOf

-----------------------------------------------------------------------------
(* What a step of one command is to the others.                             *)

LEMMA LogStays ==
    ASSUME Types, NEW t \in Trees, UNCHANGED log
    PROVE  LogGrows(t)
BY DEF Types, GitTypes, LogGrows

LEMMA LogOnlyGrows ==
    ASSUME Types, NEW c \in Cmds, Move(c), NEW t \in Trees
    PROVE  LogGrows(t)
<1>1. /\ log[t] \in Seq(Cmds) /\ log \in [Trees -> Seq(Cmds)] /\ Home[c] \in Trees
      /\ log' = IF c \in Movers THEN [log EXCEPT ![Home[c]] = Append(log[Home[c]], c)] ELSE log
  BY PlacesAssumption DEF Move, Types, GitTypes
<1>2. CASE log'[t] = log[t]
  BY <1>1, <1>2 DEF LogGrows
<1>3. CASE log'[t] = Append(log[t], c)
  <2>1. /\ log'[t] \in Seq(Cmds) /\ Len(log'[t]) = Len(log[t]) + 1
        /\ \A i \in 1..Len(log[t]) : log'[t][i] = log[t][i]
    BY <1>1, <1>3
  <2> QED
    BY <1>1, <2>1 DEF LogGrows
<1> QED
  BY <1>1, <1>2, <1>3

LEMMA GitLeavesOthers ==
    ASSUME Types, NEW c \in Cmds, Start(c) \/ Git(c), NEW d \in Cmds, d # c
    PROVE  NoStepOf(d)
<1>1. GitOnly(c)
  BY GitStepIs
<1>2. Home[d] \in Trees
  BY PlacesAssumption
<1>3. LogGrows(Home[d])
  <2>1. CASE Move(c)
    BY <1>2, <2>1, LogOnlyGrows
  <2>2. CASE Start(c) \/ Announce(c) \/ Fork(c) \/ Exit(c) \/ PostState(c)
    <3>1. UNCHANGED log
      BY <2>2 DEF Start, Announce, Fork, Exit, PostState
    <3> QED
      BY <1>2, <3>1, LogStays
  <2> QED
    BY <2>1, <2>2 DEF Git
<1>4. /\ UNCHANGED <<reading, tree, start, timely, queue, applied>>
      /\ UNCHANGED <<pending, sidTree, completed, emitted>>
      /\ phase'[d] = phase[d] /\ pipe'[d] = pipe[d]
  BY <1>1 DEF GitOnly, normalizerVars
<1> QED
  BY <1>3, <1>4 DEF NoStepOf

LEMMA ApplyLeavesOthers ==
    ASSUME Inv, NEW c \in Cmds, Apply(c), NEW d \in Cmds, d # c
    PROVE  NoStepOf(d)
<1>1. UNCHANGED <<gitVars, ingressVars, normalizerVars>> /\ applied'[d] = applied[d]
  BY ApplyIs DEF Inv, Types, NormalizerTypes
<1>2. UNCHANGED <<log, phase, pipe, reading, tree, start, timely, queue, pending, sidTree,
                  completed, emitted>>
  BY <1>1 DEF gitVars, ingressVars, normalizerVars
<1>3. LogGrows(Home[d])
  BY <1>2, PlacesAssumption, LogStays DEF Inv
<1> QED
  BY <1>1, <1>2, <1>3 DEF NoStepOf

LEMMA ReadHeadLeavesOthers ==
    ASSUME Types, NEW c \in Cmds, NEW k \in Conns, ReadHead(c, k), NEW d \in Cmds, d # c
    PROVE  NoStepOf(d)
<1>1. /\ UNCHANGED <<log, phase, start, timely, applied>>
      /\ UNCHANGED <<pending, sidTree, completed, emitted>>
  BY DEF ReadHead, gitVars, normalizerVars
<1>2. PICK e \in Events, t \in Places :
         /\ pipe' = [pipe EXCEPT ![c][k] = Tail(pipe[c][k])]
         /\ tree' = [tree EXCEPT ![c] = t]
         /\ \/ /\ UNCHANGED reading
               /\ Pushed(Payload(c, e, Nowhere)) /\ Payload(c, e, Nowhere) \in Payloads
            \/ /\ UNCHANGED queue
               /\ \E r \in Readings : reading' = [reading EXCEPT ![c][k] = r]
  BY ReadHeadIs
<1>3. pipe'[d] = pipe[d] /\ tree'[d] = tree[d] /\ reading'[d] = reading[d]
  BY <1>2 DEF Types, IngressTypes
<1>4. UNCHANGED queue \/ \E p \in Payloads : Pushed(p) /\ p.cmd # d
  <2>1. Payload(c, e, Nowhere).cmd # d
    BY DEF Payload
  <2> QED
    BY <1>2, <2>1
<1>5. LogGrows(Home[d])
  BY <1>1, PlacesAssumption, LogStays
<1> QED
  BY <1>1, <1>3, <1>4, <1>5 DEF NoStepOf

LEMMA ReadCutsLeavesOthers ==
    ASSUME Types, NEW c \in Cmds, NEW k \in Conns, ReadCuts(c, k), NEW d \in Cmds, d # c
    PROVE  NoStepOf(d)
<1>1. /\ UNCHANGED <<log, phase, pipe, applied>>
      /\ UNCHANGED <<pending, sidTree, completed, emitted>>
  BY DEF ReadCuts, gitVars, normalizerVars
<1>2. PICK e \in Events, p \in Payloads, s \in Nat :
         /\ p.cmd = c /\ Pushed(p)
         /\ reading' = [reading EXCEPT ![c][k] = Idle]
         /\ start' = [start EXCEPT ![c] = IF Terminal(e) THEN None ELSE s]
         /\ tree' = IF Terminal(e) THEN [tree EXCEPT ![c] = Nowhere] ELSE tree
         /\ timely' = IF start[c] = None /\ phase[c] \in {"started", "announced", "forked"}
                      THEN timely \cup {c} ELSE timely
  BY ReadCutsIs
<1>3. /\ reading'[d] = reading[d] /\ start'[d] = start[d] /\ tree'[d] = tree[d]
      /\ (d \in timely' <=> d \in timely)
  BY <1>2 DEF Types, IngressTypes
<1>4. \E q \in Payloads : Pushed(q) /\ q.cmd # d
  BY <1>2
<1>5. LogGrows(Home[d])
  BY <1>1, PlacesAssumption, LogStays
<1> QED
  BY <1>1, <1>3, <1>4, <1>5 DEF NoStepOf

LEMMA IngestLeavesOthers ==
    ASSUME Inv, Ingest, NEW d \in Cmds, queue[1].cmd # d
    PROVE  NoStepOf(d)
<1>1. /\ UNCHANGED <<log, phase, pipe, reading, tree, start, timely, applied>>
      /\ Popped
  BY IngestIs DEF Ingest, gitVars
<1>2. PICK p \in Payloads : p = queue[1] /\ IngestDoes(p)
  BY <1>1, IngestIs, PoppedQueue DEF Inv, Types
<1>3. PICK c \in Cmds, e \in Events : c = p.cmd /\ e = p.ev /\ c # d
  BY <1>2 DEF Payloads
<1>4. Kept(c, e) \/ Begun(c, e) \/ Placed(c, e) \/ Ended(c, e)
  BY <1>2, <1>3 DEF IngestDoes
<1>5. /\ pending \in [Cmds -> Seq(Commands)] /\ emitted \in [Cmds -> Seq(Commands)]
      /\ sidTree \in [Cmds -> Places] /\ completed \in Seq(Cmds)
  BY DEF Inv, Types, NormalizerTypes
<1>6. pending'[d] = pending[d] /\ emitted'[d] = emitted[d] /\ sidTree'[d] = sidTree[d]
  BY <1>3, <1>4, <1>5 DEF Kept, Begun, Placed, Ended
<1>7. Range(completed') \subseteq Range(completed) \cup {c}
  BY <1>4, <1>5 DEF Kept, Begun, Placed, Ended
<1>8. /\ Range(completed') \ {d} \subseteq Range(completed) \cup Cmds
      /\ d \in Range(completed') => d \in Range(completed)
  BY <1>3, <1>7
<1>9. LogGrows(Home[d])
  BY <1>1, PlacesAssumption, LogStays DEF Inv
<1> QED
  BY <1>1, <1>2, <1>6, <1>8, <1>9 DEF NoStepOf

-----------------------------------------------------------------------------
(* The invariant.                                                           *)

LEMMA InitInv ==
    ASSUME Init
    PROVE  Inv
<1> USE DEF Init
<1>1. GitTypes
  BY DEF GitTypes, Phases, NoState, None
<1>2. IngressTypes
  BY DEF IngressTypes, Readings, Places, None
<1>3. QueueTypes
  BY DEF QueueTypes
<1>4. NormalizerTypes
  BY DEF NormalizerTypes, Places
<1>5. ASSUME NEW c \in Cmds PROVE FlowOf(c)
  <2>1. /\ Root(c) = <<>> /\ ~Busy(c) /\ Len(Root(c)) = 0 /\ queue = <<>> /\ Len(queue) = 0
        /\ "root" \in Conns /\ "child" \in Conns
    BY DEF Root, Busy, Conns
  <2>2. OrderOf(c)
    BY <2>1 DEF OrderOf
  <2>3. \A e : ~Unseen(c, e) /\ ~Holds(c, e)
    BY <2>1 DEF Unseen, Holds
  <2>4. Range(completed) = {}
    BY DEF Range
  <2>5. OnceOf(c) /\ NoneLostOf(c)
    BY <2>3, <2>4 DEF OnceOf, NoneLostOf
  <2>6. PlacedOf(c)
    BY PlacesAssumption DEF PlacedOf
  <2>7. WindowOf(c)
    BY <2>1 DEF WindowOf
  <2>8. TimelyOf(c)
    BY DEF TimelyOf
  <2>9. ChildOf(c)
    BY <2>1 DEF ChildOf
  <2> QED
    BY <2>2, <2>5, <2>6, <2>7, <2>8, <2>9 DEF FlowOf
<1> QED
  BY <1>1, <1>2, <1>3, <1>4, <1>5 DEF Inv, Types, FlowInv

LEMMA StepKeepsInv ==
    ASSUME OneRepository, Inv, [Next]_vars
    PROVE  Inv'
<1>1. Types /\ FlowInv
  BY DEF Inv
<1>2. Types'
  BY <1>1, GitTypesStep, IngressTypesStep, NormalizerTypesStep DEF Types
<1>3. ASSUME NEW d \in Cmds, NoStepOf(d) PROVE FlowOf(d)'
  BY <1>1, <1>2, <1>3, OthersKeep DEF FlowInv
<1>4. ASSUME NEW c \in Cmds, Start(c) \/ Git(c) PROVE FlowInv'
  <2>1. FlowOf(c)'
    BY <1>1, <1>4, StartKeeps, AnnounceKeeps, ForkKeeps, MoveKeeps, ExitKeeps, PostStateKeeps
    DEF FlowInv, Git
  <2>2. \A d \in Cmds : d # c => FlowOf(d)'
    BY <1>1, <1>3, <1>4, GitLeavesOthers
  <2> QED
    BY <2>1, <2>2 DEF FlowInv
<1>5. ASSUME NEW c \in Cmds, Apply(c) PROVE FlowInv'
  <2>1. FlowOf(c)'
    BY <1>5, ApplyKeeps
  <2>2. \A d \in Cmds : d # c => FlowOf(d)'
    BY <1>3, <1>5, ApplyLeavesOthers
  <2> QED
    BY <2>1, <2>2 DEF FlowInv
<1>6. ASSUME NEW c \in Cmds, NEW k \in Conns, ReadHead(c, k) PROVE FlowInv'
  <2>1. FlowOf(c)'
    BY <1>1, <1>2, <1>6, ReadHeadRootKeeps, ReadHeadChildKeeps DEF FlowInv, Conns
  <2>2. \A d \in Cmds : d # c => FlowOf(d)'
    BY <1>1, <1>3, <1>6, ReadHeadLeavesOthers
  <2> QED
    BY <2>1, <2>2 DEF FlowInv
<1>7. ASSUME NEW c \in Cmds, NEW k \in Conns, ReadCuts(c, k) PROVE FlowInv'
  <2>1. FlowOf(c)'
    BY <1>1, <1>2, <1>7, ReadCutsRootKeeps, ReadCutsChildKeeps DEF FlowInv, Conns
  <2>2. \A d \in Cmds : d # c => FlowOf(d)'
    BY <1>1, <1>3, <1>7, ReadCutsLeavesOthers
  <2> QED
    BY <2>1, <2>2 DEF FlowInv
<1>8. ASSUME Ingest PROVE FlowInv'
  BY <1>2, <1>3, <1>8, IngestKeeps, IngestLeavesOthers DEF FlowInv
<1>9. ASSUME UNCHANGED vars PROVE FlowInv'
  <2>1. /\ UNCHANGED <<log, phase, pipe, reading, tree, start, timely, queue, applied>>
        /\ UNCHANGED <<pending, sidTree, completed, emitted>>
    BY <1>9 DEF vars, gitVars, ingressVars, normalizerVars
  <2>2. \A d \in Cmds : LogGrows(Home[d])
    BY <1>1, <2>1, PlacesAssumption, LogStays
  <2>3. \A d \in Cmds : NoStepOf(d)
    BY <2>1, <2>2 DEF NoStepOf
  <2> QED
    BY <1>3, <2>3 DEF FlowInv
<1>10. FlowInv'
  BY <1>4, <1>5, <1>6, <1>7, <1>8, <1>9 DEF Next, Read
<1> QED
  BY <1>2, <1>10 DEF Inv

LEMMA Invariance == ASSUME OneRepository PROVE Spec => []Inv
<1>1. Init => Inv
  BY InitInv
<1>2. Inv /\ [Next]_vars => Inv'
  BY StepKeepsInv
<1> QED
  BY <1>1, <1>2, PTL DEF Spec

-----------------------------------------------------------------------------
(* What follows from it.                                                    *)

LEMMA InvAppliedOnce ==
    ASSUME Inv
    PROVE  AppliedOnce
<1> SUFFICES ASSUME NEW c \in Cmds
             PROVE  Len(applied[c]) <= 1 /\ (AtRest => Len(applied[c]) = 1)
  BY DEF AppliedOnce
<1>1. OnceOf(c) /\ NoneLostOf(c) /\ Types
  BY DEF Inv, FlowInv, FlowOf
<1>2. Len(applied[c]) \in Nat /\ Len(emitted[c]) \in Nat /\ emitted[c] \in Seq(Commands)
  BY <1>1 DEF Types, NormalizerTypes
<1>3. Len(applied[c]) <= Len(emitted[c]) /\ Len(emitted[c]) <= 1
  BY <1>1 DEF OnceOf
<1>4. ASSUME AtRest PROVE Len(applied[c]) = 1
  <2>1. /\ phase[c] = "done" /\ ~Unread(c) /\ ~(Len(applied[c]) < Len(emitted[c]))
        /\ queue = <<>> /\ "root" \in Conns
    BY <1>4 DEF AtRest, Waiting, Conns
  <2>2. ~Unseen(c, "exit") /\ ~Holds(c, "exit")
    BY <2>1 DEF Unread, Unseen, Root, Busy, Holds
  <2>3. emitted[c] # <<>>
    BY <1>1, <2>1, <2>2 DEF NoneLostOf
  <2>4. Len(emitted[c]) = 1
    BY <1>2, <1>3, <2>3, AtMostOne
  <2>5. Len(applied[c]) <= 1 /\ ~(Len(applied[c]) < 1)
    BY <1>3, <2>1, <2>4
  <2>6. Len(applied[c]) # 0
    BY <2>5
  <2> QED
    BY <1>2, <2>5, <2>6, One
<1>5. Len(applied[c]) <= 1
  <2>1. CASE emitted[c] = <<>>
    BY <1>2, <1>3, <2>1
  <2>2. CASE emitted[c] # <<>>
    <3>1. Len(emitted[c]) = 1
      BY <1>2, <1>3, <2>2, AtMostOne
    <3> QED
      BY <1>3, <3>1
  <2> QED
    BY <2>1, <2>2
<1> QED
  BY <1>4, <1>5

LEMMA InvTimelyMoveKept ==
    ASSUME Inv
    PROVE  TimelyMoveKept
BY DEF Inv, FlowInv, FlowOf, TimelyOf, TimelyMoveKept, Types, IngressTypes

\* However many commands run at a time and however late their events are read, each is
\* applied once: exit and atexit both end it, the memory of completed roots forgets the
\* oldest, the wait for the wrapper's state may run out, and none is left out when all
\* is over.
THEOREM CommandsAreAppliedOnce == ASSUME OneRepository PROVE Spec => []AppliedOnce
BY Invariance, InvAppliedOnce, PTL

\* A command whose start the daemon saw before HEAD moved is applied in its worktree with
\* its own move, whatever else moves HEAD and however late the rest of it is read.
THEOREM TimelyMovesAreKept == ASSUME OneRepository PROVE Spec => []TimelyMoveKept
BY Invariance, InvTimelyMoveKept, PTL

=============================================================================
