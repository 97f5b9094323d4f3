----------------------------- MODULE RefCapture -----------------------------
(***************************************************************************)
(* How the daemon learns what a git command did.  Git writes its trace      *)
(* events into a socket and does not wait; the thread of the connection     *)
(* reads HEAD and the length of the reflog when it gets round to an event,  *)
(* the normalizer makes one command of the events of a root, and the state  *)
(* the wrapper has read around the command, if it arrives in time, replaces *)
(* what the daemon saw.                                                     *)
(***************************************************************************)
EXTENDS Integers, Sequences, FiniteSets, SequencesExt

CONSTANTS
    Cmds,     \* the commands, numbers in the order in which the user starts them
    Trees,    \* worktrees of different repositories
    Home,     \* [Cmds -> Trees]: where each command runs
    Child,    \* [Cmds -> Trees \cup {Nowhere}]: where a git it starts runs
    Movers,   \* the commands that move HEAD
    Wrapped,  \* the commands run through the wrapper
    Named,    \* the commands whose start names the worktree: git -C, with a place in the sequencer
    Shells,   \* how many commands may run at a time
    Prompt,   \* BOOLEAN: every event is read before git goes on
    Timeouts, \* BOOLEAN: the wait for the wrapper's state may run out
    Limit,    \* COMPLETED_ROOT_RETENTION_LIMIT
    Nowhere

ASSUME CmdsAssumption == Cmds \subseteq Nat /\ IsFiniteSet(Cmds)
ASSUME PlacesAssumption == /\ Home \in [Cmds -> Trees] /\ Nowhere \notin Trees
                           /\ Child \in [Cmds -> Trees \cup {Nowhere}]
ASSUME KindsAssumption == Movers \subseteq Cmds /\ Wrapped \subseteq Cmds /\ Named \subseteq Cmds
ASSUME BoundsAssumption == /\ Shells \in Nat \ {0} /\ Limit \in Nat \ {0}
                           /\ Prompt \in BOOLEAN /\ Timeouts \in BOOLEAN

None == -1          \* no value: heads are numbers of commands, 0 at first
Conns == {"root", "child"}
Phases == {"idle", "started", "announced", "forked", "moved", "exited", "done"}
Idle == [ev |-> "none", tree |-> Nowhere, pre |-> None, post |-> None]

VARIABLES
    log,     \* the moves of HEAD of each tree, by command: its reflog
    phase,   \* how far each git process is
    before, after, \* HEAD around each command (for the properties)
    pipe,    \* events written and not yet read, per command and connection
    reading, \* the event a connection's thread is at
    tree, pre, start, \* ingress: root_worktrees, root_pre_repo, the start offsets
    timely,  \* the start offset was read before the command moved HEAD
    queue,   \* the ingest queue
    pending, sidTree, completed, deferred, wrapperId, \* the normalizer
    emitted, \* the normalized commands
    states,  \* wrapper_states
    applied  \* the commands as their side effects see them

gitVars == <<log, phase, before, after>>
ingressVars == <<pipe, reading, tree, pre, start, timely, queue>>
normalizerVars == <<pending, sidTree, completed, deferred, wrapperId, emitted>>
vars == <<gitVars, ingressVars, normalizerVars, states, applied>>

HeadOf(t) == IF log[t] = <<>> THEN 0 ELSE Last(log[t])

NoState == [pre |-> None, post |-> None]
NoCommand == [tree |-> Nowhere, pre |-> None, post |-> None, moves |-> <<>>, wrapped |-> FALSE]
Payload(c, e, t) ==
    [cmd |-> c, ev |-> e, tree |-> t, pre |-> None, post |-> None, from |-> None, to |-> None]

Init ==
    /\ log = [t \in Trees |-> <<>>] /\ phase = [c \in Cmds |-> "idle"]
    /\ before = [c \in Cmds |-> None] /\ after = [c \in Cmds |-> None]
    /\ pipe = [c \in Cmds |-> [k \in Conns |-> <<>>]]
    /\ reading = [c \in Cmds |-> [k \in Conns |-> Idle]]
    /\ tree = [c \in Cmds |-> Nowhere] /\ pre = [c \in Cmds |-> None]
    /\ start = [c \in Cmds |-> None] /\ timely = {}
    /\ queue = <<>>
    /\ pending = [c \in Cmds |-> <<>>] /\ sidTree = [c \in Cmds |-> Nowhere]
    /\ completed = <<>> /\ deferred = {} /\ wrapperId = {}
    /\ emitted = [c \in Cmds |-> <<>>]
    /\ states = [c \in Cmds |-> NoState] /\ applied = [c \in Cmds |-> <<>>]

-----------------------------------------------------------------------------
(* Git and the wrapper around it.                                          *)

Unread(c) == \E k \in Conns : pipe[c][k] # <<>> \/ reading[c][k] # Idle
MayGoOn(c) == Prompt => ~Unread(c)

\* What the wrapper reads: HEAD of its worktree.
StateRead(c) == HeadOf(Home[c])

\* The wrapper sends HEAD as it is before, waits for the answer and starts git.
Start(c) ==
    /\ phase[c] = "idle" /\ \A d \in Cmds : d < c => phase[d] # "idle"
    /\ Cardinality({d \in Cmds : phase[d] \notin {"idle", "done"}}) < Shells
    /\ \A d \in Cmds : MayGoOn(d)
    /\ phase' = [phase EXCEPT ![c] = "started"]
    /\ before' = [before EXCEPT ![c] = HeadOf(Home[c])]
    /\ states' = IF c \in Wrapped THEN [states EXCEPT ![c].pre = StateRead(c)] ELSE states
    /\ pipe' = [pipe EXCEPT ![c]["root"] =
                  <<"start">> \o (IF c \in Wrapped THEN <<"def_param">> ELSE <<>>)]
    /\ UNCHANGED <<log, after, reading, tree, pre, start, timely, queue, normalizerVars, applied>>

\* Git has found its repository; the git it starts does so on a connection of its own.
Announce(c) ==
    /\ phase[c] = "started" /\ MayGoOn(c)
    /\ phase' = [phase EXCEPT ![c] = "announced"]
    /\ pipe' = [pipe EXCEPT ![c]["root"] = Append(@, "def_repo")]
    /\ UNCHANGED <<log, before, after, reading, tree, pre, start, timely, queue, normalizerVars, states, applied>>

Fork(c) ==
    /\ phase[c] = "announced" /\ MayGoOn(c)
    /\ phase' = [phase EXCEPT ![c] = "forked"]
    /\ pipe' = IF Child[c] = Nowhere THEN pipe ELSE [pipe EXCEPT ![c]["child"] = <<"def_repo">>]
    /\ UNCHANGED <<log, before, after, reading, tree, pre, start, timely, queue, normalizerVars, states, applied>>

Move(c) ==
    /\ phase[c] = "forked" /\ MayGoOn(c)
    /\ phase' = [phase EXCEPT ![c] = "moved"]
    /\ log' = IF c \in Movers THEN [log EXCEPT ![Home[c]] = Append(@, c)] ELSE log
    /\ after' = [after EXCEPT ![c] = IF c \in Movers THEN c ELSE HeadOf(Home[c])]
    /\ UNCHANGED <<before, ingressVars, normalizerVars, states, applied>>

Exit(c) ==
    /\ phase[c] = "moved" /\ MayGoOn(c)
    /\ phase' = [phase EXCEPT ![c] = "exited"]
    /\ pipe' = [pipe EXCEPT ![c]["root"] = @ \o <<"exit", "atexit">>]
    /\ UNCHANGED <<log, before, after, reading, tree, pre, start, timely, queue, normalizerVars, states, applied>>

PostState(c) ==
    /\ phase[c] = "exited"
    /\ phase' = [phase EXCEPT ![c] = "done"]
    /\ states' = IF c \in Wrapped THEN [states EXCEPT ![c].post = StateRead(c)] ELSE states
    /\ UNCHANGED <<log, before, after, ingressVars, normalizerVars, applied>>

-----------------------------------------------------------------------------
(* A connection's thread.                                                  *)

\* An event names the root by its sid.  A def_repo names a worktree, whoever sent
\* it, and so does a start with `git -C`.
TreeOf(c, k, e) ==
    CASE e = "def_repo" -> IF k = "root" THEN Home[c] ELSE Child[c]
      [] e = "start" /\ c \in Named -> Home[c]
      [] OTHER -> Nowhere

Terminal(e) == e \in {"exit", "atexit"}

\* First the worktree and HEAD: an event of a root whose worktree is not known
\* is enqueued as it is.
ReadHead(c, k) ==
    /\ pipe[c][k] # <<>> /\ reading[c][k] = Idle
    /\ LET e == pipe[c][k][1]
           t == IF TreeOf(c, k, e) # Nowhere THEN TreeOf(c, k, e) ELSE tree[c]
       IN  /\ tree' = [tree EXCEPT ![c] = t]
           /\ pipe' = [pipe EXCEPT ![c][k] = Tail(@)]
           /\ IF t = Nowhere
              THEN /\ queue' = Append(queue, Payload(c, e, Nowhere))
                   /\ UNCHANGED <<reading, pre>>
              ELSE /\ pre' = IF pre[c] = None THEN [pre EXCEPT ![c] = HeadOf(t)] ELSE pre
                   /\ reading' = [reading EXCEPT ![c][k] =
                                    [ev |-> e, tree |-> t, pre |-> pre'[c],
                                     post |-> IF Terminal(e) THEN HeadOf(t) ELSE None]]
                   /\ UNCHANGED queue
    /\ UNCHANGED <<gitVars, start, timely, normalizerVars, states, applied>>

\* (mutant) Every event of the root moves the start of its window.
StartOffsetMoved(c, t) == Len(log[t])

StartOffset(c, t) == IF start[c] = None THEN Len(log[t]) ELSE start[c]

\* Then the lengths of the reflogs; a terminal event carries the window and
\* makes the ingress state forget the root.
ReadCuts(c, k) ==
    /\ reading[c][k] # Idle
    /\ LET e == reading[c][k].ev
           t == reading[c][k].tree
           s == StartOffset(c, t)
           p == [Payload(c, e, TreeOf(c, k, e)) EXCEPT !.pre = reading[c][k].pre]
       IN  /\ queue' = Append(queue,
                  IF Terminal(e) THEN [p EXCEPT !.post = reading[c][k].post, !.from = s, !.to = Len(log[t])]
                  ELSE p)
           /\ start' = [start EXCEPT ![c] = IF Terminal(e) THEN None ELSE s]
           /\ pre' = IF Terminal(e) THEN [pre EXCEPT ![c] = None] ELSE pre
           /\ tree' = IF Terminal(e) THEN [tree EXCEPT ![c] = Nowhere] ELSE tree
           /\ timely' = IF start[c] = None /\ phase[c] \in {"started", "announced", "forked"}
                        THEN timely \cup {c} ELSE timely
    /\ reading' = [reading EXCEPT ![c][k] = Idle]
    /\ UNCHANGED <<gitVars, pipe, normalizerVars, states, applied>>

-----------------------------------------------------------------------------
(* The normalizer.                                                         *)

Remember(c) ==
    LET q == Append(completed, c) IN IF Len(q) > Limit THEN Tail(q) ELSE q

Forget(c) == sidTree' = [sidTree EXCEPT ![c] = Nowhere]

HandleStart(p) ==
    /\ pending' = [pending EXCEPT ![p.cmd] =
                     <<[NoCommand EXCEPT !.tree = IF p.tree # Nowhere THEN p.tree ELSE sidTree[p.cmd],
                                         !.pre = p.pre]>>]
    /\ UNCHANGED <<sidTree, completed, deferred, wrapperId, emitted>>

HandleParam(p) ==
    /\ wrapperId' = wrapperId \cup {p.cmd}
    /\ UNCHANGED <<pending, sidTree, completed, deferred, emitted>>

HandleRepo(p) ==
    /\ sidTree' = [sidTree EXCEPT ![p.cmd] = p.tree]
    /\ pending' = IF pending[p.cmd] = <<>> THEN pending
                  ELSE [pending EXCEPT ![p.cmd][1].tree = p.tree,
                                       ![p.cmd][1].pre = IF @ = None THEN p.pre ELSE @]
    /\ UNCHANGED <<completed, deferred, wrapperId, emitted>>

\* (mutant) The command stays pending after its exit.
TakenKept(c) == pending

Taken(c) == [pending EXCEPT ![c] = <<>>]

\* The moves in the window of an exit; a worktree in which HEAD never moved has no reflog.
Moves(p, t) ==
    IF p.to = None \/ log[t] = <<>> THEN <<>> ELSE SubSeq(log[t], p.from + 1, p.to)

\* A window of one worktree that is read in another: it runs backwards, or
\* beyond the end of the reflog.
Misplaced(p, t) ==
    /\ p.to # None
    /\ \/ p.to < p.from
       \/ p.from < p.to /\ log[t] # <<>> /\ Len(log[t]) < p.to

\* A misplaced window is an error: the command is gone, and its root is not
\* marked as completed.
Finalize(p) ==
    LET c == p.cmd
        t == pending[c][1].tree
    IN  /\ pending' = Taken(c)
        /\ IF Misplaced(p, t)
           THEN UNCHANGED <<sidTree, completed, deferred, wrapperId, emitted>>
           ELSE /\ emitted' = [emitted EXCEPT ![c] = Append(@,
                      [pending[c][1] EXCEPT
                         !.pre = IF @ = None THEN p.pre ELSE @, !.post = p.post,
                         !.moves = Moves(p, t), !.wrapped = c \in wrapperId])]
                /\ completed' = Remember(c)
                /\ wrapperId' = wrapperId \ {c}
                /\ Forget(c)
                /\ UNCHANGED deferred

\* An exit without a start waits for one.  (The start is enqueued before the exit
\* of its root, so that none ever comes.)
HandleExit(p) ==
    IF pending[p.cmd] # <<>> THEN Finalize(p)
    ELSE /\ deferred' = deferred \cup {p.cmd}
         /\ UNCHANGED <<pending, sidTree, completed, wrapperId, emitted>>

\* ingest_payload: what comes after its root has completed is dropped, as
\* long as the root is remembered.
Ingest ==
    /\ queue # <<>>
    /\ queue' = Tail(queue)
    /\ LET p == queue[1]
       IN  IF p.cmd \in Range(completed) THEN UNCHANGED normalizerVars
           ELSE CASE p.ev = "start" -> HandleStart(p)
                  [] p.ev = "def_param" -> HandleParam(p)
                  [] p.ev = "def_repo" -> HandleRepo(p)
                  [] OTHER -> HandleExit(p)
    /\ UNCHANGED <<gitVars, pipe, reading, tree, pre, start, timely, states, applied>>

-----------------------------------------------------------------------------
(* The way to the side effect.  A command with a place in the family's     *)
(* sequencer is applied in its turn there, as it was captured; another one  *)
(* directly, after the wrapper's state if it has one.                      *)

Arrived(c) == states[c].pre # None /\ states[c].post # None

Waiting(c) == Len(applied[c]) < Len(emitted[c])

Command(c) == emitted[c][Len(applied[c]) + 1]

\* Only the direct way waits for the wrapper's state.
Overlaid(c) == Command(c).wrapped /\ c \notin Named

AsCaptured(c) ==
    /\ Waiting(c) /\ ~Overlaid(c)
    /\ applied' = [applied EXCEPT ![c] = Append(@, Command(c))]
    /\ UNCHANGED <<gitVars, ingressVars, normalizerVars, states>>

Overlay(c) ==
    /\ Waiting(c) /\ Overlaid(c) /\ Arrived(c)
    /\ applied' = [applied EXCEPT ![c] =
                     Append(@, [Command(c) EXCEPT !.pre = states[c].pre, !.post = states[c].post])]
    /\ states' = [states EXCEPT ![c] = NoState]
    /\ UNCHANGED <<gitVars, ingressVars, normalizerVars>>

\* The wait runs out: the command goes on with what the daemon saw, and what
\* there was of the wrapper's state is dropped.
OverlayTimeout(c) ==
    /\ Timeouts
    /\ Waiting(c) /\ Overlaid(c) /\ ~Arrived(c)
    /\ applied' = [applied EXCEPT ![c] = Append(@, Command(c))]
    /\ states' = [states EXCEPT ![c] = NoState]
    /\ UNCHANGED <<gitVars, ingressVars, normalizerVars>>

-----------------------------------------------------------------------------
Read == \E c \in Cmds, k \in Conns : ReadHead(c, k) \/ ReadCuts(c, k)
Git(c) == Announce(c) \/ Fork(c) \/ Move(c) \/ Exit(c) \/ PostState(c)
Apply(c) == AsCaptured(c) \/ Overlay(c) \/ OverlayTimeout(c)

Next ==
    \/ \E c \in Cmds : Start(c) \/ Git(c) \/ Apply(c)
    \/ Read
    \/ Ingest

Spec == Init /\ [][Next]_vars

-----------------------------------------------------------------------------
(* Properties.                                                             *)

\* The record of every stage is of the kind the next one expects.
TypeOK ==
    /\ log \in [Trees -> Seq(Cmds)] /\ phase \in [Cmds -> Phases]
    /\ tree \in [Cmds -> Trees \cup {Nowhere}] /\ pre \in [Cmds -> Cmds \cup {0, None}]
    /\ start \in [Cmds -> Nat \cup {None}] /\ timely \subseteq Cmds
    /\ sidTree \in [Cmds -> Trees \cup {Nowhere}]
    /\ deferred \subseteq Cmds /\ wrapperId \subseteq Cmds
    /\ Len(completed) <= Limit
    /\ \A c \in Cmds : states[c].pre \in Cmds \cup {0, None} /\ states[c].post \in Cmds \cup {0, None}

\* A command is applied with the worktree it ran in, the moves it made and HEAD
\* as it was before and after it.
CapturesOwnMoves ==
    \A c \in Cmds : \A i \in 1..Len(applied[c]) :
        LET a == applied[c][i]
        IN  /\ a.tree = Home[c] /\ a.moves = IF c \in Movers THEN <<c>> ELSE <<>>
            /\ a.pre = before[c] /\ a.post = after[c]

\* However late the daemon reads and whatever else runs, a command whose start
\* it saw before HEAD moved is applied with its own move, in its worktree.
TimelyMoveKept ==
    \A c \in timely \cap Movers : \A i \in 1..Len(applied[c]) :
        applied[c][i].tree = Home[c] /\ c \in Range(applied[c][i].moves)

\* Every process has ended, every event is read and no state is awaited.
AtRest ==
    /\ \A c \in Cmds : phase[c] = "done" /\ ~Unread(c) /\ ~Waiting(c)
    /\ queue = <<>>

\* A command is applied once, although its exit and its atexit both end it and
\* the memory of completed roots is bounded, and when all is over none has been
\* left out.
AppliedOnce ==
    \A c \in Cmds : /\ Len(applied[c]) <= 1
                    /\ AtRest => Len(applied[c]) = 1

\* Nothing is kept of commands that are over.
NothingKept ==
    AtRest => /\ deferred = {} /\ wrapperId = {}
              /\ \A c \in Cmds : pending[c] = <<>> /\ sidTree[c] = Nowhere /\ states[c] = NoState
=============================================================================
