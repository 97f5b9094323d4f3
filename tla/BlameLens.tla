------------------------------- MODULE BlameLens -------------------------------
(***************************************************************************)
(* What the editor shows of a document's blame                             *)
(* (vscode/src/blame-lens-manager.ts), with the cache in front of the      *)
(* blame (blame-service.ts) and the queue behind it (BlameQueue).  The     *)
(* manager keeps one result and one pending request, for whichever         *)
(* document they are; both are read and written by the handlers of events  *)
(* and by the code after an await.                                         *)
(*                                                                         *)
(* A blame stands for the document, the content and the notes it was       *)
(* computed from.  At most one editor is active.                           *)
(***************************************************************************)
EXTENDS BlameQueue

CONSTANTS
  None,      \* no document, no blame
  Modes,     \* blame modes the user chooses from
  MaxEvents, \* bound: what the user does
  Answers,   \* how a process may end: "blame", "null"
  Racing,    \* TRUE: the user goes on while a blame is computed
  Hasty      \* TRUE: the user does not wait for the 300 ms after typing

(* What the constants must be. *)
LensConstants ==
  /\ None \notin Docs
  /\ Modes \subseteq {"off", "line", "all"}
  /\ MaxEvents \in Nat
  /\ Answers \subseteq {"blame", "null"} /\ "blame" \in Answers
  /\ Racing \in BOOLEAN /\ Hasty \in BOOLEAN

VARIABLES
  lens,     \* the fields of the manager, and what the editor shows
  cache,    \* blames by document, content and HEAD
  asked,    \* of each task: content and HEAD it was asked for, blame it got
  waiters,  \* of each task: the functions that await its promise
  content,  \* document -> version of its text
  head,     \* HEAD as the git extension reports it
  noted,    \* the last commit whose note is written
  events,   \* what the user did so far
  floor     \* document -> notes that were there at its last save (ghost)

Blames == [doc : Docs, content : Nat, notes : Nat]
Here == lens.active
New == Len(tasks) + 1

lensVars == <<queueVars, lens, cache, asked, waiters, content, head, noted, events, floor>>

LensTypeOK ==
  /\ QueueTypeOK
  /\ lens \in [mode : {"off", "line", "all"}, active : Docs \cup {None}, onAi : BOOLEAN,
               curDoc : Docs \cup {None}, curRes : Blames \cup {None},
               pending : 0 .. MaxTasks, timer : Docs \cup {None},
               deco : Blames \cup {None}, bar : Blames \cup {None},
               applying : {"no", "off", "line", "all"}]
  /\ cache \subseteq [doc : Docs, content : Nat, head : Nat, blame : Blames]
  /\ Len(asked) = Len(tasks) /\ Len(waiters) = Len(tasks)
  /\ noted <= head
  /\ (lens.mode = "off" /\ lens.applying = "no") => lens.timer = None

LensInit ==
  /\ QueueInit
  /\ \E m \in Modes :
       lens = [mode |-> m, active |-> None, onAi |-> TRUE, curDoc |-> None,
               curRes |-> None, pending |-> 0, timer |-> None, deco |-> None,
               bar |-> None, applying |-> "no"]
  /\ cache = {}
  /\ asked = <<>>
  /\ waiters = <<>>
  /\ content = [d \in Docs |-> 0]
  /\ head = 0
  /\ noted = 0
  /\ events = 0
  /\ floor = [d \in Docs |-> 0]

-----------------------------------------------------------------------------
(* The functions of the manager, on its fields and on what they ask for:   *)
(* a request and its priority, and the awaits they leave.                  *)

Call(l) == l @@ [ask |-> "none", awaits |-> <<>>]
Fields(c) == Restrict(c, DOMAIN lens)

(* updateStatusBar.  In the mode "line" it also decorates the lines of the *)
(* prompt under the cursor.                                                *)
UpdateStatusBar(c) ==
  IF c.active = None THEN [c EXCEPT !.bar = None]
  ELSE IF c.curDoc = c.active /\ c.curRes # None
  THEN [c EXCEPT !.bar = c.curRes,
                 !.deco = IF c.mode # "line" THEN @
                          ELSE IF c.onAi THEN c.curRes ELSE None]
  ELSE IF c.timer # None \/ c.pending # 0 THEN [c EXCEPT !.bar = None]
  ELSE [c EXCEPT !.bar = None, !.pending = New, !.curDoc = c.active, !.ask = "normal",
                 !.awaits = Append(@, [task |-> New, kind |-> "bar", doc |-> c.active])]

(* requestBlameForFullFile, up to its await.                               *)
RequestFull(c) ==
  IF c.curDoc = c.active /\ c.curRes # None
  THEN UpdateStatusBar([c EXCEPT !.deco = c.curRes])
  ELSE LET old == IF c.curDoc = c.active THEN c.pending ELSE 0
           p == IF old = 0 THEN New ELSE old
       IN [c EXCEPT !.pending = p,
                    !.curDoc = IF old = 0 THEN c.active ELSE @,
                    !.ask = IF old = 0 THEN "high" ELSE @,
                    !.awaits = Append(@, [task |-> p, kind |-> "full", doc |-> c.active])]

Refresh(c) ==
  UpdateStatusBar(IF c.mode = "all" /\ c.active # None THEN RequestFull(c) ELSE c)

(* Either function after its await.                                        *)
AfterAwait(c, w, blame) ==
  LET done == [c EXCEPT !.pending = 0]
      kept == [done EXCEPT !.curRes = blame]
  IN CASE blame = None -> done
       [] w.kind = "full" ->
            IF c.mode = "all" /\ c.active = w.doc
            THEN UpdateStatusBar([kept EXCEPT !.deco = blame]) ELSE kept
       [] w.kind = "bar" ->
            IF c.mode = "off" THEN done
            ELSE IF c.active = w.doc THEN UpdateStatusBar(kept) ELSE kept

-----------------------------------------------------------------------------
(* requestBlame: the cache is asked first, then the queue.                 *)

Cached(d, store) ==
  {e \in store : e.doc = d /\ e.content = content[d] /\ e.head = head}

WakeJobs(awaits, settled) ==
  LET woken == SelectSeq(awaits, LAMBDA w : w.task \in settled)
  IN [i \in 1 .. Len(woken) |-> Job("woken", woken[i].task)]

AddWaiters(ws, awaits) ==
  FoldLeft(LAMBDA acc, w : [acc EXCEPT ![w.task] = Append(@, [kind |-> w.kind, doc |-> w.doc])],
           ws, awaits)

(* A promise that is settled and whose waiters have been called.           *)
ServedTasks(rest) ==
  {t \in DOMAIN tasks : /\ tasks[t].state = "settled"
                        /\ Job("served", t) \notin ToSet(rest)}

(* The end of a handler or a job that left the call c: the fields are      *)
(* stored, and what was asked for is found in the cache `store` or goes     *)
(* into the queue.                                                         *)
Finish(c, rest, store, ws) ==
  /\ lens' = Fields(c)
  /\ CASE c.ask = "none" ->
            /\ waiters' = AddWaiters(ws, c.awaits)
            /\ jobs' = rest \o WakeJobs(c.awaits, ServedTasks(rest))
            /\ UNCHANGED <<tasks, queue, running, asked>>
       [] c.ask # "none" /\ Cached(c.active, store) # {} ->
            /\ New <= MaxTasks
            /\ waiters' = AddWaiters(Append(ws, <<>>), c.awaits)
            /\ tasks' = Append(tasks, [doc |-> c.active, state |-> "settled",
                                       aborted |-> FALSE, answer |-> "blame"])
            /\ asked' = Append(asked, CHOOSE e \in Cached(c.active, store) : TRUE)
            /\ jobs' = rest \o WakeJobs(c.awaits, {New} \cup ServedTasks(rest))
            /\ UNCHANGED <<queue, running>>
       [] OTHER ->
            /\ New <= MaxTasks
            /\ waiters' = AddWaiters(Append(ws, <<>>), c.awaits)
            /\ asked' = Append(asked, [doc |-> c.active, content |-> content[c.active],
                                       head |-> head, blame |-> None])
            /\ Enqueue(c.active, c.ask, rest)

-----------------------------------------------------------------------------
(* What the user does.                                                     *)

Idle == Live = {} /\ queue = <<>>

UserActs ==
  /\ Quiet
  /\ events < MaxEvents
  /\ Racing \/ (Idle /\ lens.applying = "no")
  /\ events' = events + 1

Waited == Hasty \/ lens.timer = None

(* (mutant) The result of the previous document is kept.                   *)
SwitchKeeping(d) ==
  /\ UserActs /\ Waited
  /\ d # Here
  /\ LET c == [Call(lens) EXCEPT !.active = d, !.deco = None]
     IN Finish(IF c.mode = "off" THEN c
               ELSE Refresh([c EXCEPT !.curDoc = d, !.pending = 0]), <<>>, cache, waiters)
  /\ UNCHANGED <<cache, content, head, noted, floor>>

(* handleActiveEditorChange, to a document or to no editor at all, with    *)
(* the decorations the editor loses when it is hidden.                     *)
Switch(d) ==
  /\ UserActs /\ Waited
  /\ d # Here
  /\ LET c == [Call(lens) EXCEPT !.active = d, !.deco = None]
     IN Finish(IF c.mode = "off" THEN c
               ELSE Refresh(IF d = c.curDoc THEN c
                            ELSE [c EXCEPT !.curRes = None, !.curDoc = None,
                                           !.pending = 0]), <<>>, cache, waiters)
  /\ UNCHANGED <<cache, content, head, noted, floor>>

(* handleDocumentClose, of a document no editor shows any more.            *)
Close(d) ==
  /\ UserActs /\ Waited
  /\ d # Here
  /\ \/ lens.curDoc = d
     \/ \E t \in DOMAIN tasks : tasks[t].doc = d
  /\ lens' = IF lens.curDoc = d
             THEN [lens EXCEPT !.curRes = None, !.curDoc = None, !.pending = 0]
             ELSE lens
  /\ CancelForUri(d)
  /\ cache' = {e \in cache : e.doc # d}
  /\ UNCHANGED <<asked, waiters, content, head, noted, floor>>

(* handleDocumentChange.  The 300 ms start anew with every change.         *)
Type ==
  /\ UserActs
  /\ Here # None
  /\ lens.timer \in {None, Here} \/ Hasty
  /\ content' = [content EXCEPT ![Here] = @ + 1]
  /\ lens' = IF lens.mode = "off" \/ lens.curDoc # Here THEN lens
             ELSE [lens EXCEPT !.curRes = None, !.pending = 0, !.timer = Here]
  /\ UNCHANGED <<queueVars, cache, asked, waiters, head, noted, floor>>

(* handleDocumentSave.                                                     *)
Save ==
  LET store == {e \in cache : e.doc # Here}
  IN /\ UserActs /\ Waited
     /\ Here # None
     /\ floor' = [floor EXCEPT ![Here] = noted]
     /\ cache' = store
     /\ Finish(IF lens.mode = "off" \/ lens.curDoc # Here THEN Call(lens)
               ELSE Refresh([Call(lens) EXCEPT !.curRes = None, !.pending = 0]), <<>>, store, waiters)
     /\ UNCHANGED <<content, head, noted>>

(* handleSelectionChange.                                                  *)
Move(ai) ==
  /\ UserActs /\ Waited
  /\ Here # None /\ lens.mode # "off"
  /\ Finish(UpdateStatusBar([Call(lens) EXCEPT !.onAi = ai]), <<>>, cache, waiters)
  /\ UNCHANGED <<cache, content, head, noted, floor>>

(* A transition of the mode: what applyBlameMode does after its await and  *)
(* handleBlameModeChange at once.                                          *)
ModeEntered(c, old) ==
  CASE c.mode = "off" -> [c EXCEPT !.pending = 0, !.curRes = None, !.timer = None,
                                   !.deco = None, !.bar = None]
    [] c.mode = "all" -> Refresh(c)
    [] c.mode = "line" -> UpdateStatusBar([c EXCEPT !.deco = IF old = "all" THEN None ELSE @])

(* applyBlameMode: the mode is set, then the setting is written.           *)
ChooseMode(m) ==
  /\ UserActs /\ Waited
  /\ lens.applying = "no" /\ m # lens.mode
  /\ lens' = [lens EXCEPT !.mode = m, !.applying = lens.mode]
  /\ UNCHANGED <<queueVars, cache, asked, waiters, content, head, noted, floor>>

ApplyMode ==
  /\ Quiet
  /\ lens.applying # "no"
  /\ Finish(ModeEntered([Call(lens) EXCEPT !.applying = "no"], lens.applying), <<>>, cache, waiters)
  /\ UNCHANGED <<cache, content, head, noted, events, floor>>

(* handleBlameModeChange: the setting was changed by hand.                 *)
SetMode(m) ==
  /\ UserActs /\ Waited
  /\ lens.applying = "no" /\ m # lens.mode
  /\ Finish(ModeEntered([Call(lens) EXCEPT !.mode = m], lens.mode), <<>>, cache, waiters)
  /\ UNCHANGED <<cache, content, head, noted, floor>>

(* A commit, and the note git-ai writes for it later.                      *)
Commit ==
  /\ UserActs /\ Waited
  /\ head' = head + 1
  /\ UNCHANGED <<queueVars, lens, cache, asked, waiters, content, noted, floor>>

WriteNote ==
  /\ Quiet
  /\ noted < head
  /\ noted' = head
  /\ UNCHANGED <<queueVars, lens, cache, asked, waiters, content, head, events, floor>>

-----------------------------------------------------------------------------
(* What the host does: timers, processes and promise jobs.                 *)

TimerFires ==
  /\ Quiet
  /\ lens.timer # None
  /\ LET c == [Call(lens) EXCEPT !.timer = None]
     IN Finish(IF lens.timer = Here THEN Refresh(c) ELSE c, <<>>, cache, waiters)
  /\ UNCHANGED <<cache, content, head, noted, events, floor>>

BlameAnswer(t, a) ==
  /\ Answer(t, a)
  /\ asked' = [asked EXCEPT ![t].blame =
                 IF a = "null" THEN None
                 ELSE [doc |-> asked[t].doc, content |-> asked[t].content, notes |-> noted]]
  /\ UNCHANGED <<lens, cache, waiters, content, head, noted, events, floor>>

QueueJob ==
  /\ Execute \/ Finally
  /\ UNCHANGED <<lens, cache, asked, waiters, content, head, noted, events, floor>>

(* requestBlame after its await: a blame goes into the cache, and the      *)
(* functions that await the request are called next.                       *)
BlameServed ==
  /\ ~Quiet
  /\ jobs[1].kind = "served"
  /\ LET t == jobs[1].task
     IN /\ cache' = IF tasks[t].answer # "blame" THEN cache
                    ELSE {e \in cache : ~ (/\ e.doc = asked[t].doc
                                           /\ e.content = asked[t].content
                                           /\ e.head = asked[t].head)} \cup {asked[t]}
        /\ jobs' = Tail(jobs) \o [i \in 1 .. Len(waiters[t]) |-> Job("woken", t)]
  /\ UNCHANGED <<tasks, queue, running, lens, asked, waiters, content, head, noted, events, floor>>

(* One of the functions that await a request goes on.                      *)
Woken ==
  /\ ~Quiet
  /\ jobs[1].kind = "woken"
  /\ LET t == jobs[1].task
         w == waiters[t][1]
         blame == IF tasks[t].answer = "blame" THEN asked[t].blame ELSE None
         c == AfterAwait(Call(lens), w, blame)
         left == [waiters EXCEPT ![t] = Tail(@)]
     IN Finish(c, Tail(jobs), cache, left)
  /\ UNCHANGED <<cache, content, head, noted, events, floor>>

-----------------------------------------------------------------------------

UserStep ==
  \/ \E d \in Docs \cup {None} : Switch(d)
  \/ \E d \in Docs : Close(d)
  \/ Type
  \/ Save
  \/ \E ai \in BOOLEAN : Move(ai)
  \/ \E m \in Modes : ChooseMode(m) \/ SetMode(m)
  \/ Commit

HostStep ==
  \/ ApplyMode
  \/ WriteNote
  \/ TimerFires
  \/ \E t \in Live, a \in Answers : BlameAnswer(t, a)
  \/ QueueJob
  \/ BlameServed
  \/ Woken

LensNext == UserStep \/ HostStep

LensSpec == LensInit /\ [][LensNext]_lensVars

-----------------------------------------------------------------------------
(* Properties.                                                             *)

AtRest == Quiet /\ Idle /\ lens.timer = None /\ lens.applying = "no"
Shown == {b \in {lens.deco, lens.bar} : b # None}

(* "Only clear borders and reset state when switching to a different       *)
(* document": the status bar and the decorations of the visible editor     *)
(* come from a blame of its document, not of one the user has left.        *)
OwnBlame == Here # None => \A b \in Shown : b.doc = Here

(* "Invalidate cached blame and re-fetch with shifted line attributions":  *)
(* once nothing is under way, what is shown was computed from the text as  *)
(* it is, however typing, saving, switching and answers were ordered.      *)
LinesCurrent ==
  (AtRest /\ lens.mode # "off" /\ Here # None) =>
    \A b \in Shown : b.doc = Here => b.content = content[Here]

(* "Handle document save - invalidate cache and refresh blame": a blame    *)
(* that was cached before the note of HEAD arrived, and would be found     *)
(* again under the same text and HEAD, is not shown after a save that      *)
(* follows the note.                                                       *)
SaveShowsNotes ==
  (AtRest /\ lens.mode # "off" /\ Here # None) =>
    \A b \in Shown : b.doc = Here => b.notes >= floor[Here]

(* "Don't start a new blame request while we're in a document-change       *)
(* debounce window.  The debounce callback will handle it after typing     *)
(* stops": once nothing is under way, the status bar shows a blame of the  *)
(* document that is open.                                                  *)
BarShownAtRest ==
  (AtRest /\ lens.mode # "off" /\ Here # None /\ Answers = {"blame"}) => lens.bar # None

(* "Switching to off: cancel everything and clear all state": nothing is   *)
(* shown while blame is off, whatever was under way when it was switched   *)
(* off and comes back later.                                               *)
OffShowsNothing ==
  (lens.mode = "off" /\ lens.applying = "no") => Shown = {}

=============================================================================
