--------------------------- MODULE EditorCheckpoints ---------------------------
(***************************************************************************)
(* The checkpoints the VS Code extension asks for:                         *)
(*   - of a chat session that edits files, which it only guesses from the  *)
(*     snapshot documents VS Code opens and from the saves that follow     *)
(*     (ai-edit-manager.ts);                                               *)
(*   - of the user's saves (known-human-checkpoint-manager.ts);            *)
(*   - of an accepted tab completion, around the editor's own command      *)
(*     (ai-tab-edit-manager.ts).                                           *)
(* Each sends the text it believes the author to have left; whoever comes  *)
(* first with a line is its author.  The clock moves in steps; timers that *)
(* are due run before it moves on.                                         *)
(*                                                                         *)
(* A file only grows: a text is a number, that of the lines it has.  The   *)
(* files are of one repository, none of them in .vscode/, and a snapshot   *)
(* names its chat session.                                                 *)
(***************************************************************************)
EXTENDS Naturals, Sequences, FiniteSets, SequencesExt

CONSTANTS
  Files,          \* the files of the repository
  Agents,         \* chat sessions
  None,           \* no text, no timer, no session
  Haste,          \* what users, sessions and processes do not wait for
  MaxEdits,       \* bound on the lines of a file
  MaxTabs,        \* bound on the accepted completions
  SaveWindow,     \* SAVE_EVENT_DEBOUNCE_WINDOW_MS, 300 ms
  HumanWindow,    \* HUMAN_CHECKPOINT_DEBOUNCE_MS, 500 ms
  KnownWindow,    \* debounceMs, 500 ms
  StableWindow,   \* STABLE_CONTENT_DEBOUNCE_MS, 2 s
  MaxSnapshotAge  \* MAX_SNAPSHOT_AGE_MS, 10 s

Tabs == 1 .. MaxTabs
Hurries == {"unseen", "late", "after", "shared", "sessions", "soon",
            "nested", "empty", "elsewhere", "saving", "overtaking"}

(* What the constants must be. *)
EditorConstants ==
  /\ IsFiniteSet(Files) /\ Haste \subseteq Hurries /\ {MaxEdits, MaxTabs} \subseteq Nat
  /\ {"human", "known", "tab", "user"} \cap Agents = {}
  /\ {SaveWindow, HumanWindow, KnownWindow, StableWindow, MaxSnapshotAge} \subseteq Nat \ {0}
  /\ SaveWindow < KnownWindow /\ HumanWindow <= StableWindow
  /\ KnownWindow < StableWindow /\ StableWindow < MaxSnapshotAge

VARIABLES
  text,        \* file -> who wrote each of its lines (the text is how many)
  disk,        \* file -> the text it was saved with
  open,        \* the files with a document
  stable,      \* file -> stableFileContent
  quiet,       \* file -> time left of its stableContentTimers
  saves,       \* file -> time left of its pendingSaves
  snapshot,    \* file -> snapshotOpenEvents, the age of the last and its session
  humanAge,    \* file -> age of lastHumanCheckpointAt, HumanWindow when over
  knownTimer,  \* time left of pendingTimers
  knownFiles,  \* pendingPaths
  before,      \* beforeCompletionFileStates
  lastChange,  \* the file of lastDocumentChangeEvent
  hooks,       \* the accepted completions
  sent,        \* checkpoint processes under way, in the order of their start
  attr,        \* file -> the recorded author of each line
  aiTexts,     \* file -> the texts AI checkpoints recorded
  turn         \* file -> the session at work on it (ghost)

documents == <<text, disk, open, turn>>
timers == <<quiet, saves, knownTimer>>
editManager == <<stable, snapshot, humanAge>>
tabManager == <<before, hooks>>
log == <<attr, aiTexts>>
editorVars == <<documents, timers, editManager, knownFiles, tabManager, lastChange, sent, log>>

NoHook == [pc |-> "none", file |-> None, after |-> 0]

EditorInit ==
  /\ text = [f \in Files |-> <<>>]
  /\ disk = [f \in Files |-> 0]
  /\ open \in SUBSET Files
  /\ stable = [f \in Files |-> None]
  /\ quiet = [f \in Files |-> None]
  /\ saves = [f \in Files |-> None]
  /\ snapshot = [f \in Files |-> None]
  /\ humanAge = [f \in Files |-> HumanWindow]
  /\ knownTimer = None
  /\ knownFiles = {}
  /\ before = None
  /\ lastChange = None
  /\ hooks = [k \in Tabs |-> NoHook]
  /\ sent = <<>>
  /\ attr = [f \in Files |-> <<>>]
  /\ aiTexts = [f \in Files |-> {}]
  /\ turn = [f \in Files |-> None]

-----------------------------------------------------------------------------
(* What a checkpoint records (commands/checkpoint.rs): lines that were     *)
(* known keep their author, the others are its own.  A human checkpoint    *)
(* of a file no AI has touched records people only.                        *)

Length(f) == Len(text[f])

Recorded(kind, f, n) ==
  IF kind = "human" /\ aiTexts[f] = {} THEN [i \in 1 .. n |-> kind]
  ELSE [i \in 1 .. n |-> IF i <= Len(attr[f]) THEN attr[f][i] ELSE kind]

\* A save that shows what an AI checkpoint has just recorded is not the user's.
RecentAiSnapshot(cp) ==
  cp.kind = "known" /\ \A f \in DOMAIN cp.texts : cp.texts[f] \in aiTexts[f]

Entries(cp) == {f \in DOMAIN cp.texts : cp.texts[f] # Len(attr[f])}

Record(cp) ==
  LET entries == IF RecentAiSnapshot(cp) THEN {} ELSE Entries(cp)
  IN /\ attr' = [f \in Files |->
                   IF f \in entries THEN Recorded(cp.kind, f, cp.texts[f]) ELSE attr[f]]
     /\ aiTexts' = [f \in Files |->
                      IF f \in entries /\ cp.kind \in Agents \cup {"tab"}
                      THEN aiTexts[f] \cup {cp.texts[f]} ELSE aiTexts[f]]

Checkpoint(kind, texts, hook) == [kind |-> kind, texts |-> texts, hook |-> hook]
One(f, n) == [g \in {f} |-> n]
Send(cp) == sent' = Append(sent, cp)

\* The text of the document, of the file when there is none.
Shown(f) == IF f \in open THEN Length(f) ELSE disk[f]

-----------------------------------------------------------------------------
(* What calm users and sessions wait for, unless they are in some haste.   *)
(* A session is at work on a file from its first edit or its snapshot to   *)
(* the evaluation of its save.                                             *)

Settled(f) ==
  /\ quiet[f] = None /\ saves[f] = None /\ snapshot[f] = None /\ f \notin knownFiles

Inserting == \E k \in Tabs : hooks[k].pc \in {"command", "inserted"}
Reporting == \E k \in Tabs : hooks[k].pc \in {"before", "after"}

\* Processes end before anything else happens.
Quick == "overtaking" \in Haste \/ sent = <<>>

\* Nothing else changes while a completion is inserted and reported.
Alone ==
  /\ Inserting => "elsewhere" \in Haste
  /\ Reporting => "nested" \in Haste

\* A session starts on a file that was left alone, and has it to itself.
SessionMay(a, f) ==
  /\ Quick /\ Alone
  /\ turn[f] \in {None, a} \/ "sessions" \in Haste
  /\ turn[f] # None \/ Settled(f) \/ "soon" \in Haste

\* It edits a document whose stable text is known, or after its snapshot.
SessionEdits(f) ==
  \/ stable[f] # None \/ snapshot[f] # None
  \/ "unseen" \in Haste

\* The user leaves the file of a session to it.
UserMay(f) == Quick /\ Alone /\ (turn[f] # None => "shared" \in Haste)

\* The user accepts a completion in a file with text whose saves were seen.
TabMay(f) ==
  /\ UserMay(f) /\ (Length(f) = 0 => "empty" \in Haste)
  /\ f \in knownFiles => "saving" \in Haste

\* A session's snapshot opens before its edits become stable, and it saves them
\* before the snapshot is old.
InTime ==
  "late" \in Haste \/ \A f \in Files : turn[f] # None =>
    IF snapshot[f] = None THEN quiet[f] # None => quiet[f] > 1
    ELSE snapshot[f].age + SaveWindow + 1 < MaxSnapshotAge

-----------------------------------------------------------------------------
(* The documents, and the handlers of their events.                        *)

\* handleContentChangeEvent and handleDocumentContentChangeEvent.
Change(f, by) ==
  /\ f \in open /\ Length(f) < MaxEdits
  /\ text' = [text EXCEPT ![f] = Append(@, by)]
  /\ quiet' = [quiet EXCEPT ![f] = StableWindow]
  /\ lastChange' = f
  /\ UNCHANGED <<disk, open, saves, knownTimer, editManager, knownFiles, sent, log>>

UserTypes(f) ==
  /\ UserMay(f)
  /\ Change(f, "user")
  /\ UNCHANGED <<turn, tabManager>>

AgentEdits(a, f) ==
  /\ SessionMay(a, f) /\ SessionEdits(f)
  /\ Change(f, a)
  /\ turn' = [turn EXCEPT ![f] = a]
  /\ UNCHANGED tabManager

\* handleOpenEvent, of a file.
OpenDocument(f) ==
  /\ f \notin open
  /\ open' = open \cup {f}
  /\ stable' = [stable EXCEPT ![f] = IF @ = None THEN Length(f) ELSE @]
  /\ UNCHANGED <<text, disk, turn, timers, snapshot, humanAge, knownFiles, tabManager,
                 lastChange, sent, log>>

\* handleCloseEvent, of a file without unsaved lines.
CloseDocument(f) ==
  /\ f \in open /\ disk[f] = Length(f) /\ turn[f] = None
  /\ ~Inserting
  /\ open' = open \ {f}
  /\ stable' = [stable EXCEPT ![f] = None]
  /\ quiet' = [quiet EXCEPT ![f] = None]
  /\ UNCHANGED <<text, disk, turn, saves, knownTimer, snapshot, humanAge, knownFiles,
                 tabManager, lastChange, sent, log>>

\* Both handleSaveEvents: each starts its timer anew.
Save(f) ==
  /\ f \in open /\ disk[f] < Length(f)
  /\ Quick /\ (turn[f] # None => snapshot[f] # None \/ "after" \in Haste)
  /\ disk' = [disk EXCEPT ![f] = Length(f)]
  /\ saves' = [saves EXCEPT ![f] = SaveWindow]
  /\ knownTimer' = KnownWindow
  /\ knownFiles' = knownFiles \cup {f}
  /\ UNCHANGED <<text, open, turn, quiet, editManager, tabManager, lastChange, sent, log>>

\* (mutant) The text of the document goes into the checkpoint.
BeforeEditShown(f) == Shown(f)

\* The text a checkpoint before an edit is sent with: the stable one.
BeforeEdit(f) == IF stable[f] # None THEN stable[f] ELSE Shown(f)

\* handleOpenEvent, of a snapshot: the first session keeps the file.  A human
\* checkpoint follows, unless there was one just now.
OpenSnapshot(a, f) ==
  /\ SessionMay(a, f)
  /\ snapshot[f] # None => "late" \in Haste \/ "sessions" \in Haste
  /\ snapshot' = [snapshot EXCEPT ![f] =
                    [age |-> 0, by |-> IF @ = None THEN a ELSE @.by]]
  /\ IF humanAge[f] < HumanWindow THEN UNCHANGED <<humanAge, sent>>
     ELSE /\ humanAge' = [humanAge EXCEPT ![f] = 0]
          /\ Send(Checkpoint("human", One(f, BeforeEdit(f)), None))
  /\ turn' = [turn EXCEPT ![f] = a]
  /\ UNCHANGED <<text, disk, open, timers, stable, knownFiles, tabManager, lastChange, log>>

-----------------------------------------------------------------------------
(* The timers.                                                             *)

StableFires(f) ==
  /\ quiet[f] = 0
  /\ stable' = [stable EXCEPT ![f] = Length(f)]
  /\ quiet' = [quiet EXCEPT ![f] = None]
  /\ UNCHANGED <<documents, saves, knownTimer, snapshot, humanAge, knownFiles, tabManager,
                 lastChange, sent, log>>

Fresh(f) == snapshot[f] # None /\ snapshot[f].age < MaxSnapshotAge

\* evaluateSaveForCheckpoint: whatever it finds, it forgets the snapshot.
SaveFires(f) ==
  /\ saves[f] = 0
  /\ IF Fresh(f) THEN Send(Checkpoint(snapshot[f].by, One(f, Shown(f)), None))
     ELSE UNCHANGED sent
  /\ saves' = [saves EXCEPT ![f] = None]
  /\ snapshot' = [snapshot EXCEPT ![f] = None]
  /\ \/ turn' = [turn EXCEPT ![f] = None]
     \/ "after" \in Haste /\ UNCHANGED turn
  /\ UNCHANGED <<text, disk, open, quiet, knownTimer, stable, humanAge, knownFiles,
                 tabManager, lastChange, log>>

\* executeCheckpoint of the saves.
KnownFires ==
  /\ knownTimer = 0
  /\ Send(Checkpoint("known", [f \in knownFiles |-> Shown(f)], None))
  /\ knownTimer' = None
  /\ knownFiles' = {}
  /\ UNCHANGED <<documents, quiet, saves, editManager, tabManager, lastChange, log>>

Due(t) == t = 0
Later(t) == IF t = None THEN None ELSE t - 1

Tick ==
  /\ InTime /\ Quick /\ ~Inserting
  /\ ~Due(knownTimer) /\ \A f \in Files : ~Due(quiet[f]) /\ ~Due(saves[f])
  /\ quiet' = [f \in Files |-> Later(quiet[f])]
  /\ saves' = [f \in Files |-> Later(saves[f])]
  /\ knownTimer' = Later(knownTimer)
  /\ humanAge' = [f \in Files |->
                    IF humanAge[f] < HumanWindow THEN humanAge[f] + 1 ELSE HumanWindow]
  /\ snapshot' = [f \in Files |->
                    IF Fresh(f) THEN [snapshot[f] EXCEPT !.age = @ + 1] ELSE snapshot[f]]
  /\ UNCHANGED <<documents, stable, knownFiles, tabManager, lastChange, sent, log>>

-----------------------------------------------------------------------------
(* Tab completions: the extension takes the editor's command over, and     *)
(* gives it back while the command runs.                                   *)

\* beforeHook.
AcceptTab(k, f) ==
  /\ hooks[k].pc = "none" /\ \A j \in Tabs : j < k => hooks[j].pc # "none"
  /\ f \in open /\ ~Inserting /\ TabMay(f)
  /\ before' = [g \in open |-> Length(g)]
  /\ hooks' = [hooks EXCEPT ![k].pc = "command", ![k].file = f]
  /\ UNCHANGED <<documents, timers, editManager, knownFiles, lastChange, sent, log>>

\* The editor's command inserts the completion.
Insert(k) ==
  /\ hooks[k].pc = "command"
  /\ Change(hooks[k].file, "tab")
  /\ hooks' = [hooks EXCEPT ![k].pc = "inserted"]
  /\ UNCHANGED <<turn, before>>

\* While the command runs the extension does not see another acceptance.
InsertUnseen(f) ==
  /\ Inserting /\ "nested" \in Haste
  /\ Change(f, "tab")
  /\ UNCHANGED <<turn, tabManager>>

\* afterHook, up to its first await: it takes the last change of any document
\* for the completion.
AfterHook(k) ==
  /\ hooks[k].pc = "inserted"
  /\ IF lastChange = None \/ before = None
     THEN hooks' = [hooks EXCEPT ![k].pc = "done"] /\ UNCHANGED sent
     ELSE IF lastChange \notin DOMAIN before \/ before[lastChange] = 0
     THEN hooks' = [hooks EXCEPT ![k].pc = "done"] /\ UNCHANGED sent
     ELSE /\ hooks' = [hooks EXCEPT ![k] = [pc |-> "before", file |-> lastChange,
                                            after |-> Length(lastChange)]]
          /\ Send(Checkpoint("human", One(lastChange, before[lastChange]), k))
  /\ UNCHANGED <<documents, timers, editManager, knownFiles, before, lastChange, log>>

-----------------------------------------------------------------------------
(* A checkpoint process ends; afterHook goes on when its own does.         *)

Resume(k, rest) ==
  IF k = None THEN sent' = rest /\ UNCHANGED tabManager
  ELSE IF hooks[k].pc = "before"
  THEN /\ sent' = Append(rest, Checkpoint("tab", One(hooks[k].file, hooks[k].after), k))
       /\ hooks' = [hooks EXCEPT ![k].pc = "after"]
       /\ UNCHANGED before
  ELSE /\ sent' = rest
       /\ hooks' = [hooks EXCEPT ![k] = [NoHook EXCEPT !.pc = "done"]]
       /\ before' = None

Arrive(i) ==
  /\ i \in DOMAIN sent
  /\ i > 1 => "overtaking" \in Haste
  /\ Record(sent[i])
  /\ Resume(sent[i].hook, RemoveAt(sent, i))
  /\ UNCHANGED <<documents, timers, editManager, knownFiles, lastChange>>

EditorNext ==
  \/ \E f \in Files :
       \/ UserTypes(f) \/ Save(f) \/ OpenDocument(f) \/ CloseDocument(f)
       \/ StableFires(f) \/ SaveFires(f) \/ InsertUnseen(f)
       \/ \E a \in Agents : AgentEdits(a, f) \/ OpenSnapshot(a, f)
       \/ \E k \in Tabs : AcceptTab(k, f)
  \/ \E k \in Tabs : Insert(k) \/ AfterHook(k)
  \/ \E i \in DOMAIN sent : Arrive(i)
  \/ KnownFires \/ Tick

EditorSpec == EditorInit /\ [][EditorNext]_editorVars

-----------------------------------------------------------------------------

\* The kinds of checkpoint that tell the truth of a line.
TrueKinds(author) == IF author = "user" THEN {"human", "known"} ELSE {author}

\* No line is recorded for anyone but who wrote it.
RecordedForItsAuthor ==
  \A f \in Files : \A i \in DOMAIN attr[f] : attr[f][i] \in TrueKinds(text[f][i])

\* When every timer has fired and every process has ended, what is saved has an
\* author.
SavedHasAuthor ==
  (sent = <<>> /\ knownTimer = None /\ \A f \in Files : saves[f] = None)
    => \A f \in Files : disk[f] <= Len(attr[f])
=============================================================================
