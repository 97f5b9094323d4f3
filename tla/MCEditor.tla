------------------------------- MODULE MCEditor -------------------------------
(***************************************************************************)
(* The VS Code extension.  Its blame: the queue of the requests on its own *)
(* (BlameQueue), and with what the editor shows (BlameLens), for a user    *)
(* who waits for answers and for one who does not.  Its checkpoints        *)
(* (EditorCheckpoints), for calm users and sessions and for some in haste. *)
(* A behaviour follows one of the five instances; the variables it has no  *)
(* use for have no value.                                                  *)
(***************************************************************************)
EXTENDS Naturals, Sequences, FiniteSets, TLC

CONSTANTS d1, d2,     \* documents of the lens, files that are edited
          q1, q2, q3, \* documents of the queue on its own
          f1,         \* the file of the hasty
          s1,         \* a chat session
          None        \* no document, no blame, no timer

VARIABLES
    part,                                                             \* the instance
    tasks, queue, running, jobs,                                      \* BlameQueue
    lens, cache, asked, waiters, content, head, noted, events, floor, \* BlameLens
    text, disk, open, stable, quiet, saves, snapshot, humanAge,       \* EditorCheckpoints
    knownTimer, knownFiles, before, lastChange, hooks, sent, attr, aiTexts, turn

queueVars == <<tasks, queue, running, jobs>>
fieldVars == <<lens, cache, asked, waiters, content, head, noted, events, floor>>
documentVars == <<text, disk, open, stable, quiet, saves, snapshot, humanAge>>
checkpointVars == <<knownTimer, knownFiles, before, lastChange, hooks, sent, attr, aiTexts,
                    turn>>

TwoDocs == {d1, d2}
ThreeDocs == {q1, q2, q3}
AllModes == {"off", "line", "all"}

Queue == INSTANCE BlameQueue
           WITH Docs <- ThreeDocs, MaxTasks <- 5, Again <- FALSE
Patient == INSTANCE BlameLens
             WITH Docs <- TwoDocs, MaxTasks <- 8, Again <- TRUE, Modes <- AllModes,
                  MaxEvents <- 6, Answers <- {"blame"}, Racing <- FALSE, Hasty <- FALSE
Hurried == INSTANCE BlameLens
             WITH Docs <- TwoDocs, MaxTasks <- 6, Again <- TRUE, Modes <- AllModes,
                  MaxEvents <- 5, Answers <- {"blame", "null"}, Racing <- TRUE, Hasty <- TRUE
CalmEdits == INSTANCE EditorCheckpoints
               WITH Files <- TwoDocs, Agents <- {s1}, Haste <- {}, MaxEdits <- 2,
                    MaxTabs <- 1, SaveWindow <- 1, HumanWindow <- 2, KnownWindow <- 2,
                    StableWindow <- 3, MaxSnapshotAge <- 4
HastyEdits == INSTANCE EditorCheckpoints
                WITH Files <- {f1}, Agents <- {s1}, MaxEdits <- 3, MaxTabs <- 2,
                     Haste <- {"unseen", "nested", "empty", "elsewhere", "saving"},
                     SaveWindow <- 1, HumanWindow <- 2, KnownWindow <- 2,
                     StableWindow <- 3, MaxSnapshotAge <- 5

ASSUME InstancesAssumption ==
    /\ Queue!QueueConstants
    /\ Patient!QueueConstants /\ Patient!LensConstants
    /\ Hurried!QueueConstants /\ Hurried!LensConstants
    /\ CalmEdits!EditorConstants /\ HastyEdits!EditorConstants

NoLens ==
    /\ lens = None /\ cache = None /\ asked = None /\ waiters = None /\ content = None
    /\ head = None /\ noted = None /\ events = None /\ floor = None

NoQueue == tasks = None /\ queue = None /\ running = None /\ jobs = None

NoEdits ==
    /\ text = None /\ disk = None /\ open = None /\ stable = None /\ quiet = None
    /\ saves = None /\ snapshot = None /\ humanAge = None /\ knownTimer = None
    /\ knownFiles = None /\ before = None /\ lastChange = None /\ hooks = None
    /\ sent = None /\ attr = None /\ aiTexts = None /\ turn = None

Init ==
    \/ part = "queue" /\ Queue!QueueInit /\ NoLens /\ NoEdits
    \/ part = "patient" /\ Patient!LensInit /\ NoEdits
    \/ part = "hurried" /\ Hurried!LensInit /\ NoEdits
    \/ part = "calm" /\ CalmEdits!EditorInit /\ NoQueue /\ NoLens
    \/ part = "hasty" /\ HastyEdits!EditorInit /\ NoQueue /\ NoLens

NoCheckpoint == UNCHANGED <<part, documentVars, checkpointVars>>
NoBlame == UNCHANGED <<part, queueVars, fieldVars>>

QueueStep == part = "queue" /\ Queue!QueueNext /\ UNCHANGED fieldVars /\ NoCheckpoint
PatientStep == part = "patient" /\ Patient!LensNext /\ NoCheckpoint
HurriedStep == part = "hurried" /\ Hurried!LensNext /\ NoCheckpoint
CalmStep == part = "calm" /\ CalmEdits!EditorNext /\ NoBlame
HastyStep == part = "hasty" /\ HastyEdits!EditorNext /\ NoBlame

Next == QueueStep \/ PatientStep \/ HurriedStep \/ CalmStep \/ HastyStep

Spec == Init /\ [][Next]_<<part, queueVars, fieldVars, documentVars, checkpointVars>>

Symmetry == Permutations(TwoDocs) \cup Permutations(ThreeDocs)

\* The queue keeps to its limit, and of the requests for a document only the last
\* can be waiting.  What a patient user is shown is the blame of the document and
\* the text before him with the notes of his last save; no haste makes anything
\* show when blame is off.
BlameShowsWhatIs ==
    /\ part = "queue" => Queue!AtMostMaxConcurrentRun /\ Queue!LastRequestWaits
    /\ part = "patient" => /\ Patient!OwnBlame /\ Patient!LinesCurrent
                           /\ Patient!SaveShowsNotes /\ Patient!BarShownAtRest
    /\ part = "hurried" => Hurried!OffShowsNothing

\* Of calm users and sessions every recorded line is recorded for who wrote it;
\* and also with completions that follow each other at once, in empty files, in
\* files being saved, or while other lines change, what is saved gets an author.
CheckpointsTellAuthors ==
    /\ part = "calm" => CalmEdits!RecordedForItsAuthor /\ CalmEdits!SavedHasAuthor
    /\ part = "hasty" => HastyEdits!SavedHasAuthor
=============================================================================
