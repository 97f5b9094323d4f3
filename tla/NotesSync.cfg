\* Two clones, three notes of two commits, a failure of the network or of a merge.
SPECIFICATION FairSpec
CONSTANTS
    A = A
    B = B
    k1 = k1
    k2 = k2
    Clones = {A, B}
    Commits = {k1, k2}
    Ids = {1, 2, 3, 4, 5}
    None = None
    MaxAdds <- OneInCommon
    MaxAttempts = 2
    MaxFailures = 1
    Serialised = TRUE
INVARIANTS PushedNotesStay AddedNotesKept
PROPERTIES NotesNeverRegress NotesMeet
CHECK_DEADLOCK FALSE
