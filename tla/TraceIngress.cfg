\* A commit and a process it starts, either of which may be killed, a connection
\* that cannot be read to its end, a shutdown; a small channel.
SPECIFICATION FairSpec
CONSTANTS
    g1 = g1
    h1 = h1
    Procs = {g1, h1}
    RootOf <- Family
    Script <- CommitAndReader
    Killable = {g1, h1}
    RootReadFirst = TRUE
    Cap = 2
    MaxReadErrors = 1
    MayStop = TRUE
    None = None
INVARIANTS
    NoNumberLost
    FallbackAfterEnd
PROPERTIES
    DeliversInOrder
    StartedRootEnds
    WatermarkAdvances
CHECK_DEADLOCK FALSE
