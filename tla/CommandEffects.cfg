SPECIFICATION Spec
CONSTANTS
    f1 = f1
    f2 = f2
    Files <- TwoFiles
    Sessions <- FourUsers
    Cases = {"type"}
    MaxLine = 3
    MaxCommit = 4
    MaxMoves = 3
SYMMETRY FileSymmetry
CHECK_DEADLOCK FALSE
INVARIANTS
    CommittedNoted
    HumanStaysHuman
    UncommittedKept
    NothingLeftOver
