CONSTANTS
    Lines = {1, 2}
    Agents = {a1}
    Marks = {a1}
    Returns = FALSE
    Overlap = {}
    Typing = "checkpoint"
    SaveDelays = FALSE
    MaxEdits = 3
    MaxCommits = 2
    MaxFaults = 1
SPECIFICATION FairSpec
INVARIANTS AiLinesNoted AppendsKept
PROPERTY CommitsNoted
CHECK_DEADLOCK FALSE
