\* Two calls in one worktree whose agents may be stopped, and a user who commits.
SPECIFICATION Spec
CONSTANTS
    t1 = t1
    f1 = f1
    f2 = f2
    c1 = c1
    c2 = c2
    Trees = {t1}
    Files = {f1, f2}
    Calls = {c1, c2}
    Home <- OneTree
    Unnamed = {}
    Grace = 1
    Stale = 9
    MaxClock = 3
    MaxEdits = 2
    Failing = TRUE
    Aborting = {c1, c2}
    Overlap = FALSE
    Quick = FALSE
    Typing = FALSE
    Lag = FALSE
    Committers = {"user"}
CHECK_DEADLOCK FALSE
INVARIANTS UserStaysHuman AgentStaysAi CoveredIsRead EditsReported
SYMMETRY Alike
