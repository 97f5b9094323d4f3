\* Two commands in the wrapper, one after the other, that move HEAD: the first starts a git of its own, the second has a place in the sequencer.
CONSTANTS
    Cmds = {1, 2}
    Trees = {"main", "submodule"}
    Home <- OneTree
    Child <- ChildAtHome
    Movers = {1, 2}
    Wrapped = {1, 2}
    Named = {2}
    Shells = 1
    Prompt = FALSE
    Timeouts = TRUE
    Limit = 1
    Nowhere = Nowhere
SPECIFICATION Spec
CHECK_DEADLOCK FALSE
INVARIANTS TimelyMoveKept AppliedOnce
