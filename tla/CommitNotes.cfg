SPECIFICATION Spec
CHECK_DEADLOCK FALSE
INVARIANTS SplitExact RebaseKeepsCredit PicksKeepCredit
