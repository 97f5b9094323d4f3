\* A command of any kind, a checkpoint and garbage collections at any time.
SPECIFICATION FairSpec
CONSTANTS
    f1 = f1
    Families = {f1}
    Roots = {r1}
    Clients = {c1}
    Worker = Worker
    FamilyOf <- OneFamilyRoots
    RepoOf <- OneFamilyClients
    LockIds = {1, 2, 3, 4}
    None = None
    Commands <- Attr
    Killable = {r1}
    MaxClock = 2
    MaxFailures = 1
    MaxGc = 2
INVARIANTS
    SlotsMatchPending
    EffectsAtMostOnce
PROPERTY WaitedCheckpointAnswered
CHECK_DEADLOCK FALSE
