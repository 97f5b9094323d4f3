\* Two commands and a checkpoint of one family between garbage collections.
SPECIFICATION NoGcSpec
CONSTANTS
    f1 = f1
    Families = {f1}
    Roots = {r1, r2}
    Clients = {c1}
    Worker = Worker
    FamilyOf <- OneFamilyRoots
    RepoOf <- OneFamilyClients
    LockIds = {1, 2, 3, 4}
    None = None
    Commands <- MutatingCommands
    Killable = {r1, r2}
    MaxClock = 2
    MaxFailures = 0
    MaxGc = 0
SYMMETRY TaskSymmetry
INVARIANTS
    DrainsExclude
    CheckpointAfterEarlierCommands
    CommandsInStartOrder
    WatermarkCoversEffects
CHECK_DEADLOCK FALSE
