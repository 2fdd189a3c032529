SPECIFICATION Spec
CONSTANTS
    InitialLog <- MCShortLog
    InitialVersion = 2
    FetchSize = 4
    Mine <- MCMine
    CommitLimit = 2
    FirstBatchSize = 1
    Ops = {o1}
    Refreshers = {r1}
    Pagers = {p1, p2}
    NotifyMisses = FALSE
    EditKinds = {"commit", "reset", "fetch"}
    OpKinds = {"commit"}
    Budget <- MCBudget
    NoEdits = 1
    NoTrees = 0
    NoOps = 1
    NoRefreshes = 1
    NoToggles = 1
    NoErrors = 0
    NoWatchErrors = 0
    NoEvents = 3
INVARIANTS TypeOK PagingFlagExact LiveQueriesMatchFilter NoDuplicates
PROPERTIES WatcherNeverGoesBack PageContinuesList
SYMMETRY MCSymmetry
