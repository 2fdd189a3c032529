SPECIFICATION FairSpec
CONSTANTS
    InitialLog <- MCInitialLog
    InitialVersion = 3
    FetchSize = 4
    Mine <- MCMine
    CommitLimit = 2
    FirstBatchSize = 1
    Ops = {o1}
    Refreshers = {r1}
    Pagers = {p1}
    NotifyMisses = TRUE
    EditKinds = {"commit", "reset"}
    OpKinds = {"index", "commit"}
    Budget <- MCBudget
    NoEdits = 1
    NoTrees = 1
    NoOps = 1
    NoRefreshes = 1
    NoToggles = 0
    NoErrors = 1
    NoWatchErrors = 0
    NoEvents = 2
PROPERTIES PagingEnds EditsReachTheView
