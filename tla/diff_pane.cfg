SPECIFICATION FairSpec
CONSTANTS
    edited = edited
    merging = merging
    c1 = c1
    c2 = c2
    s1 = s1
    s2 = s2
    File = {edited, merging}
    Conflicted = {merging}
    History <- MCHistory
    EmptyCommit = {c1}
    InitialStashes <- MCStashes
    RowCount <- MCRowCount
    InitialTheme = "light"
    None = None
    PrefetchWindow = 1
    BatchSize = 1
    MaxPending = 1
    CacheCapacity = 1
    DisplayEntries = 2
    DisplayRows = 3
    Budget <- MCBudget
    NoSelects = 2
    NoEdits = 1
    NoDrops = 1
    NoThemes = 1
    NoChoices = 1
    NoFailures = 1
    NoEvents = 3
INVARIANTS TypeOK ShownIsSelected DisplayCacheExact PrefetchExact
PROPERTIES ViewSettles
CHECK_DEADLOCK FALSE
