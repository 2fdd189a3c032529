SPECIFICATION Spec
CONSTANTS
    w1 = w1
    w2 = w2
    Nobody = Nobody
    Worktree <- MCWorktree
    InitialFile <- MCInitialFile
    Offered <- MCOffered
    Budget <- MCBudget
    MaxRunning = 2
    MaxUndo = 1
INVARIANTS TypeOK UndoKnowsItsFile
PROPERTIES EditsSurvive TasksSerialized
CHECK_DEADLOCK FALSE
