SPECIFICATION Spec
CONSTANTS
    Context = 1
    HeadFile <- MCHead
    Worktrees <- MCWorktrees
    MaxRequests = 2
    MaxEdits = 0
    Nothing = Nothing
PROPERTIES StagedIsSelected
CHECK_DEADLOCK FALSE
