SPECIFICATION Spec
CONSTANTS
    Context = 1
    HeadFile <- MCHead
    Worktrees <- MCWorktrees
    MaxRequests = 2
    MaxEdits = 1
    Nothing = Nothing
INVARIANTS RewriteDual
PROPERTIES StagedAsShown NothingMadeUp
CHECK_DEADLOCK FALSE
