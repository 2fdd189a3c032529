CONSTANTS
    Path = {"f", "g"}
    Branch = {"main", "side", "topic"}
    Remote = {"origin/main", "origin/side", "origin/topic"}
    Tag = {"v1"}
    None = "none"
    InitialBranch = "main"
    MaxRunning = 2
    MaxUndo = 1
    LocalName <- Names
    InitialUpstream <- Tracks
    InitialServer <- Server
    InitialCommits <- Commits
    InitialRefs <- Refs
    InitialStashes <- Stashes
    Offered <- CommitThenSwitch
    Budget <- OperationBudget

SPECIFICATION Spec
CHECK_DEADLOCK FALSE

PROPERTY UndoMovesBack
