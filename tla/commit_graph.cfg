SPECIFICATION Spec
CONSTANTS
    Commits = 6
    Windows <- MCWindows
INVARIANTS TypeOK MainOnLaneZero LinesMeet LinesLead
CHECK_DEADLOCK FALSE
