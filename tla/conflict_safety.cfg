SPECIFICATION Spec
CONSTANTS
    r1 = r1
    r2 = r2
    Resolver = {r1, r2}
    Save = {s1, s2}
    Original = Original
    Empty = Empty
    Missing = Missing
    Symlinks = {r2}
    Marked = {Original}
    File = File
    Conflict = Conflict
    Elsewhere = Elsewhere
    Free = Free
    Git = Git
    Plans <- MCPlans
    EditKinds = {"rename", "inplace", "delete"}
    Faults <- FaultPoint
    Budget <- MCBudget
    NoEdits = 2
    NoGits = 1
    NoFaults = 1
    NoEvents = 2
INVARIANTS TypeOK LockGivenBack RefusalRestores
PROPERTIES AtomicResolution NoEditLostOtherwise
SYMMETRY MCSymmetry
CHECK_DEADLOCK FALSE
