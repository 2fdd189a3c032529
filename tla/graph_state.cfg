SPECIFICATION FairSpec
CONSTANTS
    main = main
    feature = feature
    originMain = originMain
    forkMain = forkMain
    Local = {main, feature}
    Remote = {originMain, forkMain}
    InitialUpstream <- LocalUpstream
    NoBranch = NoBranch
    TrunkOrder <- MCTrunkOrder
    InitialTips <- MCInitialTips
    InitialHead = main
    InitialVersion = 2
    MaxAttempts = 2
    EditKinds = {"commit", "checkout", "detach", "push", "fetch", "delete", "publish", "track"}
    Budget <- MCBudget
    NoCommits = 1
    NoCheckouts = 2
    NoPushes = 1
    NoFetches = 1
    NoDeletes = 1
    NoDetaches = 1
    NoPublishes = 1
    NoTracks = 1
    NoFulls = 1
    NoOperations = 1
    NoStages = 1
    NoToggles = 1
    NoSaves = 1
    NoErrors = 1
    NoEvents = 3
INVARIANTS TypeOK TrunkAnswersHold
PROPERTIES UpstreamMoveDropsCounts SteadyStateIsQuiet GraphStateSettles
CHECK_DEADLOCK FALSE
