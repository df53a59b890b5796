SPECIFICATION FairSpec
CONSTANTS
    x = x
    y = y
    w1 = w1
    w2 = w2
    NoWorker = NoWorker
    Vars <- TwoVars
    FirstVar = x
    Grid <- Coords
    Root <- Plane
    Wrong <- WrongPlane
    Requests <- OneBound
    Strategies <- PlaneCuts
    Modes <- BothModes
    Workers <- Threads
    MaxSplits = 2
    MaxDepth = 2
    MinWidth = 2
    MinVolume = 0
INVARIANTS
    TypeOK
    Sound
    CountedOnce
    ClientsClosedInTime
    WithinLimits
PROPERTIES
    CoverSpec
    Ends
