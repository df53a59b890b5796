SPECIFICATION FairSpec
CONSTANTS
    t1 = t1
    t2 = t2
    NoThread = NoThread
    Threads <- TwoThreads
    Ops <- AllOps
    MaxOps = 3
    MaxDeaths = 1
    Checks = 1
INVARIANTS
    TypeOK
    OneDefaultClient
    RouteIsTrue
    EnvironmentShared
PROPERTIES
    AbandonedStops
    OperationsEnd
