SPECIFICATION FairSpec
CONSTANTS
    t1 = t1
    t2 = t2
    NoThread = NoThread
    Threads <- TwoThreads
    Methods <- ReadInfoClose
    Advertised <- Served
    Faults <- Everything
    MaxCalls = 3
    MaxDeaths = 1
    MaxEchoes = 1
INVARIANTS
    TypeOK
    OneProcess
    FirstTrusted
PROPERTIES
    ServiceSpec
    CallsReturn
