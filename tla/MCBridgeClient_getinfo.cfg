SPECIFICATION Spec
CONSTANTS
    t1 = t1
    t2 = t2
    NoThread = NoThread
    Threads <- TwoThreads
    Methods <- InfoPingEval
    Advertised <- Served
    Faults <- NoFaults
    MaxCalls = 3
    MaxDeaths = 1
    MaxEchoes = 0
INVARIANTS
    OnlyAdvertised
