SPECIFICATION Spec
CONSTANTS
    t1 = t1
    t2 = t2
    NoThread = NoThread
    Threads <- OneThread
    Methods <- JustChecks
    Advertised <- Served
    Faults <- NoFaults
    MaxCalls = 2
    MaxDeaths = 1
    MaxEchoes = 0
INVARIANTS
    ShakenFirst
